---------------------------- MODULE ClockProofs ----------------------------
(***************************************************************************)
(* The replacement algorithms, which move a pointer and clear bits as they *)
(* go, stop where their definitions by classes and distances say, for any  *)
(* number of frames.  A search is a path with a first place to stop (there *)
(* is one because a set of naturals has a least element), and the value of *)
(* the recursive function is the same at every place of the path before it.*)
(***************************************************************************)
EXTENDS MCClock, Integers, TLAPS, WellFoundedInduction

-----------------------------------------------------------------------------
(* Searches                                                                *)

\* A set of naturals has a least element.
LEMMA Minimo ==
  ASSUME NEW T, T # {}, T \subseteq Nat
  PROVE  \E n \in T : \A m \in T : n <= m
<1>1. PICK n \in T : \A m \in T : ~(<<m, n>> \in OpToRel(<, Nat))
  BY NatLessThanWellFounded, WFMin
<1>2. \A m \in T : <<m, n>> \in Nat \X Nat
  OBVIOUS
<1>3. \A m \in T : ~(m < n)
  BY <1>1, <1>2 DEF OpToRel
<1>. QED  BY <1>3

\* c goes from e, a step at a time, to the first place where the search stops.
Camino(S, para, sigue, e, n, c) ==
  /\ c \in [0 .. n -> S] /\ c[0] = e /\ para[c[n]]
  /\ \A i \in 0 .. n - 1 : ~para[c[i]] /\ c[i + 1] = sigue[c[i]]

Paradas(S, para, sigue, e) ==
  {x \in S : \E n \in Nat : \E c \in [0 .. n -> S] : Camino(S, para, sigue, e, n, c) /\ c[n] = x}

\* F is the search that gives hallada where para says to stop and goes on with
\* sigue where it does not.
EsBusca(S, para, hallada, sigue, F) ==
  /\ F = [e \in S |-> F[e]]
  /\ \A e \in S : F[e] = IF para[e] THEN hallada[e] ELSE F[sigue[e]]

\* A search defined by what to do at a stop and how to go on otherwise is a
\* function, whether or not it ends.
LEMMA ExisteBusca ==
  ASSUME NEW S, NEW para, NEW hallada, NEW sigue \in [S -> S]
  PROVE  \E F : EsBusca(S, para, hallada, sigue, F)
<1>. DEFINE R(e) == Paradas(S, para, sigue, e)
            V(T) == CHOOSE r : \E x \in T : r = hallada[x]
            F == [e \in S |-> V(R(e))]
<1>1. ASSUME NEW e \in S, para[e] PROVE R(e) = {e}
  <2>1. e \in R(e)
    <3>. DEFINE c == [i \in 0 .. 0 |-> e]
    <3>1. Camino(S, para, sigue, e, 0, c) /\ c[0] = e /\ c \in [0 .. 0 -> S]
      BY <1>1 DEF Camino
    <3>. HIDE DEF c
    <3>. QED  BY <3>1 DEF Paradas
  <2>2. ASSUME NEW x \in R(e) PROVE x = e
    <3>0. PICK n \in Nat : \E c \in [0 .. n -> S] : Camino(S, para, sigue, e, n, c) /\ c[n] = x
      BY <2>2 DEF Paradas
    <3>1. PICK c \in [0 .. n -> S] : Camino(S, para, sigue, e, n, c) /\ c[n] = x
      BY <3>0
    <3>2. n = 0
      <4>1. CASE n > 0
        <5>1. 0 \in 0 .. n - 1
          BY <4>1
        <5>. QED  BY <1>1, <3>1, <5>1 DEF Camino
      <4>. QED  BY <4>1
    <3>. QED  BY <3>1, <3>2 DEF Camino
  <2>. QED  BY <2>1, <2>2
<1>2. ASSUME NEW e \in S, ~para[e] PROVE R(e) = R(sigue[e])
  <2>1. ASSUME NEW x \in R(e) PROVE x \in R(sigue[e])
    <3>0. PICK n \in Nat : \E c \in [0 .. n -> S] : Camino(S, para, sigue, e, n, c) /\ c[n] = x
      BY <2>1 DEF Paradas
    <3>1. PICK c \in [0 .. n -> S] : Camino(S, para, sigue, e, n, c) /\ c[n] = x
      BY <3>0
    <3>2. n # 0
      BY <1>2, <3>1 DEF Camino
    <3>. DEFINE m == n - 1
                d == [i \in 0 .. m |-> c[i + 1]]
    <3>3. m \in Nat /\ n = m + 1 /\ \A i \in 0 .. m : i + 1 \in 0 .. n
      BY <3>2
    <3>4. d \in [0 .. m -> S] /\ d[m] = x /\ d[0] = sigue[e]
      <4>1. c[1] = sigue[c[0]] /\ c[0] = e
        <5>1. 0 \in 0 .. n - 1
          BY <3>3
        <5>. QED  BY <3>1, <5>1 DEF Camino
      <4>2. \A i \in 0 .. m : c[i + 1] \in S
        BY <3>3
      <4>. QED  BY <3>1, <3>3, <4>1, <4>2
    <3>5. \A i \in 0 .. m - 1 : ~para[d[i]] /\ d[i + 1] = sigue[d[i]]
      <4>. TAKE i \in 0 .. m - 1
      <4>1. i + 1 \in 0 .. n - 1 /\ i \in 0 .. m /\ i + 1 \in 0 .. m
        BY <3>3
      <4>2. ~para[c[i + 1]] /\ c[(i + 1) + 1] = sigue[c[i + 1]]
        BY <3>1, <4>1 DEF Camino
      <4>. QED  BY <4>1, <4>2
    <3>. HIDE DEF d, m
    <3>6. para[d[m]] /\ x \in S
      BY <3>1, <3>4 DEF Camino
    <3>. QED  BY <3>3, <3>4, <3>5, <3>6 DEF Paradas, Camino
  <2>2. ASSUME NEW x \in R(sigue[e]) PROVE x \in R(e)
    <3>0. PICK m \in Nat : \E d \in [0 .. m -> S] : Camino(S, para, sigue, sigue[e], m, d) /\ d[m] = x
      BY <2>2 DEF Paradas
    <3>1. PICK d \in [0 .. m -> S] : Camino(S, para, sigue, sigue[e], m, d) /\ d[m] = x
      BY <3>0
    <3>. DEFINE n == m + 1
                c == [i \in 0 .. n |-> IF i = 0 THEN e ELSE d[i - 1]]
    <3>2. n \in Nat /\ c \in [0 .. n -> S] /\ c[n] = x /\ c[0] = e
      <4>1. \A i \in 0 .. n : i # 0 => i - 1 \in 0 .. m
        OBVIOUS
      <4>. QED  BY <3>1, <4>1
    <3>3. \A i \in 0 .. n - 1 : ~para[c[i]] /\ c[i + 1] = sigue[c[i]]
      <4>. TAKE i \in 0 .. n - 1
      <4>1. i \in 0 .. n /\ i + 1 \in 0 .. n /\ i + 1 # 0 /\ (i + 1) - 1 = i
        OBVIOUS
      <4>2. c[i + 1] = d[i]
        BY <4>1
      <4>3. CASE i = 0
        BY <1>2, <3>1, <3>2, <4>2, <4>3 DEF Camino
      <4>4. CASE i # 0
        <5>1. i - 1 \in 0 .. m - 1 /\ (i - 1) + 1 = i /\ c[i] = d[i - 1]
          BY <4>1, <4>4
        <5>. QED  BY <3>1, <4>2, <5>1 DEF Camino
      <4>. QED  BY <4>3, <4>4
    <3>. HIDE DEF c, n
    <3>4. para[c[n]] /\ x \in S
      BY <3>1, <3>2 DEF Camino
    <3>. QED  BY <3>2, <3>3, <3>4 DEF Paradas, Camino
  <2>3. R(e) \subseteq S /\ R(sigue[e]) \subseteq S
    BY DEF Paradas
  <2>. QED  BY <2>1, <2>2
<1>3. \A e \in S : F[e] = IF para[e] THEN hallada[e] ELSE F[sigue[e]]
  <2>. TAKE e \in S
  <2>1. F[e] = V(R(e)) /\ F[sigue[e]] = V(R(sigue[e]))
    OBVIOUS
  <2>2. CASE para[e]
    <3>1. V({e}) = hallada[e]
      OBVIOUS
    <3>. QED  BY <1>1, <2>1, <2>2, <3>1
  <2>3. CASE ~para[e]
    BY <1>2, <2>1, <2>3
  <2>. QED  BY <2>2, <2>3
<1>. HIDE DEF R, V
<1>4. F = [e \in S |-> F[e]]
  OBVIOUS
<1>. HIDE DEF F
<1>. QED  BY <1>3, <1>4 DEF EsBusca

\* What it finds is at the end of its path.
LEMMA FinDelCamino ==
  ASSUME NEW S, NEW para, NEW hallada, NEW sigue \in [S -> S], NEW F,
         EsBusca(S, para, hallada, sigue, F),
         NEW e \in S, NEW n \in Nat, NEW c, Camino(S, para, sigue, e, n, c)
  PROVE  F[e] = hallada[c[n]]
<1>. DEFINE T == {i \in 0 .. n : F[c[i]] = hallada[c[n]]}
<1>1. n \in T /\ T \subseteq Nat
  <2>1. c[n] \in S /\ para[c[n]]
    BY DEF Camino
  <2>. QED  BY <2>1 DEF EsBusca
<1>2. PICK i \in T : \A j \in T : i <= j
  BY <1>1, Minimo
<1>3. i = 0
  <2>. SUFFICES ASSUME i # 0 PROVE FALSE
    OBVIOUS
  <2>. DEFINE j == i - 1
  <2>1. j \in 0 .. n - 1 /\ j \in 0 .. n /\ j + 1 = i /\ ~(i <= j)
    BY <1>1, <1>2
  <2>2. c[j] \in S /\ ~para[c[j]] /\ c[i] = sigue[c[j]]
    BY <2>1 DEF Camino
  <2>3. F[c[j]] = F[c[i]]
    BY <2>2 DEF EsBusca
  <2>4. j \in T
    BY <1>2, <2>1, <2>3
  <2>. QED  BY <1>2, <2>1, <2>4
<1>. QED  BY <1>2, <1>3 DEF Camino

\* A path that stops somewhere has a first place where it does.
LEMMA PrimeraParada ==
  ASSUME NEW S, NEW para, NEW sigue \in [S -> S], NEW n \in Nat, NEW c \in [0 .. n -> S],
         para[c[n]], \A i \in 0 .. n - 1 : ~para[c[i]] => c[i + 1] = sigue[c[i]]
  PROVE  \E m \in 0 .. n : /\ para[c[m]] /\ \A i \in 0 .. m - 1 : ~para[c[i]]
                           /\ Camino(S, para, sigue, c[0], m, [i \in 0 .. m |-> c[i]])
<1>. DEFINE T == {i \in 0 .. n : para[c[i]]}
<1>1. n \in T /\ T \subseteq Nat
  OBVIOUS
<1>2. PICK m \in T : \A j \in T : m <= j
  BY <1>1, Minimo
<1>. DEFINE d == [i \in 0 .. m |-> c[i]]
<1>3. \A i \in 0 .. m - 1 : ~para[c[i]] /\ i \in 0 .. n - 1 /\ i \in 0 .. m /\ i + 1 \in 0 .. m
  <2>. TAKE i \in 0 .. m - 1
  <2>1. i \in 0 .. n /\ ~(m <= i) /\ i \in 0 .. n - 1 /\ i \in 0 .. m /\ i + 1 \in 0 .. m
    BY <1>1, <1>2
  <2>. QED  BY <1>2, <2>1
<1>4. d \in [0 .. m -> S] /\ d[0] = c[0] /\ para[d[m]]
  <2>1. 0 \in 0 .. m /\ m \in 0 .. m /\ \A i \in 0 .. m : i \in 0 .. n
    BY <1>1, <1>2
  <2>. QED  BY <1>2, <2>1
<1>5. \A i \in 0 .. m - 1 : ~para[d[i]] /\ d[i + 1] = sigue[d[i]]
  BY <1>3
<1>. QED  BY <1>2, <1>3, <1>4, <1>5 DEF Camino

-----------------------------------------------------------------------------
(* The laps of the pointer                                                 *)

N == MarcosPorProceso

\* The k-th position from the pointer on.
Pos(inicio, k) == IF inicio + k < N THEN inicio + k ELSE inicio + k - N

\* A lap visits every position once, and comes back.
LEMMA Vuelta ==
  ASSUME NEW inicio \in Posiciones
  PROVE  /\ \A k \in 0 .. N : Pos(inicio, k) \in Posiciones
         /\ \A k \in 0 .. N - 1 : /\ avanzar_puntero(Pos(inicio, k)) = Pos(inicio, k + 1)
                                  /\ Distancia(inicio, Pos(inicio, k)) = k
                                  /\ Pos(inicio, k + 1) = inicio <=> k + 1 = N
         /\ Pos(inicio, 0) = inicio /\ Pos(inicio, N) = inicio
         /\ \A p \in Posiciones : /\ Distancia(inicio, p) \in 0 .. N - 1
                                  /\ Pos(inicio, Distancia(inicio, p)) = p
<1>1. N \in Nat \ {0} /\ inicio \in 0 .. N - 1
  BY MarcosAssumption DEF N, Posiciones
<1>2. \A k \in 0 .. N : Pos(inicio, k) \in Posiciones
  BY <1>1 DEF Pos, Posiciones, N
<1>3. ASSUME NEW k \in 0 .. N - 1
      PROVE  /\ avanzar_puntero(Pos(inicio, k)) = Pos(inicio, k + 1)
             /\ Distancia(inicio, Pos(inicio, k)) = k
             /\ Pos(inicio, k + 1) = inicio <=> k + 1 = N
  <2>1. Distancia(inicio, Pos(inicio, k)) = k
    <3>1. k % N = k /\ (k + N) % N = k
      BY <1>1
    <3>2. CASE inicio + k < N
      <4>1. (inicio + k) + N - inicio = k + N
        BY <1>1
      <4>. QED  BY <3>1, <3>2, <4>1 DEF Pos, Distancia, N
    <3>3. CASE ~(inicio + k < N)
      <4>1. (inicio + k - N) + N - inicio = k
        BY <1>1
      <4>. QED  BY <3>1, <3>3, <4>1 DEF Pos, Distancia, N
    <3>. QED  BY <3>2, <3>3
  <2>. QED  BY <1>1, <2>1 DEF Pos, avanzar_puntero, N
<1>4. Pos(inicio, 0) = inicio /\ Pos(inicio, N) = inicio
  BY <1>1 DEF Pos
<1>5. ASSUME NEW p \in Posiciones
      PROVE  Distancia(inicio, p) \in 0 .. N - 1 /\ Pos(inicio, Distancia(inicio, p)) = p
  <2>1. PICK k \in 0 .. N - 1 : Pos(inicio, k) = p
    <3>1. p \in 0 .. N - 1
      BY DEF Posiciones, N
    <3>2. CASE inicio <= p
      <4>1. p - inicio \in 0 .. N - 1 /\ Pos(inicio, p - inicio) = p
        BY <1>1, <3>1, <3>2 DEF Pos
      <4>. QED  BY <4>1
    <3>3. CASE p < inicio
      <4>1. p + N - inicio \in 0 .. N - 1 /\ Pos(inicio, p + N - inicio) = p
        BY <1>1, <3>1, <3>3 DEF Pos
      <4>. QED  BY <4>1
    <3>. QED  BY <1>1, <3>1, <3>2, <3>3
  <2>. QED  BY <1>3, <2>1
<1>. QED  BY <1>2, <1>3, <1>4, <1>5

\* The first position of a set is the one nobody in it is nearer than.
LEMMA PrimeraUnica ==
  ASSUME NEW inicio \in Posiciones, NEW T, T \subseteq Posiciones, NEW p \in T,
         \A q \in T : Distancia(inicio, p) <= Distancia(inicio, q)
  PROVE  Primera(inicio, T) = p
<1>1. \A q \in T : (\A z \in T : Distancia(inicio, q) <= Distancia(inicio, z)) => q = p
  <2>. SUFFICES ASSUME NEW q \in T, \A z \in T : Distancia(inicio, q) <= Distancia(inicio, z)
                PROVE  q = p
    OBVIOUS
  <2>1. Distancia(inicio, q) = Distancia(inicio, p)
    <3>1. /\ Distancia(inicio, q) \in Int /\ Distancia(inicio, p) \in Int
          /\ Distancia(inicio, q) <= Distancia(inicio, p)
          /\ Distancia(inicio, p) <= Distancia(inicio, q)
      BY Vuelta
    <3>. QED  BY <3>1
  <2>2. q = Pos(inicio, Distancia(inicio, q)) /\ p = Pos(inicio, Distancia(inicio, p))
    BY Vuelta
  <2>. QED  BY <2>1, <2>2
<1>. QED  BY <1>1 DEF Primera

\* The b after the first k pages of a lap that clears.
Tras(b, inicio, k) ==
  [q \in Posiciones |-> [uso |-> b[q].uso /\ ~(Distancia(inicio, q) < k),
                         modificado |-> b[q].modificado]]

LEMMA TrasPaso ==
  ASSUME NEW b \in Bits, NEW inicio \in Posiciones
  PROVE  /\ \A k \in 0 .. N : Tras(b, inicio, k) \in Bits
         /\ Tras(b, inicio, 0) = b
         /\ \A k \in 0 .. N - 1 :
              SinUso(Tras(b, inicio, k), Pos(inicio, k)) = Tras(b, inicio, k + 1)
         /\ \A q \in Posiciones : Tras(b, inicio, N)[q] =
              [uso |-> FALSE, modificado |-> b[q].modificado]
<1>1. N \in Nat \ {0} /\ \A q \in Posiciones : Distancia(inicio, q) \in 0 .. N - 1
  BY Vuelta, MarcosAssumption DEF N
<1>2. \A k \in 0 .. N : Tras(b, inicio, k) \in Bits
  BY <1>1 DEF Tras, Bits
<1>3. Tras(b, inicio, 0) = b
  <2>1. \A q \in Posiciones : [uso |-> b[q].uso /\ ~(Distancia(inicio, q) < 0),
                               modificado |-> b[q].modificado] = b[q]
    BY <1>1 DEF Bits
  <2>2. b = [q \in Posiciones |-> b[q]]
    BY DEF Bits
  <2>. QED  BY <2>1, <2>2 DEF Tras
<1>4. ASSUME NEW k \in 0 .. N - 1
      PROVE  SinUso(Tras(b, inicio, k), Pos(inicio, k)) = Tras(b, inicio, k + 1)
  <2>. DEFINE b2 == SinUso(Tras(b, inicio, k), Pos(inicio, k))
  <2>1. \A q \in Posiciones : Distancia(inicio, q) = k <=> q = Pos(inicio, k)
    BY Vuelta
  <2>2. Pos(inicio, k) \in Posiciones
    BY <1>1, Vuelta
  <2>3. ASSUME NEW q \in Posiciones
        PROVE  b2[q] = [uso |-> b[q].uso /\ ~(Distancia(inicio, q) < k + 1),
                        modificado |-> b[q].modificado]
    <3>1. Distancia(inicio, q) < k + 1 <=> (Distancia(inicio, q) < k \/ q = Pos(inicio, k))
      BY <1>1, <2>1
    <3>2. CASE q = Pos(inicio, k)
      BY <2>2, <3>1, <3>2 DEF SinUso, Tras
    <3>3. CASE q # Pos(inicio, k)
      BY <2>2, <3>1, <3>3 DEF SinUso, Tras
    <3>. QED  BY <3>2, <3>3
  <2>4. b2 = [q \in Posiciones |-> b2[q]]
    BY DEF SinUso, Tras
  <2>. HIDE DEF b2
  <2>5. b2 = Tras(b, inicio, k + 1)
    BY <2>3, <2>4 DEF Tras
  <2>. QED  BY <2>5 DEF b2
<1>5. \A q \in Posiciones : Tras(b, inicio, N)[q] =
        [uso |-> FALSE, modificado |-> b[q].modificado]
  <2>. TAKE q \in Posiciones
  <2>1. (b[q].uso /\ ~(Distancia(inicio, q) < N)) = FALSE
    BY <1>1
  <2>. QED  BY <2>1 DEF Tras
<1>. QED  BY <1>2, <1>3, <1>4, <1>5

-----------------------------------------------------------------------------
(* clock_simple                                                            *)

\* The k-th stop of its lap.
LugarSimple(b, inicio, k) ==
  [bits |-> Tras(b, inicio, k), puntero |-> Pos(inicio, k), paso |-> 2]

LEMMA PasoEnBusquedas ==
  ASSUME NEW e \in Busquedas
  PROVE  /\ SinUso(e.bits, e.puntero) \in Bits /\ avanzar_puntero(e.puntero) \in Posiciones
         /\ e.bits \in Bits /\ e.puntero \in Posiciones /\ e.paso \in {1, 2}
         /\ [bits |-> SinUso(e.bits, e.puntero), puntero |-> avanzar_puntero(e.puntero),
             paso |-> 2] \in Busquedas
<1>1. e.bits \in Bits /\ e.puntero \in Posiciones /\ e.paso \in {1, 2}
  BY DEF Busquedas
<1>2. SinUso(e.bits, e.puntero) \in Bits
  BY <1>1 DEF SinUso, Bits
<1>3. avanzar_puntero(e.puntero) \in Posiciones
  BY <1>1, MarcosAssumption DEF avanzar_puntero, Posiciones
<1>. QED  BY <1>1, <1>2, <1>3 DEF Busquedas

\* clock_simple stops at the first page of its lap without a use bit, or, when
\* every page had one, back at the first.
LEMMA SimpleRecorre ==
  ASSUME NEW b \in Bits, NEW inicio \in Posiciones
  PROVE  \E n \in 0 .. N :
           /\ \A k \in 0 .. n - 1 : b[Pos(inicio, k)].uso
           /\ n < N => ~b[Pos(inicio, n)].uso
           /\ clock_simple(b, inicio) = Hallada(LugarSimple(b, inicio, n))
<1>. DEFINE S == Busquedas
            para == [e \in S |-> ~e.bits[e.puntero].uso]
            hallada == [e \in S |-> Hallada(e)]
            sigue == [e \in S |-> [bits |-> SinUso(e.bits, e.puntero),
                                   puntero |-> avanzar_puntero(e.puntero), paso |-> 2]]
            Es(f) == f = [e \in S |-> IF ~e.bits[e.puntero].uso THEN Hallada(e)
                                      ELSE f[[bits |-> SinUso(e.bits, e.puntero),
                                              puntero |-> avanzar_puntero(e.puntero), paso |-> 2]]]
            Es2(f) == EsBusca(S, para, hallada, sigue, f)
            F == CHOOSE f : Es(f)
            c == [k \in 0 .. N |-> LugarSimple(b, inicio, k)]
<1>1. \A f : Es(f) <=> Es2(f)
  BY DEF EsBusca
<1>2. sigue \in [S -> S]
  BY PasoEnBusquedas
<1>3. N \in Nat \ {0} /\ c \in [0 .. N -> S]
  BY MarcosAssumption, Vuelta, TrasPaso DEF N, LugarSimple, Busquedas
<1>4. \A k \in 0 .. N - 1 : c[k + 1] = sigue[c[k]]
  <2>. TAKE k \in 0 .. N - 1
  <2>1. k \in 0 .. N /\ k + 1 \in 0 .. N
    BY <1>3
  <2>2. /\ SinUso(Tras(b, inicio, k), Pos(inicio, k)) = Tras(b, inicio, k + 1)
        /\ avanzar_puntero(Pos(inicio, k)) = Pos(inicio, k + 1)
    BY Vuelta, TrasPaso
  <2>. QED  BY <1>3, <2>1, <2>2 DEF LugarSimple
<1>5. \A k \in 0 .. N : para[c[k]] <=> k = N \/ ~b[Pos(inicio, k)].uso
  <2>. TAKE k \in 0 .. N
  <2>1. c[k] \in S /\ c[k] = LugarSimple(b, inicio, k) /\ Pos(inicio, k) \in Posiciones
    BY <1>3, Vuelta
  <2>2. para[c[k]] <=> ~Tras(b, inicio, k)[Pos(inicio, k)].uso
    BY <2>1 DEF LugarSimple
  <2>3. CASE k = N
    <3>1. Tras(b, inicio, N)[Pos(inicio, k)] =
            [uso |-> FALSE, modificado |-> b[Pos(inicio, k)].modificado]
      BY <2>1, TrasPaso
    <3>. HIDE DEF c, para
    <3>. QED  BY <2>2, <2>3, <3>1
  <2>4. CASE k # N
    <3>1. Distancia(inicio, Pos(inicio, k)) = k /\ ~(k < k)
      BY <1>3, <2>4, Vuelta
    <3>. QED  BY <2>1, <2>2, <2>4, <3>1 DEF Tras
  <2>. QED  BY <2>3, <2>4
<1>6. Es(F)
  <2>1. \E f : Es2(f)
    <3>. HIDE DEF para, hallada, sigue, S
    <3>. QED  BY <1>2, ExisteBusca
  <2>2. \E f : Es(f)
    BY <1>1, <2>1
  <2>. HIDE DEF Es
  <2>. QED  BY <2>2
<1>7. clock_simple(b, inicio) = F[c[0]]
  <2>1. c[0] = [bits |-> b, puntero |-> inicio, paso |-> 2]
    BY <1>3, Vuelta, TrasPaso DEF LugarSimple
  <2>. HIDE DEF c
  <2>. QED  BY <2>1 DEF clock_simple
<1>8. PICK n \in 0 .. N : /\ para[c[n]] /\ \A i \in 0 .. n - 1 : ~para[c[i]]
                          /\ Camino(S, para, sigue, c[0], n, [i \in 0 .. n |-> c[i]])
  <2>1. para[c[N]] /\ \A i \in 0 .. N - 1 : ~para[c[i]] => c[i + 1] = sigue[c[i]]
    <3>1. N \in 0 .. N
      BY <1>3
    <3>. HIDE DEF c, para, sigue
    <3>. QED  BY <1>4, <1>5, <3>1
  <2>. HIDE DEF para, sigue, S, c
  <2>. QED  BY <1>2, <1>3, <2>1, PrimeraParada
<1>9. F[c[0]] = Hallada(LugarSimple(b, inicio, n))
  <2>1. Es2(F)
    BY <1>1, <1>6
  <2>. DEFINE d == [i \in 0 .. n |-> c[i]]
  <2>2. d[n] = c[n] /\ c[0] \in S /\ c[n] \in S
    BY <1>3
  <2>3. F[c[0]] = hallada[d[n]]
    <3>. HIDE DEF para, hallada, sigue, S, c, F, d
    <3>1. Camino(S, para, sigue, c[0], n, d)
      BY <1>8 DEF d
    <3>. QED  BY <1>2, <2>1, <2>2, <3>1, FinDelCamino
  <2>. HIDE DEF F, d
  <2>. QED  BY <2>2, <2>3
<1>10. \A i \in 0 .. n - 1 : b[Pos(inicio, i)].uso
  <2>1. \A i \in 0 .. n - 1 : i \in 0 .. N
    BY <1>3
  <2>. HIDE DEF c, para
  <2>. QED  BY <1>5, <1>8, <2>1
<1>. HIDE DEF F, c, para
<1>. QED  BY <1>5, <1>7, <1>8, <1>9, <1>10

-----------------------------------------------------------------------------
(* clock_modificado                                                        *)

\* The j-th stop of its laps: the first changes nothing, the second clears, and
\* two more at the most.
LugarModificado(b, inicio, j) ==
  IF j < N THEN [bits |-> b, puntero |-> Pos(inicio, j), paso |-> 1]
  ELSE IF j < N + N
       THEN [bits |-> Tras(b, inicio, j - N), puntero |-> Pos(inicio, j - N), paso |-> 2]
  ELSE IF j < N + N + N
       THEN [bits |-> Tras(b, inicio, N), puntero |-> Pos(inicio, j - N - N), paso |-> 1]
  ELSE [bits |-> Tras(b, inicio, N), puntero |-> inicio, paso |-> 2]

\* Where it is at each stop and which pages suit it there.
LEMMA LugaresModificado ==
  ASSUME NEW b \in Bits, NEW inicio \in Posiciones
  PROVE  /\ \A j \in 0 .. N + N + N : LugarModificado(b, inicio, j) \in Busquedas
         /\ \A k \in 0 .. N - 1 :
              /\ Sirve(LugarModificado(b, inicio, k)) <=>
                   ~b[Pos(inicio, k)].uso /\ ~b[Pos(inicio, k)].modificado
              /\ Sirve(LugarModificado(b, inicio, N + k)) <=>
                   ~b[Pos(inicio, k)].uso /\ b[Pos(inicio, k)].modificado
              /\ Sirve(LugarModificado(b, inicio, N + N + k)) <=>
                   ~b[Pos(inicio, k)].modificado
         /\ Sirve(LugarModificado(b, inicio, N + N + N)) <=> b[inicio].modificado
<1>1. N \in Nat \ {0} /\ \A k \in 0 .. N : Pos(inicio, k) \in Posiciones
  BY MarcosAssumption, Vuelta DEF N
<1>2. b \in Bits /\ \A k \in 0 .. N : Tras(b, inicio, k) \in Bits
  BY TrasPaso
<1>3. ASSUME NEW j \in 0 .. N + N + N PROVE LugarModificado(b, inicio, j) \in Busquedas
  <2>1. CASE j < N
    BY <1>1, <1>2, <2>1 DEF LugarModificado, Busquedas
  <2>2. CASE ~(j < N) /\ j < N + N
    <3>1. j - N \in 0 .. N
      BY <1>1, <2>2
    <3>. QED  BY <1>1, <1>2, <2>2, <3>1 DEF LugarModificado, Busquedas
  <2>3. CASE ~(j < N) /\ ~(j < N + N) /\ j < N + N + N
    <3>1. j - N - N \in 0 .. N /\ N \in 0 .. N
      BY <1>1, <2>3
    <3>. QED  BY <1>1, <1>2, <2>3, <3>1 DEF LugarModificado, Busquedas
  <2>4. CASE ~(j < N) /\ ~(j < N + N) /\ ~(j < N + N + N)
    <3>1. N \in 0 .. N
      BY <1>1
    <3>. QED  BY <1>2, <2>4, <3>1 DEF LugarModificado, Busquedas
  <2>. QED  BY <2>1, <2>2, <2>3, <2>4
<1>4. ASSUME NEW k \in 0 .. N - 1
      PROVE  /\ Sirve(LugarModificado(b, inicio, k)) <=>
                  ~b[Pos(inicio, k)].uso /\ ~b[Pos(inicio, k)].modificado
             /\ Sirve(LugarModificado(b, inicio, N + k)) <=>
                  ~b[Pos(inicio, k)].uso /\ b[Pos(inicio, k)].modificado
             /\ Sirve(LugarModificado(b, inicio, N + N + k)) <=> ~b[Pos(inicio, k)].modificado
  <2>. DEFINE p == Pos(inicio, k)
  <2>1. p \in Posiciones /\ Distancia(inicio, p) = k /\ ~(k < k) /\ b[p].modificado \in BOOLEAN
    <3>1. k \in 0 .. N /\ ~(k < k)
      BY <1>1
    <3>2. p \in Posiciones /\ Distancia(inicio, p) = k
      BY <1>1, <3>1, Vuelta
    <3>. QED  BY <3>1, <3>2 DEF Bits
  <2>2. LugarModificado(b, inicio, k) = [bits |-> b, puntero |-> p, paso |-> 1]
    BY <1>1 DEF LugarModificado
  <2>3. LugarModificado(b, inicio, N + k) =
          [bits |-> Tras(b, inicio, k), puntero |-> p, paso |-> 2]
    <3>1. ~(N + k < N) /\ N + k < N + N /\ (N + k) - N = k
      BY <1>1
    <3>. QED  BY <3>1 DEF LugarModificado
  <2>4. LugarModificado(b, inicio, N + N + k) =
          [bits |-> Tras(b, inicio, N), puntero |-> p, paso |-> 1]
    <3>1. /\ ~(N + N + k < N) /\ ~(N + N + k < N + N) /\ N + N + k < N + N + N
          /\ (N + N + k) - N - N = k
      BY <1>1
    <3>. QED  BY <3>1 DEF LugarModificado
  <2>5. Tras(b, inicio, k)[p] = [uso |-> b[p].uso, modificado |-> b[p].modificado]
    <3>1. (b[p].uso /\ ~(Distancia(inicio, p) < k)) = b[p].uso
      BY <2>1 DEF Bits
    <3>. QED  BY <2>1, <3>1 DEF Tras
  <2>6. Tras(b, inicio, N)[p] = [uso |-> FALSE, modificado |-> b[p].modificado]
    BY <2>1, TrasPaso
  <2>. HIDE DEF p
  <2>7. /\ Sirve(LugarModificado(b, inicio, k)) <=> ~b[p].uso /\ ~b[p].modificado
        /\ Sirve(LugarModificado(b, inicio, N + k)) <=> ~b[p].uso /\ b[p].modificado
        /\ Sirve(LugarModificado(b, inicio, N + N + k)) <=> ~b[p].modificado
    BY <2>1, <2>2, <2>3, <2>4, <2>5, <2>6 DEF Sirve
  <2>. QED  BY <2>7 DEF p
<1>5. Sirve(LugarModificado(b, inicio, N + N + N)) <=> b[inicio].modificado
  <2>1. LugarModificado(b, inicio, N + N + N) =
          [bits |-> Tras(b, inicio, N), puntero |-> inicio, paso |-> 2]
    BY <1>1 DEF LugarModificado
  <2>2. Tras(b, inicio, N)[inicio] = [uso |-> FALSE, modificado |-> b[inicio].modificado]
    BY TrasPaso
  <2>3. b[inicio].modificado \in BOOLEAN
    BY DEF Bits
  <2>. QED  BY <2>1, <2>2, <2>3 DEF Sirve
<1>. QED  BY <1>3, <1>4, <1>5

\* From a stop it goes to the next.
LEMMA PasaModificado ==
  ASSUME NEW b \in Bits, NEW inicio \in Posiciones, NEW j \in 0 .. N + N + N - 1
  PROVE  Pasa(LugarModificado(b, inicio, j), inicio) = LugarModificado(b, inicio, j + 1)
<1>1. N \in Nat \ {0} /\ Tras(b, inicio, 0) = b /\ Pos(inicio, 0) = inicio /\ Pos(inicio, N) = inicio
  BY MarcosAssumption, Vuelta, TrasPaso DEF N
<1>2. \A k \in 0 .. N - 1 :
        /\ avanzar_puntero(Pos(inicio, k)) = Pos(inicio, k + 1)
        /\ Pos(inicio, k + 1) = inicio <=> k + 1 = N
        /\ SinUso(Tras(b, inicio, k), Pos(inicio, k)) = Tras(b, inicio, k + 1)
  BY Vuelta, TrasPaso
<1>3. CASE j < N
  <2>1. LugarModificado(b, inicio, j) = [bits |-> b, puntero |-> Pos(inicio, j), paso |-> 1]
    BY <1>3 DEF LugarModificado
  <2>2. Pasa(LugarModificado(b, inicio, j), inicio) =
          [bits |-> b, puntero |-> Pos(inicio, j + 1), paso |-> IF j + 1 = N THEN 2 ELSE 1]
    <3>1. j \in 0 .. N - 1
      BY <1>1, <1>3
    <3>. QED  BY <1>2, <2>1, <3>1 DEF Pasa
  <2>3. CASE j + 1 < N
    BY <1>1, <1>3, <2>2, <2>3 DEF LugarModificado
  <2>4. CASE ~(j + 1 < N)
    <3>1. j + 1 = N /\ ~(j + 1 < N) /\ j + 1 < N + N /\ (j + 1) - N = 0
      BY <1>1, <1>3, <2>4
    <3>2. LugarModificado(b, inicio, j + 1) = [bits |-> b, puntero |-> inicio, paso |-> 2]
      BY <1>1, <3>1 DEF LugarModificado
    <3>. QED  BY <1>1, <2>2, <3>1, <3>2
  <2>. QED  BY <2>3, <2>4
<1>4. CASE ~(j < N) /\ j < N + N
  <2>. DEFINE k == j - N
  <2>1. k \in 0 .. N - 1 /\ (j + 1) - N = k + 1
    BY <1>1, <1>4
  <2>2. LugarModificado(b, inicio, j) =
          [bits |-> Tras(b, inicio, k), puntero |-> Pos(inicio, k), paso |-> 2]
    BY <1>4 DEF LugarModificado
  <2>3. Pasa(LugarModificado(b, inicio, j), inicio) =
          [bits |-> Tras(b, inicio, k + 1), puntero |-> Pos(inicio, k + 1),
           paso |-> IF k + 1 = N THEN 1 ELSE 2]
    <3>. HIDE DEF k
    <3>. QED  BY <1>2, <2>1, <2>2 DEF Pasa
  <2>4. CASE k + 1 < N
    <3>1. ~(j + 1 < N) /\ j + 1 < N + N /\ k + 1 # N
      BY <1>1, <1>4, <2>4
    <3>2. LugarModificado(b, inicio, j + 1) =
            [bits |-> Tras(b, inicio, k + 1), puntero |-> Pos(inicio, k + 1), paso |-> 2]
      BY <2>1, <3>1 DEF LugarModificado
    <3>. QED  BY <2>3, <3>1, <3>2
  <2>5. CASE ~(k + 1 < N)
    <3>1. /\ k + 1 = N /\ ~(j + 1 < N) /\ ~(j + 1 < N + N) /\ j + 1 < N + N + N
          /\ (j + 1) - N - N = 0
      BY <1>1, <1>4, <2>1, <2>5
    <3>2. LugarModificado(b, inicio, j + 1) =
            [bits |-> Tras(b, inicio, N), puntero |-> inicio, paso |-> 1]
      BY <1>1, <3>1 DEF LugarModificado
    <3>. HIDE DEF k
    <3>. QED  BY <1>1, <2>3, <3>1, <3>2
  <2>. QED  BY <2>4, <2>5
<1>5. CASE ~(j < N) /\ ~(j < N + N)
  <2>. DEFINE k == j - N - N
  <2>1. /\ k \in 0 .. N - 1 /\ (j + 1) - N - N = k + 1 /\ j < N + N + N
        /\ ~(j + 1 < N) /\ ~(j + 1 < N + N)
    BY <1>1, <1>5
  <2>2. LugarModificado(b, inicio, j) =
          [bits |-> Tras(b, inicio, N), puntero |-> Pos(inicio, k), paso |-> 1]
    BY <1>5, <2>1 DEF LugarModificado
  <2>3. Pasa(LugarModificado(b, inicio, j), inicio) =
          [bits |-> Tras(b, inicio, N), puntero |-> Pos(inicio, k + 1),
           paso |-> IF k + 1 = N THEN 2 ELSE 1]
    <3>. HIDE DEF k
    <3>. QED  BY <1>2, <2>1, <2>2 DEF Pasa
  <2>4. CASE k + 1 < N
    <3>1. j + 1 < N + N + N /\ k + 1 # N
      BY <1>1, <1>5, <2>1, <2>4
    <3>2. LugarModificado(b, inicio, j + 1) =
            [bits |-> Tras(b, inicio, N), puntero |-> Pos(inicio, k + 1), paso |-> 1]
      BY <2>1, <3>1 DEF LugarModificado
    <3>. QED  BY <2>3, <3>1, <3>2
  <2>5. CASE ~(k + 1 < N)
    <3>1. k + 1 = N /\ ~(j + 1 < N + N + N)
      BY <1>1, <1>5, <2>1, <2>5
    <3>2. LugarModificado(b, inicio, j + 1) =
            [bits |-> Tras(b, inicio, N), puntero |-> inicio, paso |-> 2]
      BY <2>1, <3>1 DEF LugarModificado
    <3>. HIDE DEF k
    <3>. QED  BY <1>1, <2>3, <3>1, <3>2
  <2>. QED  BY <2>4, <2>5
<1>. QED  BY <1>3, <1>4, <1>5

\* It stops at the first stop whose page suits it, in the fourth lap at the latest.
LEMMA ModificadoRecorre ==
  ASSUME NEW b \in Bits, NEW inicio \in Posiciones
  PROVE  \E n \in 0 .. N + N + N :
           /\ Sirve(LugarModificado(b, inicio, n))
           /\ \A i \in 0 .. n - 1 : ~Sirve(LugarModificado(b, inicio, i))
           /\ clock_modificado(b, inicio) = Hallada(LugarModificado(b, inicio, n))
<1>. DEFINE S == Busquedas
            para == [e \in S |-> Sirve(e)]
            hallada == [e \in S |-> Hallada(e)]
            sigue == [e \in S |-> Pasa(e, inicio)]
            Es(f) == f = [e \in S |-> IF Sirve(e) THEN Hallada(e) ELSE f[Pasa(e, inicio)]]
            Es2(f) == EsBusca(S, para, hallada, sigue, f)
            F == CHOOSE f : Es(f)
            fin == IF b[inicio].modificado THEN N + N + N ELSE N + N
            c == [j \in 0 .. fin |-> LugarModificado(b, inicio, j)]
<1>1. \A f : Es(f) <=> Es2(f)
  BY DEF EsBusca
<1>2. sigue \in [S -> S]
  <2>1. ASSUME NEW e \in S PROVE Pasa(e, inicio) \in S
    BY PasoEnBusquedas DEF Pasa, Busquedas
  <2>. QED  BY <2>1
<1>3. /\ N \in Nat \ {0} /\ fin \in Nat /\ 0 \in 0 .. fin /\ fin \in 0 .. fin
      /\ fin \in 0 .. N + N + N /\ \A j \in 0 .. fin : j \in 0 .. N + N + N
  BY MarcosAssumption DEF N
<1>4. c \in [0 .. fin -> S] /\ \A j \in 0 .. fin : para[c[j]] <=> Sirve(LugarModificado(b, inicio, j))
  <2>1. \A j \in 0 .. fin : LugarModificado(b, inicio, j) \in S
    BY <1>3, LugaresModificado
  <2>. QED  BY <2>1
<1>5. \A j \in 0 .. fin - 1 : c[j + 1] = sigue[c[j]]
  <2>. TAKE j \in 0 .. fin - 1
  <2>1. j \in 0 .. fin /\ j + 1 \in 0 .. fin /\ j \in 0 .. N + N + N - 1
    BY <1>3
  <2>2. c[j] = LugarModificado(b, inicio, j) /\ c[j] \in S /\ c[j + 1] = LugarModificado(b, inicio, j + 1)
    BY <1>4, <2>1
  <2>. QED  BY <2>1, <2>2, PasaModificado
<1>6. Sirve(LugarModificado(b, inicio, fin))
  <2>1. CASE b[inicio].modificado
    BY <2>1, LugaresModificado
  <2>2. CASE ~b[inicio].modificado
    <3>1. 0 \in 0 .. N - 1 /\ N + N + 0 = fin /\ Pos(inicio, 0) = inicio
      BY <1>3, <2>2, Vuelta
    <3>2. Sirve(LugarModificado(b, inicio, N + N + 0))
      BY <2>2, <3>1, LugaresModificado
    <3>. QED  BY <3>1, <3>2
  <2>. QED  BY <2>1, <2>2
<1>. HIDE DEF fin
<1>7. Es(F)
  <2>1. \E f : Es2(f)
    <3>. HIDE DEF para, hallada, sigue, S
    <3>. QED  BY <1>2, ExisteBusca
  <2>2. \E f : Es(f)
    BY <1>1, <2>1
  <2>. HIDE DEF Es
  <2>. QED  BY <2>2
<1>8. clock_modificado(b, inicio) = F[c[0]]
  <2>1. c[0] = [bits |-> b, puntero |-> inicio, paso |-> 1]
    BY <1>3, Vuelta DEF LugarModificado
  <2>. HIDE DEF c
  <2>. QED  BY <2>1 DEF clock_modificado
<1>9. PICK n \in 0 .. fin : /\ para[c[n]] /\ \A i \in 0 .. n - 1 : ~para[c[i]]
                            /\ Camino(S, para, sigue, c[0], n, [i \in 0 .. n |-> c[i]])
  <2>1. para[c[fin]]
    <3>. HIDE DEF para, c
    <3>. QED  BY <1>3, <1>4, <1>6
  <2>. HIDE DEF para, sigue, S, c
  <2>2. \A i \in 0 .. fin - 1 : ~para[c[i]] => c[i + 1] = sigue[c[i]]
    BY <1>5
  <2>3. c \in [0 .. fin -> S] /\ fin \in Nat
    BY <1>3, <1>4
  <2>. QED  BY <1>2, <2>1, <2>2, <2>3, PrimeraParada
<1>10. F[c[0]] = Hallada(LugarModificado(b, inicio, n))
  <2>1. Es2(F)
    BY <1>1, <1>7
  <2>. DEFINE d == [i \in 0 .. n |-> c[i]]
  <2>2. d[n] = c[n] /\ c[0] \in S /\ c[n] \in S /\ c[n] = LugarModificado(b, inicio, n)
    BY <1>3, <1>4
  <2>3. F[c[0]] = hallada[d[n]]
    <3>. HIDE DEF para, hallada, sigue, S, c, F, d
    <3>1. Camino(S, para, sigue, c[0], n, d)
      BY <1>9 DEF d
    <3>. QED  BY <1>2, <1>3, <2>1, <2>2, <3>1, FinDelCamino
  <2>. HIDE DEF F, d
  <2>. QED  BY <2>2, <2>3
<1>11. /\ n \in 0 .. N + N + N /\ Sirve(LugarModificado(b, inicio, n))
       /\ \A i \in 0 .. n - 1 : ~Sirve(LugarModificado(b, inicio, i))
  <2>1. \A i \in 0 .. n - 1 : i \in 0 .. fin
    BY <1>3
  <2>. HIDE DEF c, para
  <2>. QED  BY <1>3, <1>4, <1>9, <2>1
<1>. HIDE DEF F, c
<1>. QED  BY <1>8, <1>10, <1>11

-----------------------------------------------------------------------------
(* What they choose and clear                                              *)

\* Whatever is chosen, the victim and the next pointer are positions, and the
\* bits left are bits.
LEMMA ElegidaPosicion ==
  ASSUME NEW b \in Bits, NEW inicio \in Posiciones,
         NEW r \in {clock_simple(b, inicio), clock_modificado(b, inicio)}
  PROVE  r.victima \in Posiciones /\ r.puntero \in Posiciones /\ r.bits \in Bits
<1>1. \E e \in Busquedas : r = Hallada(e)
  <2>1. CASE r = clock_simple(b, inicio)
    <3>1. PICK n \in 0 .. N : r = Hallada(LugarSimple(b, inicio, n))
      BY <2>1, SimpleRecorre
    <3>2. LugarSimple(b, inicio, n) \in Busquedas
      BY TrasPaso, Vuelta DEF LugarSimple, Busquedas
    <3>. QED  BY <3>1, <3>2
  <2>2. CASE r = clock_modificado(b, inicio)
    <3>1. PICK n \in 0 .. N + N + N : r = Hallada(LugarModificado(b, inicio, n))
      BY <2>2, ModificadoRecorre
    <3>. QED  BY <3>1, LugaresModificado
  <2>. QED  BY <2>1, <2>2
<1>2. PICK e \in Busquedas : r = Hallada(e)
  BY <1>1
<1>3. e.puntero \in Posiciones /\ avanzar_puntero(e.puntero) \in Posiciones /\ e.bits \in Bits
  BY PasoEnBusquedas
<1>. QED  BY <1>2, <1>3 DEF Hallada

\* The bits left, by the set of the pages that lost their use bit.
LEMMA TrasSin ==
  ASSUME NEW b, NEW inicio, NEW k, NEW D,
         \A p \in Posiciones : Distancia(inicio, p) < k <=> p \in D
  PROVE  Tras(b, inicio, k) =
           [p \in Posiciones |-> [uso |-> b[p].uso /\ p \notin D, modificado |-> b[p].modificado]]
BY DEF Tras

\* CLOCK: the victim is the one the definition without a pointer names, and the
\* pages before it lose their use bit.
LEMMA SimpleCorrecto ==
  ASSUME NEW b \in Bits, NEW inicio \in Posiciones
  PROVE  /\ clock_simple(b, inicio).victima = VictimaClock(b, inicio)
         /\ clock_simple(b, inicio).bits = [p \in Posiciones |->
              [uso |-> b[p].uso /\ p \notin Despojadas(b, inicio, "CLOCK"),
               modificado |-> b[p].modificado]]
<1>. DEFINE libres == {p \in Posiciones : ~b[p].uso}
            D == Despojadas(b, inicio, "CLOCK")
<1>0. /\ N \in Nat \ {0} /\ \A p \in Posiciones : Distancia(inicio, p) \in 0 .. N - 1
      /\ \A p \in Posiciones : Pos(inicio, Distancia(inicio, p)) = p
      /\ \A k \in 0 .. N - 1 : Distancia(inicio, Pos(inicio, k)) = k
      /\ \A k \in 0 .. N : Pos(inicio, k) \in Posiciones
      /\ Pos(inicio, N) = inicio
  BY Vuelta, MarcosAssumption DEF N
<1>1. PICK n \in 0 .. N : /\ \A k \in 0 .. n - 1 : b[Pos(inicio, k)].uso
                          /\ n < N => ~b[Pos(inicio, n)].uso
                          /\ clock_simple(b, inicio) = Hallada(LugarSimple(b, inicio, n))
  BY SimpleRecorre
<1>2. /\ clock_simple(b, inicio).victima = Pos(inicio, n)
      /\ clock_simple(b, inicio).bits = Tras(b, inicio, n)
  BY <1>1 DEF Hallada, LugarSimple
<1>3. \A p \in Posiciones : Distancia(inicio, p) < n => b[p].uso
  <2>. TAKE p \in Posiciones
  <2>. HAVE Distancia(inicio, p) < n
  <2>1. Distancia(inicio, p) \in 0 .. n - 1
    BY <1>0
  <2>. QED  BY <1>0, <1>1, <2>1
<1>4. CASE n = N
  <2>1. libres = {}
    BY <1>0, <1>3, <1>4
  <2>2. VictimaClock(b, inicio) = inicio /\ D = Posiciones
    BY <2>1 DEF VictimaClock, Despojadas
  <2>3. \A p \in Posiciones : Distancia(inicio, p) < n <=> p \in D
    BY <1>0, <1>4, <2>2
  <2>. HIDE DEF D
  <2>4. Tras(b, inicio, n) =
         [p \in Posiciones |-> [uso |-> b[p].uso /\ p \notin D, modificado |-> b[p].modificado]]
    BY <2>3, TrasSin
  <2>. QED  BY <1>0, <1>2, <1>4, <2>2, <2>4 DEF D
<1>5. CASE n < N
  <2>1. n \in 0 .. N - 1 /\ Pos(inicio, n) \in libres /\ Distancia(inicio, Pos(inicio, n)) = n
    BY <1>0, <1>1, <1>5
  <2>2. \A q \in libres : Distancia(inicio, Pos(inicio, n)) <= Distancia(inicio, q)
    BY <1>0, <1>3, <2>1
  <2>3. Primera(inicio, libres) = Pos(inicio, n)
    <3>1. libres \subseteq Posiciones
      OBVIOUS
    <3>. HIDE DEF libres
    <3>. QED  BY <2>1, <2>2, <3>1, PrimeraUnica
  <2>4. VictimaClock(b, inicio) = Pos(inicio, n)
    BY <2>1, <2>3 DEF VictimaClock
  <2>5. D = {p \in Posiciones : Distancia(inicio, p) < n}
    BY <2>1, <2>3 DEF Despojadas
  <2>6. \A p \in Posiciones : Distancia(inicio, p) < n <=> p \in D
    BY <2>5
  <2>. HIDE DEF D
  <2>7. Tras(b, inicio, n) =
         [p \in Posiciones |-> [uso |-> b[p].uso /\ p \notin D, modificado |-> b[p].modificado]]
    BY <2>6, TrasSin
  <2>. QED  BY <1>2, <2>4, <2>7 DEF D
<1>. QED  BY <1>0, <1>4, <1>5

\* CLOCK-M, likewise.
LEMMA ModificadoCorrecto ==
  ASSUME NEW b \in Bits, NEW inicio \in Posiciones
  PROVE  /\ clock_modificado(b, inicio).victima = VictimaClockM(b, inicio)
         /\ clock_modificado(b, inicio).bits = [p \in Posiciones |->
              [uso |-> b[p].uso /\ p \notin Despojadas(b, inicio, "CLOCK-M"),
               modificado |-> b[p].modificado]]
<1>. DEFINE clase(u, m) == {p \in Posiciones : b[p].uso = u /\ b[p].modificado = m}
            libres == {p \in Posiciones : ~b[p].uso}
            D == Despojadas(b, inicio, "CLOCK-M")
            L(j) == LugarModificado(b, inicio, j)
<1>0. /\ N \in Nat \ {0} /\ \A p \in Posiciones : Distancia(inicio, p) \in 0 .. N - 1
      /\ \A p \in Posiciones : Pos(inicio, Distancia(inicio, p)) = p
      /\ \A k \in 0 .. N - 1 : Distancia(inicio, Pos(inicio, k)) = k
      /\ \A k \in 0 .. N : Pos(inicio, k) \in Posiciones
      /\ Pos(inicio, 0) = inicio
  BY Vuelta, MarcosAssumption DEF N
<1>p. \A p \in Posiciones : b[p].uso \in BOOLEAN /\ b[p].modificado \in BOOLEAN
  BY DEF Bits
<1>1. PICK n \in 0 .. N + N + N : /\ Sirve(L(n)) /\ \A i \in 0 .. n - 1 : ~Sirve(L(i))
                                  /\ clock_modificado(b, inicio) = Hallada(L(n))
  BY ModificadoRecorre
<1>2. /\ clock_modificado(b, inicio).victima = L(n).puntero
      /\ clock_modificado(b, inicio).bits = L(n).bits
  BY <1>1 DEF Hallada
<1>3. \A p \in Posiciones :
        /\ Sirve(L(Distancia(inicio, p))) <=> p \in clase(FALSE, FALSE)
        /\ Sirve(L(N + Distancia(inicio, p))) <=> p \in clase(FALSE, TRUE)
        /\ Sirve(L(N + N + Distancia(inicio, p))) <=> ~b[p].modificado
  <2>. TAKE p \in Posiciones
  <2>1. Distancia(inicio, p) \in 0 .. N - 1 /\ Pos(inicio, Distancia(inicio, p)) = p
    BY <1>0
  <2>. HIDE DEF L
  <2>2. /\ Sirve(L(Distancia(inicio, p))) <=> ~b[p].uso /\ ~b[p].modificado
        /\ Sirve(L(N + Distancia(inicio, p))) <=> ~b[p].uso /\ b[p].modificado
        /\ Sirve(L(N + N + Distancia(inicio, p))) <=> ~b[p].modificado
    BY <2>1, LugaresModificado DEF L
  <2>. QED  BY <1>p, <2>2
<1>. HIDE DEF L
\* Of a class the lap visits, nobody is nearer than where it stops.
<1>4. \A p \in Posiciones :
        /\ p \in clase(FALSE, FALSE) => n <= Distancia(inicio, p)
        /\ p \in clase(FALSE, TRUE) => n <= N + Distancia(inicio, p)
        /\ ~b[p].modificado => n <= N + N + Distancia(inicio, p)
  <2>1. \A i \in Nat : Sirve(L(i)) => n <= i
    BY <1>0, <1>1
  <2>. HIDE DEF clase
  <2>. TAKE p \in Posiciones
  <2>2. /\ Distancia(inicio, p) \in Nat /\ N + Distancia(inicio, p) \in Nat
        /\ N + N + Distancia(inicio, p) \in Nat
    BY <1>0
  <2>. QED  BY <1>3, <2>1, <2>2
<1>5. CASE n < N
  <2>. DEFINE v == Pos(inicio, n)
  <2>1. n \in 0 .. N - 1 /\ v \in Posiciones /\ Distancia(inicio, v) = n
    BY <1>0, <1>5
  <2>2. v \in clase(FALSE, FALSE)
    <3>. HIDE DEF clase, v
    <3>. QED  BY <1>1, <1>3, <2>1
  <2>. DEFINE T == clase(FALSE, FALSE)
  <2>3. Primera(inicio, T) = v
    <3>1. T \subseteq Posiciones /\ v \in T /\ \A q \in T : Distancia(inicio, v) <= Distancia(inicio, q)
      BY <1>4, <2>1, <2>2
    <3>. HIDE DEF T, v
    <3>. QED  BY <3>1, PrimeraUnica
  <2>4. VictimaClockM(b, inicio) = v
    BY <2>2, <2>3 DEF VictimaClockM
  <2>5. D = {}
    <3>1. v \in libres /\ ~b[v].modificado
      BY <2>2
    <3>. HIDE DEF v
    <3>. QED  BY <3>1 DEF Despojadas
  <2>6. L(n) = [bits |-> b, puntero |-> v, paso |-> 1]
    BY <1>5 DEF L, LugarModificado
  <2>7. b = [p \in Posiciones |-> [uso |-> b[p].uso /\ p \notin D, modificado |-> b[p].modificado]]
    <3>1. \A p \in Posiciones :
            b[p] = [uso |-> b[p].uso /\ p \notin D, modificado |-> b[p].modificado]
      BY <1>p, <2>5 DEF Bits
    <3>2. b = [p \in Posiciones |-> b[p]]
      BY DEF Bits
    <3>. HIDE DEF D
    <3>. QED  BY <3>1, <3>2
  <2>. QED  BY <1>2, <2>4, <2>6, <2>7
<1>6. CASE ~(n < N)
  <2>1. clase(FALSE, FALSE) = {}
    <3>. HIDE DEF clase
    <3>1. \A p \in Posiciones : p \notin clase(FALSE, FALSE)
      <4>. TAKE p \in Posiciones
      <4>1. Distancia(inicio, p) \in 0 .. N - 1
        BY <1>0
      <4>2. ~(n <= Distancia(inicio, p))
        BY <1>0, <1>6, <4>1
      <4>. QED  BY <1>4, <4>2
    <3>. QED  BY <3>1 DEF clase
  <2>2. \A p \in libres : b[p].modificado
    BY <1>p, <2>1
  <2>3. CASE n < N + N
    <3>. DEFINE k == n - N
                v == Pos(inicio, k)
    <3>1. /\ k \in 0 .. N - 1 /\ n = N + k /\ v \in Posiciones /\ Distancia(inicio, v) = k
      BY <1>0, <1>6, <2>3
    <3>2. v \in clase(FALSE, TRUE)
      <4>. HIDE DEF clase, v, k
      <4>. QED  BY <1>1, <1>3, <3>1
    <3>. DEFINE T == clase(FALSE, TRUE)
    <3>3. T = libres
      BY <1>p, <2>2
    <3>4. Primera(inicio, T) = v
      <4>1. \A q \in T : k <= Distancia(inicio, q)
        <5>. TAKE q \in T
        <5>1. n <= N + Distancia(inicio, q) /\ Distancia(inicio, q) \in Int
          BY <1>0, <1>4
        <5>. QED  BY <1>0, <3>1, <5>1
      <4>2. T \subseteq Posiciones /\ v \in T
        BY <3>2
      <4>. HIDE DEF T, v, k
      <4>. QED  BY <3>1, <4>1, <4>2, PrimeraUnica
    <3>5. VictimaClockM(b, inicio) = v
      BY <2>1, <3>2, <3>4 DEF VictimaClockM
    <3>6. D = {p \in Posiciones : Distancia(inicio, p) < k}
      <4>1. libres # {} /\ ~\E p \in libres : ~b[p].modificado
        BY <2>2, <3>2
      <4>2. Primera(inicio, libres) = v
        BY <3>3, <3>4
      <4>. HIDE DEF v, k, clase
      <4>. QED  BY <3>1, <4>1, <4>2 DEF Despojadas
    <3>7. L(n) = [bits |-> Tras(b, inicio, k), puntero |-> v, paso |-> 2]
      BY <1>6, <2>3 DEF L, LugarModificado
    <3>8. \A p \in Posiciones : Distancia(inicio, p) < k <=> p \in D
      BY <3>6
    <3>. HIDE DEF D, v, k
    <3>9. Tras(b, inicio, k) =
           [p \in Posiciones |-> [uso |-> b[p].uso /\ p \notin D, modificado |-> b[p].modificado]]
      BY <3>8, TrasSin
    <3>. QED  BY <1>2, <3>5, <3>7, <3>9 DEF D
  <2>4. CASE ~(n < N + N)
    <3>1. libres = {} /\ clase(FALSE, TRUE) = {}
      <4>. HIDE DEF clase
      <4>1. \A p \in Posiciones : p \notin clase(FALSE, TRUE)
        <5>. TAKE p \in Posiciones
        <5>1. Distancia(inicio, p) \in 0 .. N - 1
          BY <1>0
        <5>2. ~(n <= N + Distancia(inicio, p))
          BY <1>0, <2>4, <5>1
        <5>. QED  BY <1>4, <5>2
      <4>2. \A p \in Posiciones : b[p].uso
        BY <1>p, <2>1, <4>1 DEF clase
      <4>. QED  BY <4>1, <4>2 DEF clase
    <3>2. D = Posiciones
      BY <3>1 DEF Despojadas
    <3>3. Tras(b, inicio, N) =
            [p \in Posiciones |-> [uso |-> b[p].uso /\ p \notin D, modificado |-> b[p].modificado]]
      <4>1. \A p \in Posiciones : Distancia(inicio, p) < N <=> p \in D
        BY <1>0, <3>2
      <4>. HIDE DEF D
      <4>. QED  BY <4>1 DEF Tras
    <3>. DEFINE T == clase(TRUE, FALSE)
    <3>4. \A p \in Posiciones : p \in T <=> ~b[p].modificado
      BY <1>p, <3>1
    <3>5. CASE n < N + N + N
      <4>. DEFINE k == n - N - N
                  v == Pos(inicio, k)
      <4>1. k \in 0 .. N - 1 /\ n = N + N + k /\ v \in Posiciones /\ Distancia(inicio, v) = k
        BY <1>0, <2>4, <3>5
      <4>2. v \in T
        <5>. HIDE DEF clase, v, k, T
        <5>. QED  BY <1>1, <1>3, <3>4, <4>1
      <4>3. Primera(inicio, T) = v
        <5>1. \A q \in T : k <= Distancia(inicio, q)
          <6>. TAKE q \in T
          <6>1. n <= N + N + Distancia(inicio, q) /\ Distancia(inicio, q) \in Int
            BY <1>0, <1>4, <3>4
          <6>. QED  BY <1>0, <4>1, <6>1
        <5>2. T \subseteq Posiciones
          OBVIOUS
        <5>. HIDE DEF T, v, k
        <5>. QED  BY <4>1, <4>2, <5>1, <5>2, PrimeraUnica
      <4>4. VictimaClockM(b, inicio) = v
        BY <2>1, <3>1, <4>2, <4>3 DEF VictimaClockM
      <4>5. L(n) = [bits |-> Tras(b, inicio, N), puntero |-> v, paso |-> 1]
        BY <1>6, <2>4, <3>5 DEF L, LugarModificado
      <4>. HIDE DEF v, k
      <4>. QED  BY <1>2, <3>3, <4>4, <4>5
    <3>6. CASE ~(n < N + N + N)
      <4>1. T = {}
        <5>. HIDE DEF clase, T
        <5>1. \A p \in Posiciones : p \notin T
          <6>. TAKE p \in Posiciones
          <6>1. Distancia(inicio, p) \in 0 .. N - 1
            BY <1>0
          <6>2. ~(n <= N + N + Distancia(inicio, p))
            BY <1>0, <3>6, <6>1
          <6>. QED  BY <1>4, <3>4, <6>2
        <5>. QED  BY <5>1 DEF T, clase
      <4>2. VictimaClockM(b, inicio) = inicio
        BY <2>1, <3>1, <4>1 DEF VictimaClockM
      <4>3. L(n) = [bits |-> Tras(b, inicio, N), puntero |-> inicio, paso |-> 2]
        BY <1>6, <2>4, <3>6 DEF L, LugarModificado
      <4>. QED  BY <1>2, <3>3, <4>2, <4>3
    <3>. QED  BY <3>5, <3>6
  <2>. QED  BY <2>3, <2>4
<1>. QED  BY <1>5, <1>6

-----------------------------------------------------------------------------
(* Theorems                                                                *)

TipoReloj == bits \in Bits /\ puntero \in Posiciones /\ algoritmo \in {"CLOCK", "CLOCK-M"}

LEMMA TipoRelojSiempre == SpecReloj => []TipoReloj
<1>1. InitReloj => TipoReloj
  BY MarcosAssumption DEF InitReloj, TipoReloj, Bits, Posiciones
<1>2. TipoReloj /\ [NextReloj]_mcVars => TipoReloj'
  <2>. SUFFICES ASSUME TipoReloj, [NextReloj]_mcVars PROVE TipoReloj'
    OBVIOUS
  <2>1. ASSUME NEW p \in Posiciones, Lee(p), UNCHANGED algoritmo PROVE TipoReloj'
    BY <2>1 DEF Lee, TipoReloj, Bits
  <2>2. ASSUME NEW p \in Posiciones, Escribe(p), UNCHANGED algoritmo PROVE TipoReloj'
    BY <2>2 DEF Escribe, TipoReloj, Bits
  <2>3. ASSUME Reemplaza, UNCHANGED algoritmo PROVE TipoReloj'
    <3>1. /\ Elegida.victima \in Posiciones /\ Elegida.puntero \in Posiciones
          /\ Elegida.bits \in Bits
      BY ElegidaPosicion DEF TipoReloj, Elegida
    <3>. QED  BY <2>3, <3>1 DEF Reemplaza, TipoReloj, Bits
  <2>4. CASE UNCHANGED mcVars
    BY <2>4 DEF mcVars, TipoReloj
  <2>. QED  BY <2>1, <2>2, <2>3, <2>4 DEF NextReloj
<1>. QED  BY <1>1, <1>2, PTL DEF SpecReloj

\* For any number of frames, whatever accesses and replacements came before:
\* the pointer that clock_simple and clock_modificado move stops at the page the
\* definition by classes and distances names...
THEOREM VictimaCorrectaSiempre == SpecReloj => []VictimaCorrecta
<1>1. TipoReloj => VictimaCorrecta
  BY SimpleCorrecto, ModificadoCorrecto DEF TipoReloj, VictimaCorrecta, Elegida
<1>. QED  BY <1>1, TipoRelojSiempre, PTL

\* ... and takes the use bit from exactly the pages it must pass over.
THEOREM SegundaOportunidadSiempre == SpecReloj => []SegundaOportunidad
<1>1. TipoReloj => SegundaOportunidad
  BY SimpleCorrecto, ModificadoCorrecto DEF TipoReloj, SegundaOportunidad, Elegida
<1>. QED  BY <1>1, TipoRelojSiempre, PTL
=============================================================================
