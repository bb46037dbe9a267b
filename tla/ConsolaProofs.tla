---------------------------- MODULE ConsolaProofs ----------------------------
(***************************************************************************)
(* What Consola proves of every file, every size and every way of cutting  *)
(* a message.                                                              *)
(*                                                                         *)
(* The operators that recur (Bytes, Nro, FlattenSeq) are read through the  *)
(* function their definition names: it exists (Iterada), so it is the one  *)
(* CHOOSE takes, and what it gives follows by induction over a set (Hasta).*)
(* A message is read back field by field from where each field is (Trozo). *)
(* The parser's invariant is Analiza: it is at the beginning of a line and *)
(* all before it was correct, or it has met, or is about to meet, a word   *)
(* that exits.  The connection's is Senda: arrived and in flight is what   *)
(* the thread has not received of the console's message.                   *)
(***************************************************************************)
EXTENDS Consola, Listas, NaturalsInduction, WellFoundedInduction

-----------------------------------------------------------------------------
(* The thread's end                                                        *)

\* The process is somewhere past procesar_socket: listed, at the CPU, on one of
\* its two connections, or answered for.
Pasado ==
  \/ listado # {} \/ devuelto # {} \/ dispatch # << >> \/ cpu # {} \/ retorno # << >>
  \/ enviado # {} \/ respuesta

\* What the code means to keep: the thread of a console that has its process
\* listed has returned, so that it does not meet the close of the connection; and
\* while the kernel is up a console ends by itself only after its answer.
Retirado ==
  /\ Pasado => hilo = "return"
  /\ caido = "no" /\ consola = "exito" => respuesta
  /\ caido = "propia" => consola = "muerta"

LEMMA RetiradoInicial == Init => Retirado
BY DEF Init, Retirado, Pasado

-----------------------------------------------------------------------------
(* One lemma per process that takes steps                                  *)

\* The console's own steps leave the kernel's state alone, and take it to "exito"
\* only with an answer or a kernel gone.
LEMMA RetiradoConsola ==
  ASSUME Retirado,
         ParserItera \/ ConsolaEnvia \/ ConsolaNoConecta \/ ConsolaRecibe
           \/ ConsolaMuere \/ Entrega
  PROVE  Retirado'
<1> USE DEF Retirado, Pasado, kernelVars, cpuVars, finVars
<1>1. UNCHANGED <<kernelVars, cpuVars, finVars>>
  BY DEF ParserItera, ConsolaEnvia, ConsolaNoConecta, ConsolaRecibe, ConsolaMuere, Entrega
<1>2. CASE ParserItera
  BY <1>1, <1>2 DEF ParserItera
<1>3. CASE ConsolaEnvia \/ ConsolaNoConecta \/ ConsolaMuere
  BY <1>1, <1>3 DEF ConsolaEnvia, ConsolaNoConecta, ConsolaMuere
<1>4. CASE ConsolaRecibe
  BY <1>1, <1>4 DEF ConsolaRecibe
<1>5. CASE Entrega
  BY <1>1, <1>5 DEF Entrega
<1> QED BY <1>2, <1>3, <1>4, <1>5

\* The thread lists the process only as it returns, and from there takes no step;
\* it meets a close in its loop, where nothing has been listed, so that the console
\* has not ended by itself.
LEMMA RetiradoSocket ==
  ASSUME Retirado, procesar_socket
  PROVE  Retirado'
<1> USE DEF Retirado, Pasado
<1>1. CASE SocketCop
  BY <1>1 DEF SocketCop, Recv, cpuVars
<1>2. CASE SocketSize
  BY <1>2 DEF SocketSize, Recv, cpuVars
<1>3. CASE SocketCarga
  BY <1>3 DEF SocketCarga, Recv, cpuVars
<1>4. CASE SocketCierre
  BY <1>4 DEF SocketCierre, cpuVars
<1> QED BY <1>1, <1>2, <1>3, <1>4 DEF procesar_socket

\* The PCB goes on only from where it was, and the answer comes from a PCB.
LEMMA RetiradoViaje ==
  ASSUME Retirado,
         OtraConsolaCierra \/ KernelDespacha \/ CpuRecibe \/ CpuCorte \/ CpuDevuelve
           \/ KernelTermina \/ KernelVuelve \/ KernelCorte
  PROVE  Retirado'
<1> USE DEF Retirado, Pasado, kernelVars, cpuVars, finVars
<1>1. CASE OtraConsolaCierra
  BY <1>1 DEF OtraConsolaCierra
<1>2. CASE KernelDespacha
  BY <1>2 DEF KernelDespacha
<1>3. CASE CpuRecibe \/ CpuCorte
  BY <1>3 DEF CpuRecibe, CpuCorte
<1>4. CASE CpuDevuelve
  BY <1>4 DEF CpuDevuelve
<1>5. CASE KernelTermina \/ KernelVuelve \/ KernelCorte
  BY <1>5 DEF KernelTermina, KernelVuelve, KernelCorte
<1> QED BY <1>1, <1>2, <1>3, <1>4, <1>5

LEMMA RetiradoSigue == Retirado /\ [Next]_vars => Retirado'
<1> SUFFICES ASSUME Retirado, [Next]_vars PROVE Retirado'
  OBVIOUS
<1>1. CASE UNCHANGED vars
  BY <1>1 DEF vars, Retirado, Pasado, kernelVars, cpuVars, finVars
<1>2. CASE Next
  BY <1>2, RetiradoConsola, RetiradoSocket, RetiradoViaje DEF Next
<1> QED BY <1>1, <1>2

\* A console's thread takes the kernel down (exit(-1) on a recv of 0 bytes) only if
\* its console was killed while it waited, whatever it sent, in whatever pieces it
\* arrived, and however the rest of the kernel ended.
THEOREM SoloMuertaTumbaCorrecta == Spec => []SoloMuertaTumba
<1>1. Retirado => SoloMuertaTumba
  BY DEF Retirado, SoloMuertaTumba
<1> QED BY RetiradoInicial, RetiradoSigue, <1>1, PTL DEF Spec

-----------------------------------------------------------------------------
(* Induction over a set, and functions given by their next value            *)

\* A set of naturals has a least element.
LEMMA Minimo ==
  ASSUME NEW T, T # {}, T \subseteq Nat
  PROVE  \E n \in T : \A m \in T : n <= m
<1>1. PICK n \in T : \A m \in T : ~(<<m, n>> \in OpToRel(<, Nat))
  BY NatLessThanWellFounded, WFMin
<1>2. \A m \in T : <<m, n>> \in Nat \X Nat
  OBVIOUS
<1>3. \A m \in T : ~(m < n)
  BY <1>1, <1>2 DEF OpToRel
<1>. QED  BY <1>3

\* Induction up to n, of membership in a set.
LEMMA Hasta ==
  ASSUME NEW n \in Nat, NEW T, 0 \in T, \A i \in 1 .. n : i - 1 \in T => i \in T
  PROVE  \A i \in 0 .. n : i \in T
<1>. DEFINE F == {i \in 0 .. n : i \notin T}
<1>1. SUFFICES ASSUME F # {} PROVE FALSE
  OBVIOUS
<1>2. PICK k \in F : \A m \in F : k <= m
  <2>1. F \subseteq Nat
    OBVIOUS
  <2>. QED  BY <1>1, <2>1, Minimo
<1>3. k \in 1 .. n /\ k - 1 \in 0 .. n /\ ~(k <= k - 1)
  BY <1>2
<1>4. k - 1 \notin F
  BY <1>2, <1>3
<1>. QED  BY <1>2, <1>3, <1>4

\* A function given by its first value and each next one exists.
Itera(f, n, S, e, paso) ==
  f \in [0 .. n -> S] /\ f[0] = e /\ \A i \in 1 .. n : f[i] = paso[i][f[i - 1]]

LEMMA Iterada ==
  ASSUME NEW S, NEW e \in S, NEW n \in Nat, NEW paso,
         \A i \in 1 .. n : paso[i] \in [S -> S]
  PROVE  \E f : Itera(f, n, S, e, paso)
<1>. DEFINE T == {k \in 0 .. n : \E f : Itera(f, k, S, e, paso)}
<1>1. 0 \in T
  <2>. DEFINE f == [i \in 0 .. 0 |-> e]
  <2>1. Itera(f, 0, S, e, paso)
    BY DEF Itera
  <2>. QED  BY <2>1
<1>2. ASSUME NEW k \in 1 .. n, k - 1 \in T PROVE k \in T
  <2>1. PICK f : Itera(f, k - 1, S, e, paso)
    BY <1>2
  <2>2. f \in [0 .. k - 1 -> S] /\ f[0] = e /\ \A i \in 1 .. k - 1 : f[i] = paso[i][f[i - 1]]
    BY <2>1 DEF Itera
  <2>. DEFINE g == [i \in 0 .. k |-> IF i = k THEN paso[k][f[k - 1]] ELSE f[i]]
  <2>3. \A i \in 0 .. k : i # k => i \in 0 .. k - 1
    OBVIOUS
  <2>4. k - 1 \in 0 .. k - 1 /\ f[k - 1] \in S
    BY <2>2
  <2>5. paso[k][f[k - 1]] \in S
    BY <2>4
  <2>6. g \in [0 .. k -> S] /\ g[0] = e
    BY <2>2, <2>3, <2>5
  <2>7. ASSUME NEW i \in 1 .. k PROVE g[i] = paso[i][g[i - 1]]
    <3>1. i \in 0 .. k /\ i - 1 \in 0 .. k /\ i - 1 # k
      OBVIOUS
    <3>2. g[i - 1] = f[i - 1]
      BY <3>1
    <3>3. i # k => i \in 1 .. k - 1
      OBVIOUS
    <3>. QED  BY <2>2, <3>1, <3>2, <3>3
  <2>8. Itera(g, k, S, e, paso)
    BY <2>6, <2>7 DEF Itera
  <2>. QED  BY <2>8
<1>. HIDE DEF T
<1>3. \A i \in 0 .. n : i \in T
  BY <1>1, <1>2, Hasta
<1>. QED  BY <1>3 DEF T

-----------------------------------------------------------------------------
(* Numbers in bytes                                                        *)

\* Bytes' q
BytesSegun(x, n, q) ==
  /\ q \in [0 .. n -> Int] /\ q[0] = x /\ \A i \in 1 .. n : q[i] = q[i - 1] \div 256
  /\ Bytes(x, n) = [i \in 1 .. n |-> q[i - 1] % 256]

\* The function of Bytes exists.
LEMMA BytesPasos ==
  ASSUME NEW x \in Int, NEW n \in Nat
  PROVE  \E q : BytesSegun(x, n, q)
<1>. DEFINE paso == [i \in 1 .. n |-> [a \in Int |-> a \div 256]]
            E(q) == q = [i \in 0 .. n |-> IF i = 0 THEN x ELSE q[i - 1] \div 256]
<1>1. \A i \in 1 .. n : paso[i] \in [Int -> Int] /\ \A a \in Int : paso[i][a] = a \div 256
  OBVIOUS
<1>. HIDE DEF paso
<1>2. PICK f : Itera(f, n, Int, x, paso)
  BY <1>1, Iterada
<1>3. f = [i \in 0 .. n |-> IF i = 0 THEN x ELSE f[i - 1] \div 256]
  <2>1. f \in [0 .. n -> Int] /\ f[0] = x /\ \A i \in 1 .. n : f[i] = paso[i][f[i - 1]]
    BY <1>2 DEF Itera
  <2>2. \A i \in 1 .. n : i - 1 \in 0 .. n
    OBVIOUS
  <2>3. ASSUME NEW i \in 1 .. n PROVE f[i] = f[i - 1] \div 256
    <3>1. f[i - 1] \in Int
      BY <2>1, <2>2
    <3>2. paso[i][f[i - 1]] = f[i - 1] \div 256
      BY <1>1, <3>1
    <3>. QED  BY <2>1, <3>2
  <2>. QED  BY <2>1, <2>3
<1>. DEFINE q == CHOOSE q : E(q)
<1>4. E(q)
  BY <1>3
<1>5. Bytes(x, n) = [i \in 1 .. n |-> q[i - 1] % 256]
  BY DEF Bytes
<1>. HIDE DEF q
<1>6. q[0] = x /\ \A i \in 1 .. n : q[i] = q[i - 1] \div 256
  BY <1>4
<1>7. \A i \in 0 .. n : i \in {k \in 0 .. n : q[k] \in Int}
  <2>. DEFINE T == {k \in 0 .. n : q[k] \in Int}
  <2>1. 0 \in T
    BY <1>6
  <2>2. \A i \in 1 .. n : i - 1 \in T => i \in T
    BY <1>6
  <2>. HIDE DEF T
  <2>3. \A i \in 0 .. n : i \in T
    BY <2>1, <2>2, Hasta
  <2>. QED  BY <2>3 DEF T
<1>8. q \in [0 .. n -> Int]
  BY <1>4, <1>7
<1>. QED BY <1>5, <1>6, <1>8 DEF BytesSegun

Byte == {b \in Int : 0 <= b /\ b < 256}

\* Min of two.
LEMMA MenorDeDos ==
  ASSUME NEW a \in Int, NEW b \in Int
  PROVE  Min({a, b}) = IF a <= b THEN a ELSE b
<1>. DEFINE m == IF a <= b THEN a ELSE b
<1>1. m \in {a, b} /\ \A y \in {a, b} : m <= y
  OBVIOUS
<1>2. \A x \in {a, b} : (\A y \in {a, b} : x <= y) => x = m
  OBVIOUS
<1>. QED  BY <1>1, <1>2 DEF Min

\* n bytes, whatever the number.
LEMMA BytesTipo ==
  ASSUME NEW x \in Int, NEW n \in Nat
  PROVE  Bytes(x, n) \in Seq(Byte) /\ Len(Bytes(x, n)) = n
<1>1. PICK q : BytesSegun(x, n, q)
  BY BytesPasos
<1>2. ASSUME NEW i \in 1 .. n PROVE q[i - 1] % 256 \in Byte
  <2>0. i - 1 \in 0 .. n
    OBVIOUS
  <2>1. q[i - 1] \in Int
    BY <1>1, <2>0 DEF BytesSegun
  <2>. QED  BY <2>1 DEF Byte
<1>3. [i \in 1 .. n |-> q[i - 1] % 256] \in [1 .. n -> Byte]
  BY <1>2
<1>. QED  BY <1>1, <1>3 DEF BytesSegun

\* Nro's v
NroSegun(s, v) ==
  /\ v \in [0 .. Len(s) -> Int] /\ v[0] = 0 /\ Nro(s) = v[Len(s)]
  /\ \A i \in 1 .. Len(s) : LET m == s[Len(s) + 1 - i] + 256 * v[i - 1]
                            IN v[i] = IF m <= Enorme THEN m ELSE Enorme

\* The function of Nro exists.
LEMMA NroPasos ==
  ASSUME NEW s \in Seq(Byte)
  PROVE  \E v : NroSegun(s, v)
<1>. DEFINE n == Len(s)
            paso == [i \in 1 .. n |-> [a \in Int |-> Min({s[n + 1 - i] + 256 * a, Enorme})]]
            E(v) == v = [i \in 0 .. Len(s) |->
                           IF i = 0 THEN 0 ELSE Min({s[Len(s) + 1 - i] + 256 * v[i - 1], Enorme})]
            M(i, a) == s[n + 1 - i] + 256 * a
<1>1. n \in Nat /\ Enorme \in Int
  <2>1. Enorme \in Int
    BY EnormeAssumption
  <2>. QED  BY <2>1
<1>2. ASSUME NEW i \in 1 .. n, NEW a \in Int
      PROVE  /\ Min({M(i, a), Enorme}) = IF M(i, a) <= Enorme THEN M(i, a) ELSE Enorme
             /\ Min({M(i, a), Enorme}) \in Int
  <2>1. n + 1 - i \in 1 .. n
    BY <1>1
  <2>2. s[n + 1 - i] \in Int
    <3>1. s[n + 1 - i] \in Byte
      BY <2>1
    <3>. QED  BY <3>1 DEF Byte
  <2>3. M(i, a) \in Int
    BY <2>2
  <2>. HIDE DEF M
  <2>. QED  BY <1>1, <2>3, MenorDeDos
<1>3. \A i \in 1 .. n : paso[i] \in [Int -> Int] /\ \A a \in Int : paso[i][a] = Min({M(i, a), Enorme})
  BY <1>2
<1>. HIDE DEF paso
<1>4. PICK f : Itera(f, n, Int, 0, paso)
  <2>1. n \in Nat /\ 0 \in Int /\ \A i \in 1 .. n : paso[i] \in [Int -> Int]
    BY <1>1, <1>3
  <2>. HIDE DEF n
  <2>. QED  BY <2>1, Iterada
<1>5. E(f)
  <2>1. f \in [0 .. n -> Int] /\ f[0] = 0 /\ \A i \in 1 .. n : f[i] = paso[i][f[i - 1]]
    BY <1>4 DEF Itera
  <2>2. \A i \in 1 .. n : i - 1 \in 0 .. n
    BY <1>1
  <2>3. ASSUME NEW i \in 1 .. n PROVE f[i] = Min({M(i, f[i - 1]), Enorme})
    <3>1. f[i - 1] \in Int
      BY <2>1, <2>2
    <3>2. PICK a \in Int : a = f[i - 1]
      BY <3>1
    <3>3. paso[i][a] = Min({M(i, a), Enorme})
      <4>. HIDE DEF n, M
      <4>. QED  BY <1>3
    <3>. QED  BY <2>1, <3>2, <3>3
  <2>. QED  BY <2>1, <2>3
<1>. DEFINE v == CHOOSE v : E(v)
<1>6. E(v)
  <2>. HIDE DEF E
  <2>. QED  BY <1>5, Zenon
<1>7. Nro(s) = v[Len(s)]
  BY DEF Nro
<1>. HIDE DEF v
<1>8. v[0] = 0 /\ \A i \in 1 .. n : v[i] = Min({M(i, v[i - 1]), Enorme})
  <2>1. \A i \in 0 .. n : v[i] = IF i = 0 THEN 0 ELSE Min({M(i, v[i - 1]), Enorme})
    BY <1>6
  <2>2. 0 \in 0 .. n /\ \A i \in 1 .. n : i \in 0 .. n /\ i # 0
    BY <1>1
  <2>. HIDE DEF M, n
  <2>. QED  BY <2>1, <2>2
<1>9. \A i \in 0 .. n : i \in {k \in 0 .. n : v[k] \in Int}
  <2>. DEFINE T == {k \in 0 .. n : v[k] \in Int}
  <2>1. 0 \in T
    BY <1>1, <1>8
  <2>2. ASSUME NEW i \in 1 .. n, i - 1 \in T PROVE i \in T
    <3>1. v[i - 1] \in Int /\ i \in 0 .. n
      BY <2>2
    <3>2. v[i] \in Int
      <4>. HIDE DEF M
      <4>. QED  BY <1>2, <1>8, <3>1
    <3>. QED  BY <3>1, <3>2
  <2>. HIDE DEF T, n
  <2>3. \A i \in 0 .. n : i \in T
    BY <1>1, <2>1, <2>2, Hasta
  <2>. QED  BY <2>3 DEF T
<1>10. v \in [0 .. n -> Int]
  BY <1>6, <1>9
<1>11. ASSUME NEW i \in 1 .. n PROVE v[i] = IF M(i, v[i - 1]) <= Enorme THEN M(i, v[i - 1]) ELSE Enorme
  <2>1. i - 1 \in 0 .. n
    BY <1>1
  <2>2. v[i - 1] \in Int
    BY <1>10, <2>1
  <2>. HIDE DEF M
  <2>. QED  BY <1>2, <1>8, <2>2
<1>. QED  BY <1>7, <1>8, <1>10, <1>11 DEF NroSegun

\* The two instances of q and v that matter: n bytes hold x, and read as it.
LEMMA NroBytes ==
  ASSUME NEW x \in Nat, NEW n \in Nat, x < Enorme, NEW q, BytesSegun(x, n, q), q[n] = 0
  PROVE  Nro(Bytes(x, n)) = x
<1>. DEFINE s == Bytes(x, n)
            D(i) == n - i
<1>1. s \in Seq(Byte) /\ Len(s) = n
  BY BytesTipo
<1>2. PICK v : NroSegun(s, v)
  BY <1>1, NroPasos
<1>3. /\ v \in [0 .. n -> Int] /\ v[0] = 0 /\ Nro(s) = v[n]
      /\ \A i \in 1 .. n : LET m == s[n + 1 - i] + 256 * v[i - 1]
                           IN v[i] = IF m <= Enorme THEN m ELSE Enorme
  BY <1>1, <1>2 DEF NroSegun
<1>4. /\ q \in [0 .. n -> Int] /\ q[0] = x /\ \A i \in 1 .. n : q[i] = q[i - 1] \div 256
      /\ \A i \in 1 .. n : s[i] = q[i - 1] % 256
  BY DEF BytesSegun
<1>. HIDE DEF s
<1>5. \A i \in 0 .. n : q[i] \in Nat /\ q[i] <= x
  <2>. DEFINE T == {i \in 0 .. n : q[i] \in Nat /\ q[i] <= x}
  <2>1. 0 \in T
    BY <1>4
  <2>2. ASSUME NEW i \in 1 .. n, i - 1 \in T PROVE i \in T
    <3>1. PICK a \in Nat : a = q[i - 1] /\ a <= x
      BY <2>2
    <3>2. a \div 256 \in Nat /\ a \div 256 <= a
      OBVIOUS
    <3>. QED  BY <1>4, <3>1, <3>2
  <2>. HIDE DEF T
  <2>3. \A i \in 0 .. n : i \in T
    BY <2>1, <2>2, Hasta
  <2>. QED  BY <2>3 DEF T
<1>6. \A i \in 0 .. n : v[i] = q[n - i]
  <2>. DEFINE T == {i \in 0 .. n : v[i] = q[n - i]}
  <2>1. 0 \in T
    BY <1>3
  <2>2. ASSUME NEW i \in 1 .. n, i - 1 \in T PROVE i \in T
    <3>1. PICK j \in 1 .. n : j = n - i + 1
      OBVIOUS
    <3>2. n + 1 - i = j /\ n - (i - 1) = j /\ n - i = j - 1 /\ i \in 0 .. n /\ j - 1 \in 0 .. n /\ j \in 0 .. n
      BY <3>1
    <3>3. PICK a \in Nat : a = q[j - 1] /\ a <= x
      BY <1>5, <3>2
    <3>4. s[j] = a % 256 /\ q[j] = a \div 256
      BY <1>4, <3>3
    <3>5. v[i - 1] = q[j]
      BY <2>2, <3>2
    <3>6. (a % 256) + 256 * (a \div 256) = a
      OBVIOUS
    <3>7. s[n + 1 - i] + 256 * v[i - 1] = a
      BY <3>2, <3>4, <3>5, <3>6
    <3>8. v[i] = a
      <4>1. v[i] = IF a <= Enorme THEN a ELSE Enorme
        BY <1>3, <3>7, SMTT(60)
      <4>2. a <= Enorme
        BY <3>3, EnormeAssumption
      <4>. QED  BY <4>1, <4>2
    <3>. QED  BY <3>2, <3>3, <3>8
  <2>. HIDE DEF T
  <2>3. \A i \in 0 .. n : i \in T
    BY <2>1, <2>2, Hasta
  <2>. QED  BY <2>3 DEF T
<1>7. v[n] = q[0]
  BY <1>6
<1>. QED  BY <1>3, <1>4, <1>7 DEF s

\* A number below Enorme is read back from four bytes or from eight.
LEMMA NroLargo ==
  ASSUME NEW x \in Nat, x < Enorme, NEW n \in {INT32, SIZE_T}
  PROVE  Nro(Bytes(x, n)) = x
<1>1. n \in Nat /\ n >= 4 /\ n <= 8 /\ (n = 4 \/ n = 8)
  BY DEF INT32, SIZE_T
<1>2. PICK q : BytesSegun(x, n, q)
  BY <1>1, BytesPasos
<1>3. q[0] = x /\ \A i \in 1 .. n : q[i] = q[i - 1] \div 256
  BY <1>2 DEF BytesSegun
<1>4. \A i \in 1 .. 4 : i \in 1 .. n
  BY <1>1
<1>5. q[4] = 0
  <2>1. q[1] = x \div 256 /\ q[2] = q[1] \div 256 /\ q[3] = q[2] \div 256 /\ q[4] = q[3] \div 256
    BY <1>3, <1>4
  <2>2. x < 2147483648
    BY EnormeAssumption
  <2>3. q[1] \in Nat /\ q[1] < 8388608
    BY <2>1, <2>2
  <2>4. q[2] \in Nat /\ q[2] < 32768
    BY <2>1, <2>3
  <2>5. q[3] \in Nat /\ q[3] < 128
    BY <2>1, <2>4
  <2>. QED  BY <2>1, <2>5
<1>6. q[n] = 0
  <2>1. CASE n = 4
    BY <1>5, <2>1
  <2>2. CASE n = 8
    <3>1. q[5] = q[4] \div 256 /\ q[6] = q[5] \div 256 /\ q[7] = q[6] \div 256 /\ q[8] = q[7] \div 256
      BY <1>3, <2>2
    <3>. QED  BY <1>5, <2>2, <3>1
  <2>. QED  BY <1>1, <2>1, <2>2
<1>. QED  BY <1>1, <1>2, <1>6, NroBytes

\* From two bytes, what fits in a uint16_t.
LEMMA NroCorto ==
  ASSUME NEW x \in Nat
  PROVE  Nro(Bytes(x, UINT16)) = x % 65536
<1>1. PICK y \in Nat : y = x % 65536 /\ y < 65536 /\ y < Enorme
  BY EnormeAssumption
<1>2. PICK p : BytesSegun(x, 2, p)
  BY BytesPasos
<1>3. PICK q : BytesSegun(y, 2, q)
  BY BytesPasos
<1>4. p[0] = x /\ p[1] = p[0] \div 256 /\ Bytes(x, 2) = [i \in 1 .. 2 |-> p[i - 1] % 256]
  BY <1>2 DEF BytesSegun
<1>5. /\ q[0] = y /\ q[1] = q[0] \div 256 /\ q[2] = q[1] \div 256
      /\ Bytes(y, 2) = [i \in 1 .. 2 |-> q[i - 1] % 256]
  BY <1>3 DEF BytesSegun
<1>6. p[0] % 256 = q[0] % 256 /\ p[1] % 256 = q[1] % 256
  BY <1>1, <1>4, <1>5
<1>7. Bytes(x, 2) = Bytes(y, 2)
  <2>1. \A i \in 1 .. 2 : p[i - 1] % 256 = q[i - 1] % 256
    BY <1>6
  <2>. QED  BY <1>4, <1>5, <2>1
<1>8. q[2] = 0
  BY <1>1, <1>5
<1>9. Nro(Bytes(y, 2)) = y
  BY <1>1, <1>3, <1>8, NroBytes
<1>. QED  BY <1>1, <1>7, <1>9 DEF UINT16

Arg == {a \in Int : -2147483648 <= a /\ a <= 2147483647}

\* A byte less.
LEMMA Divide ==
  ASSUME NEW a \in Int, NEW b \in Int, -256 * b <= a, a < 256 * b
  PROVE  a \div 256 \in Int /\ -b <= a \div 256 /\ a \div 256 < b /\ a = (a % 256) + 256 * (a \div 256)
OBVIOUS

\* An argument is read back, negative ones too.
LEMMA EnteroBytes ==
  ASSUME NEW x \in Arg
  PROVE  Entero(Bytes(x, INT32)) = x
<1>1. PICK q : BytesSegun(x, 4, q)
  BY BytesPasos DEF Arg
<1>2. /\ q[0] = x /\ q[1] = q[0] \div 256 /\ q[2] = q[1] \div 256 /\ q[3] = q[2] \div 256
      /\ Bytes(x, 4) = [i \in 1 .. 4 |-> q[i - 1] % 256]
  BY <1>1 DEF BytesSegun
<1>. DEFINE s == Bytes(x, 4)
<1>3. s[1] = q[0] % 256 /\ s[2] = q[1] % 256 /\ s[3] = q[2] % 256 /\ s[4] = q[3] % 256
  BY <1>2
<1>. HIDE DEF s
<1>4. q[0] \in Int /\ q[0] >= -2147483648 /\ q[0] <= 2147483647
  BY <1>2 DEF Arg
<1>5. q[1] \in Int /\ q[1] >= -8388608 /\ q[1] < 8388608 /\ q[0] = s[1] + 256 * q[1]
  BY <1>2, <1>3, <1>4, Divide
<1>6. q[2] \in Int /\ q[2] >= -32768 /\ q[2] < 32768 /\ q[1] = s[2] + 256 * q[2]
  <2>1. PICK a \in Int : a = q[1]
    BY <1>5
  <2>2. -256 * 32768 <= a /\ a < 256 * 32768
    BY <1>5, <2>1
  <2>3. a \div 256 \in Int /\ -32768 <= a \div 256 /\ a \div 256 < 32768 /\ a = (a % 256) + 256 * (a \div 256)
    BY <2>2, Divide
  <2>. QED  BY <1>2, <1>3, <2>1, <2>3
<1>7. q[3] \in Int /\ q[3] >= -128 /\ q[3] < 128 /\ q[2] = s[3] + 256 * q[3]
  BY <1>2, <1>3, <1>6, Divide
<1>8. q[3] = IF s[4] >= 128 THEN s[4] - 256 ELSE s[4]
  BY <1>3, <1>7
<1>. QED  BY <1>2, <1>5, <1>6, <1>7, <1>8 DEF Entero, INT32, s

-----------------------------------------------------------------------------
(* Where a field is in a message                                           *)

\* t is in s from its byte d, counted from zero.
Trozo(s, d, t) == d + Len(t) <= Len(s) /\ \A i \in 1 .. Len(t) : s[d + i] = t[i]

\* Each part of a concatenation is where it is.
LEMMA TrozoUne ==
  ASSUME NEW S, NEW s \in Seq(S), NEW t \in Seq(S)
  PROVE  /\ s \o t \in Seq(S) /\ Len(s \o t) = Len(s) + Len(t)
         /\ Trozo(s \o t, 0, s) /\ Trozo(s \o t, Len(s), t)
<1>1. /\ s \o t \in Seq(S) /\ Len(s \o t) = Len(s) + Len(t) /\ Len(s) \in Nat /\ Len(t) \in Nat
      /\ \A i \in 1 .. Len(s) + Len(t) : (s \o t)[i] = IF i <= Len(s) THEN s[i] ELSE t[i - Len(s)]
  BY ConcatProperties, LenProperties
<1>2. Trozo(s \o t, 0, s)
  <2>1. \A i \in 1 .. Len(s) : i \in 1 .. Len(s) + Len(t) /\ i <= Len(s) /\ 0 + i = i
    BY <1>1
  <2>. QED  BY <1>1, <2>1 DEF Trozo
<1>3. Trozo(s \o t, Len(s), t)
  <2>1. \A i \in 1 .. Len(t) : /\ Len(s) + i \in 1 .. Len(s) + Len(t) /\ ~(Len(s) + i <= Len(s))
                               /\ Len(s) + i - Len(s) = i
    BY <1>1
  <2>. QED  BY <1>1, <2>1 DEF Trozo
<1>. QED  BY <1>1, <1>2, <1>3

\* What comes after moves nothing.
LEMMA TrozoSigue ==
  ASSUME NEW S, NEW s \in Seq(S), NEW t \in Seq(S), NEW u \in Seq(S), NEW d \in Nat, Trozo(s, d, u)
  PROVE  Trozo(s \o t, d, u)
<1>1. /\ Len(s \o t) = Len(s) + Len(t) /\ Len(s) \in Nat /\ Len(t) \in Nat /\ Len(u) \in Nat
      /\ \A i \in 1 .. Len(s) : (s \o t)[i] = s[i]
  <2>1. Trozo(s \o t, 0, s) /\ Len(s \o t) = Len(s) + Len(t)
    BY TrozoUne
  <2>2. \A i \in 1 .. Len(s) : 0 + i = i
    OBVIOUS
  <2>. QED  BY <2>1, <2>2, LenProperties DEF Trozo
<1>2. \A i \in 1 .. Len(u) : d + i \in 1 .. Len(s)
  BY <1>1 DEF Trozo
<1>. QED  BY <1>1, <1>2 DEF Trozo

\* A field is read from where it is.
LEMMA CampoTrozo ==
  ASSUME NEW S, NEW s \in Seq(S), NEW t \in Seq(S), NEW d \in Nat, Trozo(s, d, t)
  PROVE  Campo(s, d, Len(t)) = t
<1>1. Len(s) \in Nat /\ Len(t) \in Nat
  BY LenProperties
<1>2. \A i \in d + 1 .. d + Len(t) : s[i] \in S
  <2>1. \A i \in d + 1 .. d + Len(t) : i \in 1 .. Len(s)
    BY <1>1 DEF Trozo
  <2>. QED  BY <2>1
<1>3. /\ SubSeq(s, d + 1, d + Len(t)) \in Seq(S)
      /\ Len(SubSeq(s, d + 1, d + Len(t))) = IF d + 1 <= d + Len(t) THEN d + Len(t) - (d + 1) + 1 ELSE 0
      /\ \A i \in 1 .. d + Len(t) - (d + 1) + 1 : SubSeq(s, d + 1, d + Len(t))[i] = s[d + 1 + i - 1]
  BY <1>1, <1>2, SubSeqProperties
<1>4. Len(SubSeq(s, d + 1, d + Len(t))) = Len(t)
  BY <1>1, <1>3
<1>5. \A i \in 1 .. Len(t) : /\ i \in 1 .. d + Len(t) - (d + 1) + 1 /\ d + 1 + i - 1 = d + i
  BY <1>1
<1>6. \A i \in 1 .. Len(t) : SubSeq(s, d + 1, d + Len(t))[i] = t[i]
  BY <1>3, <1>5 DEF Trozo
<1>. QED  BY <1>3, <1>4, <1>6, SeqEqual DEF Campo

-----------------------------------------------------------------------------
(* An instruction, and a list of them                                      *)

Inst == [operacion : Byte, arg1 : Arg, arg2 : Arg]

\* Nine bytes of an instruction, each from its field.
LEMMA InstTipo ==
  ASSUME NEW i \in Inst
  PROVE  /\ SerializaInst(i) \in Seq(Byte) /\ Len(SerializaInst(i)) = 9
         /\ SerializaInst(i)[1] = i.operacion
         /\ \A k \in 1 .. 4 : /\ SerializaInst(i)[1 + k] = Bytes(i.arg1, 4)[k]
                              /\ SerializaInst(i)[5 + k] = Bytes(i.arg2, 4)[k]
<1>. DEFINE a == <<i.operacion>>
            b == Bytes(i.arg1, 4)
            c == Bytes(i.arg2, 4)
<1>1. a \in Seq(Byte) /\ Len(a) = 1 /\ a[1] = i.operacion
  BY DEF Inst
<1>2. b \in Seq(Byte) /\ Len(b) = 4 /\ c \in Seq(Byte) /\ Len(c) = 4
  <2>1. i.arg1 \in Int /\ i.arg2 \in Int
    BY DEF Inst, Arg
  <2>. QED  BY <2>1, BytesTipo
<1>3. SerializaInst(i) = (a \o b) \o c
  BY DEF SerializaInst, INT32
<1>. HIDE DEF a, b, c
<1>4. /\ a \o b \in Seq(Byte) /\ Len(a \o b) = 5
      /\ Trozo(a \o b, 0, a) /\ Trozo(a \o b, 1, b)
  <2>1. /\ a \o b \in Seq(Byte) /\ Len(a \o b) = Len(a) + Len(b)
        /\ Trozo(a \o b, 0, a) /\ Trozo(a \o b, Len(a), b)
    BY <1>1, <1>2, TrozoUne
  <2>. QED  BY <1>1, <1>2, <2>1
<1>5. /\ (a \o b) \o c \in Seq(Byte) /\ Len((a \o b) \o c) = 9
      /\ Trozo((a \o b) \o c, 5, c)
  <2>1. /\ (a \o b) \o c \in Seq(Byte) /\ Len((a \o b) \o c) = Len(a \o b) + Len(c)
        /\ Trozo((a \o b) \o c, Len(a \o b), c)
    BY <1>2, <1>4, TrozoUne
  <2>. QED  BY <1>2, <1>4, <2>1
<1>6. Trozo((a \o b) \o c, 0, a) /\ Trozo((a \o b) \o c, 1, b)
  BY <1>1, <1>2, <1>4, TrozoSigue
<1>7. ((a \o b) \o c)[1] = i.operacion
  BY <1>1, <1>6 DEF Trozo
<1>8. \A k \in 1 .. 4 : ((a \o b) \o c)[1 + k] = b[k] /\ ((a \o b) \o c)[5 + k] = c[k]
  BY <1>2, <1>5, <1>6 DEF Trozo
<1>. QED  BY <1>3, <1>5, <1>7, <1>8 DEF b, c

\* Nine bytes of each instruction of a list, in order.
LEMMA ListaTipo ==
  ASSUME NEW l \in Seq(Inst)
  PROVE  /\ SerializaLista(l) \in Seq(Byte) /\ Len(SerializaLista(l)) = 9 * Len(l)
         /\ \A j \in 1 .. Len(l) : \A k \in 1 .. 9 :
              SerializaLista(l)[(j - 1) * 9 + k] = SerializaInst(l[j])[k]
<1>1. Len(l) \in Nat /\ DOMAIN l = 1 .. Len(l) /\ \A j \in 1 .. Len(l) : l[j] \in Inst
  OBVIOUS
<1>. DEFINE n == Len(l)
            e == [j \in 1 .. n |-> SerializaInst(l[j])]
            E(k) == e[(k - 1) \div 9 + 1][((k - 1) % 9) + 1]
<1>2. SerializaLista(l) = [k \in 1 .. 9 * n |-> E(k)]
  <2>1. INST = 9
    BY DEF INST, INT32
  <2>. QED  BY <1>1, <2>1 DEF SerializaLista
<1>3. \A j \in 1 .. n : e[j] \in Seq(Byte) /\ Len(e[j]) = 9 /\ e[j] = SerializaInst(l[j])
  BY <1>1, InstTipo
<1>. HIDE DEF e
<1>4. ASSUME NEW k \in 1 .. 9 * n
      PROVE  E(k) \in Byte
  <2>1. (k - 1) \div 9 + 1 \in 1 .. n /\ ((k - 1) % 9) + 1 \in 1 .. 9
    <3>1. PICK m \in Nat : m = k - 1 /\ m < 9 * n
      BY <1>1
    <3>2. m \div 9 \in Nat /\ m \div 9 < n /\ m % 9 \in 0 .. 8
      BY <1>1, <3>1
    <3>. QED  BY <1>1, <3>1, <3>2
  <2>2. PICK j \in 1 .. n : j = (k - 1) \div 9 + 1
    BY <2>1
  <2>3. PICK m \in 1 .. 9 : m = ((k - 1) % 9) + 1
    BY <2>1
  <2>4. e[j][m] \in Byte
    BY <1>3
  <2>. QED  BY <2>2, <2>3, <2>4
<1>5. SerializaLista(l) \in Seq(Byte) /\ Len(SerializaLista(l)) = 9 * n
  <2>1. 9 * n \in Nat
    BY <1>1
  <2>2. [k \in 1 .. 9 * n |-> E(k)] \in [1 .. 9 * n -> Byte]
    BY <1>4
  <2>. HIDE DEF E
  <2>. QED  BY <1>2, <2>1, <2>2
<1>6. ASSUME NEW j \in 1 .. n, NEW k \in 1 .. 9
      PROVE  SerializaLista(l)[(j - 1) * 9 + k] = SerializaInst(l[j])[k]
  <2>1. PICK m \in 1 .. 9 * n : m = (j - 1) * 9 + k
    BY <1>1
  <2>2. (m - 1) \div 9 = j - 1 /\ (m - 1) % 9 = k - 1
    BY <2>1
  <2>3. (m - 1) \div 9 + 1 = j /\ ((m - 1) % 9) + 1 = k
    BY <2>2
  <2>4. SerializaLista(l)[m] = E(m)
    BY <1>2, <2>1
  <2>. QED  BY <1>3, <2>1, <2>3, <2>4
<1>. QED  BY <1>5, <1>6

\* A list is read back from wherever it is in a message.
LEMMA ListaLeida ==
  ASSUME NEW l \in Seq(Inst), NEW s \in Seq(Byte), NEW d \in Nat, Trozo(s, d, SerializaLista(l))
  PROVE  DeserializaLista(s, d, Len(l)) = l
<1>1. /\ Len(SerializaLista(l)) = 9 * Len(l) /\ Len(l) \in Nat
      /\ \A j \in 1 .. Len(l) : l[j] \in Inst
      /\ \A j \in 1 .. Len(l) : \A k \in 1 .. 9 :
           SerializaLista(l)[(j - 1) * 9 + k] = SerializaInst(l[j])[k]
  <2>1. Len(l) \in Nat /\ \A j \in 1 .. Len(l) : l[j] \in Inst
    OBVIOUS
  <2>. QED  BY <2>1, ListaTipo
<1>2. ASSUME NEW j \in 1 .. Len(l)
      PROVE  DeserializaInst(s, d + (j - 1) * 9) = l[j]
  <2>1. PICK i \in Inst : i = l[j]
    BY <1>1
  <2>2. PICK f \in Nat : f = d + (j - 1) * 9
    OBVIOUS
  <2>3. \A k \in 1 .. 9 : s[f + k] = SerializaInst(i)[k]
    <3>. TAKE k \in 1 .. 9
    <3>1. (j - 1) * 9 + k \in 1 .. 9 * Len(l) /\ d + ((j - 1) * 9 + k) = f + k
      BY <1>1, <2>2
    <3>. QED  BY <1>1, <2>1, <3>1 DEF Trozo
  <2>4. f + 9 <= Len(s)
    <3>1. (j - 1) * 9 + 9 <= 9 * Len(l)
      BY <1>1
    <3>2. d + 9 * Len(l) <= Len(s) /\ Len(s) \in Nat
      BY <1>1 DEF Trozo
    <3>. QED  BY <1>1, <2>2, <3>1, <3>2
  <2>5. /\ Bytes(i.arg1, 4) \in Seq(Byte) /\ Len(Bytes(i.arg1, 4)) = 4
        /\ Bytes(i.arg2, 4) \in Seq(Byte) /\ Len(Bytes(i.arg2, 4)) = 4
    <3>1. i.arg1 \in Int /\ i.arg2 \in Int
      BY DEF Inst, Arg
    <3>. QED  BY <3>1, BytesTipo
  <2>6. Trozo(s, f + 1, Bytes(i.arg1, 4)) /\ Trozo(s, f + 5, Bytes(i.arg2, 4))
    <3>1. \A k \in 1 .. 4 : /\ 1 + k \in 1 .. 9 /\ f + (1 + k) = f + 1 + k
                            /\ 5 + k \in 1 .. 9 /\ f + (5 + k) = f + 5 + k
      OBVIOUS
    <3>2. \A k \in 1 .. 4 : s[f + 1 + k] = Bytes(i.arg1, 4)[k] /\ s[f + 5 + k] = Bytes(i.arg2, 4)[k]
      <4>1. \A k \in 1 .. 4 : /\ SerializaInst(i)[1 + k] = Bytes(i.arg1, 4)[k]
                              /\ SerializaInst(i)[5 + k] = Bytes(i.arg2, 4)[k]
        BY InstTipo
      <4>. QED  BY <2>3, <3>1, <4>1
    <3>3. f + 1 + 4 <= Len(s) /\ f + 5 + 4 <= Len(s)
      BY <2>4
    <3>. QED  BY <2>5, <3>2, <3>3 DEF Trozo
  <2>7. Campo(s, f + 1, 4) = Bytes(i.arg1, 4) /\ Campo(s, f + 5, 4) = Bytes(i.arg2, 4)
    <3>1. /\ Campo(s, f + 1, Len(Bytes(i.arg1, 4))) = Bytes(i.arg1, 4)
          /\ Campo(s, f + 5, Len(Bytes(i.arg2, 4))) = Bytes(i.arg2, 4)
      BY <2>5, <2>6, CampoTrozo
    <3>. QED  BY <2>5, <3>1
  <2>8. Entero(Campo(s, f + 1, 4)) = i.arg1 /\ Entero(Campo(s, f + 5, 4)) = i.arg2
    BY <2>7, EnteroBytes DEF Inst, INT32
  <2>9. s[f + 1] = i.operacion
    BY <2>3, InstTipo
  <2>10. DeserializaInst(s, f) = [operacion |-> i.operacion, arg1 |-> i.arg1, arg2 |-> i.arg2]
    <3>1. f + 1 + 4 = f + 5
      OBVIOUS
    <3>. QED  BY <2>8, <2>9, <3>1 DEF DeserializaInst, INT32
  <2>. QED  BY <2>1, <2>2, <2>10 DEF Inst
<1>3. DeserializaLista(s, d, Len(l)) = [j \in 1 .. Len(l) |-> l[j]]
  <2>1. INST = 9
    BY DEF INST, INT32
  <2>. QED  BY <1>2, <2>1 DEF DeserializaLista
<1>. QED  BY <1>3

-----------------------------------------------------------------------------
(* Messages                                                                *)

\* The widths in use.
LEMMA BytesAnchos ==
  ASSUME NEW x \in Nat
  PROVE  /\ Bytes(x, 2) \in Seq(Byte) /\ Len(Bytes(x, 2)) = 2
         /\ Bytes(x, 4) \in Seq(Byte) /\ Len(Bytes(x, 4)) = 4
         /\ Bytes(x, 8) \in Seq(Byte) /\ Len(Bytes(x, 8)) = 8
<1>1. x \in Int
  OBVIOUS
<1>2. Bytes(x, 2) \in Seq(Byte) /\ Len(Bytes(x, 2)) = 2
  BY <1>1, BytesTipo
<1>3. Bytes(x, 4) \in Seq(Byte) /\ Len(Bytes(x, 4)) = 4
  BY <1>1, BytesTipo
<1>4. Bytes(x, 8) \in Seq(Byte) /\ Len(Bytes(x, 8)) = 8
  BY <1>1, BytesTipo
<1>. QED  BY <1>2, <1>3, <1>4

\* Where the three parts of a message are.
LEMMA MensajeTipo ==
  ASSUME NEW c \in Seq(Byte), NEW cop \in Nat, NEW m, m = Mensaje(cop, c)
  PROVE  /\ m \in Seq(Byte) /\ Len(m) = 12 + Len(c)
         /\ Trozo(m, 0, Bytes(cop, 4)) /\ Trozo(m, 4, Bytes(Len(c), 8)) /\ Trozo(m, 12, c)
<1>. DEFINE a == Bytes(cop, 4)
            b == Bytes(Len(c), 8)
<1>1. a \in Seq(Byte) /\ Len(a) = 4 /\ b \in Seq(Byte) /\ Len(b) = 8 /\ Len(c) \in Nat
  <2>1. Len(c) \in Nat
    BY LenProperties
  <2>. QED  BY <2>1, BytesAnchos
<1>2. m = (a \o b) \o c
  BY DEF Mensaje, COP, SIZE_T
<1>. HIDE DEF a, b
<1>3. a \o b \in Seq(Byte) /\ Len(a \o b) = 12 /\ Trozo(a \o b, 0, a) /\ Trozo(a \o b, 4, b)
  <2>1. /\ a \o b \in Seq(Byte) /\ Len(a \o b) = Len(a) + Len(b)
        /\ Trozo(a \o b, 0, a) /\ Trozo(a \o b, Len(a), b)
    BY <1>1, TrozoUne
  <2>. QED  BY <1>1, <2>1
<1>4. m \in Seq(Byte) /\ Len(m) = Len(a \o b) + Len(c) /\ Trozo(m, Len(a \o b), c)
  BY <1>2, <1>3, TrozoUne
<1>5. Trozo(m, 0, a) /\ Trozo(m, 4, b)
  BY <1>1, <1>2, <1>3, TrozoSigue
<1>. QED  BY <1>3, <1>4, <1>5 DEF a, b

\* What recv_proceso reads after op_code and size is the payload.
LEMMA MensajeCarga ==
  ASSUME NEW c \in Seq(Byte), NEW cop \in Nat, NEW m, m = Mensaje(cop, c)
  PROVE  SubSeq(m, COP + SIZE_T + 1, Len(m)) = c
<1>1. m \in Seq(Byte) /\ Len(m) = 12 + Len(c) /\ Trozo(m, 12, c) /\ Len(c) \in Nat
  BY MensajeTipo
<1>2. Campo(m, 12, Len(c)) = c
  BY <1>1, CampoTrozo
<1>3. COP + SIZE_T + 1 = 12 + 1
  BY DEF COP, SIZE_T
<1>. QED  BY <1>1, <1>2, <1>3 DEF Campo

\* PROGRAMA's payload
CargaPrograma(l, t) == Bytes(Len(l), SIZE_T) \o SerializaLista(l) \o Bytes(t, UINT16)

\* deserializar_programa gives back the list of instructions, whole and in order, and
\* the size as a uint16_t, of what serializar_programa put in the payload.
THEOREM ProgramaLeido ==
  ASSUME NEW l \in Seq(Inst), NEW t \in Nat, Len(l) < Enorme, NEW s, s = CargaPrograma(l, t)
  PROVE  /\ s \in Seq(Byte) /\ Len(s) = 10 + 9 * Len(l)
         /\ deserializar_programa(s) = [instrucciones |-> l, tamanio |-> t % 65536]
<1>. DEFINE n == Len(l)
            a == Bytes(n, 8)
            b == SerializaLista(l)
            c == Bytes(t, 2)
<1>1. /\ n \in Nat /\ a \in Seq(Byte) /\ Len(a) = 8 /\ b \in Seq(Byte) /\ Len(b) = 9 * n
      /\ c \in Seq(Byte) /\ Len(c) = 2
  <2>1. n \in Nat
    OBVIOUS
  <2>2. b \in Seq(Byte) /\ Len(b) = 9 * n
    BY ListaTipo
  <2>3. a \in Seq(Byte) /\ Len(a) = 8 /\ c \in Seq(Byte) /\ Len(c) = 2
    BY <2>1, BytesAnchos
  <2>. QED  BY <2>1, <2>2, <2>3
<1>2. s = (a \o b) \o c
  BY DEF CargaPrograma, SIZE_T, UINT16
<1>3. Nro(a) = n /\ Nro(c) = t % 65536
  BY <1>1, NroLargo, NroCorto DEF SIZE_T, UINT16
<1>4. \A d \in Nat : Trozo(s, d, b) /\ s \in Seq(Byte) => DeserializaLista(s, d, n) = l
  BY ListaLeida
<1>. HIDE DEF n, a, b, c
<1>5. a \o b \in Seq(Byte) /\ Len(a \o b) = 8 + 9 * n /\ Trozo(a \o b, 0, a) /\ Trozo(a \o b, 8, b)
  <2>1. /\ a \o b \in Seq(Byte) /\ Len(a \o b) = Len(a) + Len(b)
        /\ Trozo(a \o b, 0, a) /\ Trozo(a \o b, Len(a), b)
    BY <1>1, TrozoUne
  <2>. QED  BY <1>1, <2>1
<1>6. s \in Seq(Byte) /\ Len(s) = 10 + 9 * n /\ Trozo(s, 8 + 9 * n, c)
  <2>1. s \in Seq(Byte) /\ Len(s) = Len(a \o b) + Len(c) /\ Trozo(s, Len(a \o b), c)
    BY <1>1, <1>2, <1>5, TrozoUne
  <2>. QED  BY <1>1, <1>5, <2>1
<1>7. Trozo(s, 0, a) /\ Trozo(s, 8, b)
  BY <1>1, <1>2, <1>5, TrozoSigue
<1>8. Campo(s, 0, 8) = a /\ Campo(s, 8 + 9 * n, 2) = c
  <2>1. 8 + 9 * n \in Nat
    BY <1>1
  <2>2. Campo(s, 0, Len(a)) = a /\ Campo(s, 8 + 9 * n, Len(c)) = c
    BY <1>1, <1>6, <1>7, <2>1, CampoTrozo
  <2>. QED  BY <1>1, <2>2
<1>9. DeserializaLista(s, 8, n) = l
  BY <1>4, <1>6, <1>7
<1>10. deserializar_programa(s) = [instrucciones |-> l, tamanio |-> t % 65536]
  <2>1. n * INST = 9 * n
    BY <1>1 DEF INST, INT32
  <2>. QED  BY <1>3, <1>8, <1>9, <2>1 DEF deserializar_programa, SIZE_T, UINT16
<1>. QED  BY <1>6, <1>10 DEF n

\* A PCB whose fields fit.
Corto == {x \in Nat : x < 65536}
Largo == {x \in Nat : x < Enorme}
EsPcb(p) ==
  /\ p \in [pid : Corto, tamanio : Corto, instrucciones : Seq(Inst), pc : Largo,
            tabla_paginas : Largo, est_rafaga : Largo]
  /\ Len(p.instrucciones) < Enorme

\* recv_proceso gives back the PCB that send_proceso was given, when its fields fit in
\* the bytes they are sent in.
THEOREM ProcesoLeido ==
  ASSUME NEW p, EsPcb(p), NEW cop \in Nat, NEW m, m = serializar_proceso(p, cop)
  PROVE  m # << >> /\ deserializar_proceso(SubSeq(m, COP + SIZE_T + 1, Len(m))) = p
<1>. DEFINE l == p.instrucciones
            n == Len(l)
            a == Bytes(p.pid, 2)
            b == Bytes(p.tamanio, 2)
            c == Bytes(n, 8)
            d == SerializaLista(l)
            e == Bytes(p.pc, 4)
            f == Bytes(p.tabla_paginas, 4)
            g == Bytes(p.est_rafaga, 8)
            s == a \o b \o c \o d \o e \o f \o g
<1>1. /\ p.pid \in Nat /\ p.pid < 65536 /\ p.tamanio \in Nat /\ p.tamanio < 65536
      /\ l \in Seq(Inst) /\ n \in Nat /\ n < Enorme
      /\ p.pc \in Nat /\ p.pc < Enorme /\ p.tabla_paginas \in Nat /\ p.tabla_paginas < Enorme
      /\ p.est_rafaga \in Nat /\ p.est_rafaga < Enorme
  BY DEF EsPcb, Corto, Largo
<1>2. /\ a \in Seq(Byte) /\ Len(a) = 2 /\ b \in Seq(Byte) /\ Len(b) = 2
      /\ c \in Seq(Byte) /\ Len(c) = 8 /\ d \in Seq(Byte) /\ Len(d) = 9 * n
      /\ e \in Seq(Byte) /\ Len(e) = 4 /\ f \in Seq(Byte) /\ Len(f) = 4
      /\ g \in Seq(Byte) /\ Len(g) = 8
  <2>1. d \in Seq(Byte) /\ Len(d) = 9 * n
    BY <1>1, ListaTipo
  <2>2. a \in Seq(Byte) /\ Len(a) = 2
    BY <1>1, BytesAnchos
  <2>3. b \in Seq(Byte) /\ Len(b) = 2
    BY <1>1, BytesAnchos
  <2>4. c \in Seq(Byte) /\ Len(c) = 8
    <3>. HIDE DEF n, l
    <3>. QED  BY <1>1, BytesAnchos
  <2>5. e \in Seq(Byte) /\ Len(e) = 4
    BY <1>1, BytesAnchos
  <2>6. f \in Seq(Byte) /\ Len(f) = 4
    BY <1>1, BytesAnchos
  <2>7. g \in Seq(Byte) /\ Len(g) = 8
    BY <1>1, BytesAnchos
  <2>. HIDE DEF a, b, c, d, e, f, g
  <2>. QED  BY <2>1, <2>2, <2>3, <2>4, <2>5, <2>6, <2>7
<1>3. /\ Nro(a) = p.pid /\ Nro(b) = p.tamanio /\ Nro(c) = n
      /\ Nro(e) = p.pc /\ Nro(f) = p.tabla_paginas /\ Nro(g) = p.est_rafaga
  <2>1. Nro(a) = p.pid % 65536 /\ Nro(b) = p.tamanio % 65536
    <3>1. \A x \in Nat : Nro(Bytes(x, 2)) = x % 65536
      BY NroCorto DEF UINT16
    <3>. QED  BY <1>1, <3>1
  <2>2. \A x \in Nat : x < Enorme => Nro(Bytes(x, 4)) = x /\ Nro(Bytes(x, 8)) = x
    BY NroLargo DEF SIZE_T, INT32
  <2>3. Nro(c) = n
    BY <1>1, <2>2
  <2>4. Nro(e) = p.pc
    BY <1>1, <2>2
  <2>5. Nro(f) = p.tabla_paginas
    BY <1>1, <2>2
  <2>6. Nro(g) = p.est_rafaga
    BY <1>1, <2>2
  <2>7. p.pid % 65536 = p.pid /\ p.tamanio % 65536 = p.tamanio
    BY <1>1
  <2>. QED  BY <2>1, <2>3, <2>4, <2>5, <2>6, <2>7
<1>4. \A z \in Seq(Byte) : Trozo(z, 12, d) => DeserializaLista(z, 12, n) = l
  BY <1>1, ListaLeida
<1>5. m = Mensaje(cop, s)
  BY DEF serializar_proceso, UINT16, SIZE_T, INT32, DOUBLE
<1>6. p = [pid |-> p.pid, tamanio |-> p.tamanio, instrucciones |-> l, pc |-> p.pc,
           tabla_paginas |-> p.tabla_paginas, est_rafaga |-> p.est_rafaga]
  BY DEF EsPcb
<1>. HIDE DEF a, b, c, d, e, f, g
<1>. DEFINE s2 == a \o b
            s3 == s2 \o c
            s4 == s3 \o d
            s5 == s4 \o e
            s6 == s5 \o f
<1>7. s2 \in Seq(Byte) /\ Len(s2) = 4 /\ Trozo(s2, 0, a) /\ Trozo(s2, 2, b)
  <2>1. s2 \in Seq(Byte) /\ Len(s2) = Len(a) + Len(b) /\ Trozo(s2, 0, a) /\ Trozo(s2, Len(a), b)
    BY <1>2, TrozoUne
  <2>. QED  BY <1>2, <2>1
<1>. HIDE DEF s2
<1>8. /\ s3 \in Seq(Byte) /\ Len(s3) = 12
      /\ Trozo(s3, 0, a) /\ Trozo(s3, 2, b) /\ Trozo(s3, 4, c)
  <2>1. s3 \in Seq(Byte) /\ Len(s3) = Len(s2) + Len(c) /\ Trozo(s3, Len(s2), c)
    BY <1>2, <1>7, TrozoUne
  <2>2. Trozo(s3, 0, a) /\ Trozo(s3, 2, b)
    BY <1>2, <1>7, TrozoSigue
  <2>. QED  BY <1>2, <1>7, <2>1, <2>2
<1>. HIDE DEF s3
<1>9. /\ s4 \in Seq(Byte) /\ Len(s4) = 12 + 9 * n
      /\ Trozo(s4, 0, a) /\ Trozo(s4, 2, b) /\ Trozo(s4, 4, c) /\ Trozo(s4, 12, d)
  <2>1. s4 \in Seq(Byte) /\ Len(s4) = Len(s3) + Len(d) /\ Trozo(s4, Len(s3), d)
    BY <1>2, <1>8, TrozoUne
  <2>2. Trozo(s4, 0, a) /\ Trozo(s4, 2, b) /\ Trozo(s4, 4, c)
    BY <1>2, <1>8, TrozoSigue
  <2>. QED  BY <1>2, <1>8, <2>1, <2>2
<1>. HIDE DEF s4
<1>10. PICK k \in Nat : k = 12 + 9 * n
  BY <1>1
<1>11. /\ s5 \in Seq(Byte) /\ Len(s5) = k + 4
       /\ Trozo(s5, 0, a) /\ Trozo(s5, 2, b) /\ Trozo(s5, 4, c) /\ Trozo(s5, 12, d) /\ Trozo(s5, k, e)
  <2>1. s5 \in Seq(Byte) /\ Len(s5) = Len(s4) + Len(e) /\ Trozo(s5, Len(s4), e)
    BY <1>2, <1>9, TrozoUne
  <2>2. Trozo(s5, 0, a) /\ Trozo(s5, 2, b) /\ Trozo(s5, 4, c) /\ Trozo(s5, 12, d)
    BY <1>2, <1>9, TrozoSigue
  <2>. QED  BY <1>2, <1>9, <1>10, <2>1, <2>2
<1>. HIDE DEF s5
<1>12. /\ s6 \in Seq(Byte) /\ Len(s6) = k + 8
       /\ Trozo(s6, 0, a) /\ Trozo(s6, 2, b) /\ Trozo(s6, 4, c) /\ Trozo(s6, 12, d) /\ Trozo(s6, k, e)
       /\ Trozo(s6, k + 4, f)
  <2>1. s6 \in Seq(Byte) /\ Len(s6) = Len(s5) + Len(f) /\ Trozo(s6, Len(s5), f)
    BY <1>2, <1>11, TrozoUne
  <2>2. Trozo(s6, 0, a) /\ Trozo(s6, 2, b) /\ Trozo(s6, 4, c) /\ Trozo(s6, 12, d) /\ Trozo(s6, k, e)
    BY <1>2, <1>10, <1>11, TrozoSigue
  <2>. QED  BY <1>2, <1>10, <1>11, <2>1, <2>2
<1>13. s = s6 \o g
  BY DEF s2, s3, s4, s5
<1>. HIDE DEF s6, s
<1>14. /\ s \in Seq(Byte) /\ Len(s) = k + 16
       /\ Trozo(s, 0, a) /\ Trozo(s, 2, b) /\ Trozo(s, 4, c) /\ Trozo(s, 12, d) /\ Trozo(s, k, e)
       /\ Trozo(s, k + 4, f) /\ Trozo(s, k + 8, g)
  <2>1. s \in Seq(Byte) /\ Len(s) = Len(s6) + Len(g) /\ Trozo(s, Len(s6), g)
    BY <1>2, <1>12, <1>13, TrozoUne
  <2>2. k + 4 \in Nat
    BY <1>10
  <2>3. /\ Trozo(s, 0, a) /\ Trozo(s, 2, b) /\ Trozo(s, 4, c) /\ Trozo(s, 12, d) /\ Trozo(s, k, e)
        /\ Trozo(s, k + 4, f)
    BY <1>2, <1>10, <1>12, <1>13, <2>2, TrozoSigue
  <2>. QED  BY <1>2, <1>10, <1>12, <2>1, <2>3
<1>15. /\ Campo(s, 0, 2) = a /\ Campo(s, 2, 2) = b /\ Campo(s, 4, 8) = c
       /\ Campo(s, k, 4) = e /\ Campo(s, k + 4, 4) = f /\ Campo(s, k + 8, 8) = g
  <2>1. k + 4 \in Nat /\ k + 8 \in Nat
    BY <1>10
  <2>2. Campo(s, 0, Len(a)) = a /\ Campo(s, 2, Len(b)) = b /\ Campo(s, 4, Len(c)) = c
    BY <1>2, <1>14, CampoTrozo
  <2>3. Campo(s, k, Len(e)) = e /\ Campo(s, k + 4, Len(f)) = f /\ Campo(s, k + 8, Len(g)) = g
    BY <1>2, <1>10, <1>14, <2>1, CampoTrozo
  <2>. QED  BY <1>2, <2>2, <2>3
<1>16. DeserializaLista(s, 12, n) = l
  BY <1>4, <1>14
<1>17. deserializar_proceso(s) = p
  <2>1. 2 * UINT16 + SIZE_T + n * INST = k
    BY <1>1, <1>10 DEF UINT16, SIZE_T, INST, INT32
  <2>. DEFINE r(j) == [pid |-> Nro(Campo(s, 0, UINT16)), tamanio |-> Nro(Campo(s, UINT16, UINT16)),
                instrucciones |-> DeserializaLista(s, 2 * UINT16 + SIZE_T, n),
                pc |-> Nro(Campo(s, j, INT32)), tabla_paginas |-> Nro(Campo(s, j + INT32, INT32)),
                est_rafaga |-> Nro(Campo(s, j + 2 * INT32, DOUBLE))]
  <2>2. Nro(Campo(s, 2 * UINT16, SIZE_T)) = n
    BY <1>3, <1>15 DEF UINT16, SIZE_T
  <2>3. deserializar_proceso(s) = r(k)
    <3>. HIDE DEF n, l
    <3>. QED  BY <2>1, <2>2 DEF deserializar_proceso
  <2>4. /\ Nro(Campo(s, 0, UINT16)) = p.pid /\ Nro(Campo(s, UINT16, UINT16)) = p.tamanio
        /\ DeserializaLista(s, 2 * UINT16 + SIZE_T, n) = l
        /\ Nro(Campo(s, k, INT32)) = p.pc /\ Nro(Campo(s, k + INT32, INT32)) = p.tabla_paginas
        /\ Nro(Campo(s, k + 2 * INT32, DOUBLE)) = p.est_rafaga
    BY <1>3, <1>15, <1>16 DEF UINT16, SIZE_T, INT32, DOUBLE
  <2>. HIDE DEF l, n
  <2>. QED  BY <1>6, <2>3, <2>4
<1>18. m # << >>
  <2>1. m \in Seq(Byte) /\ Len(m) = 12 + Len(s)
    BY <1>5, <1>14, MensajeTipo
  <2>. QED  BY <1>10, <1>14, <2>1
<1>. QED  BY <1>5, <1>14, <1>17, <1>18, MensajeCarga

-----------------------------------------------------------------------------
(* A list of lists, one after the other                                    *)

\* h[i] is the first i lists of s one after the other.
Junta(s, k, h, S) ==
  h \in [0 .. k -> Seq(S)] /\ h[0] = << >> /\ \A i \in 1 .. k : h[i] = h[i - 1] \o s[i]

\* The empty sequence adds nothing.
LEMMA VacioMas ==
  ASSUME NEW S, NEW t \in Seq(S)
  PROVE  << >> \o t = t /\ t \o << >> = t
BY ConcatEmptySeq

\* h exists.
LEMMA JuntaHay ==
  ASSUME NEW S, NEW s \in Seq(Seq(S))
  PROVE  \E h : Junta(s, Len(s), h, S)
<1>. DEFINE n == Len(s)
            paso == [i \in 1 .. n |-> [a \in Seq(S) |-> a \o s[i]]]
<1>1. n \in Nat /\ << >> \in Seq(S) /\ \A i \in 1 .. n : s[i] \in Seq(S)
  OBVIOUS
<1>2. \A a, b \in Seq(S) : a \o b \in Seq(S)
  OBVIOUS
<1>3. \A i \in 1 .. n : paso[i] \in [Seq(S) -> Seq(S)] /\ \A a \in Seq(S) : paso[i][a] = a \o s[i]
  BY <1>1, <1>2
<1>. HIDE DEF paso, n
<1>4. PICK h : Itera(h, n, Seq(S), << >>, paso)
  BY <1>1, <1>3, Iterada
<1>5. h \in [0 .. n -> Seq(S)] /\ h[0] = << >> /\ \A i \in 1 .. n : h[i] = paso[i][h[i - 1]]
  BY <1>4 DEF Itera
<1>6. ASSUME NEW i \in 1 .. n PROVE h[i] = h[i - 1] \o s[i]
  <2>1. i - 1 \in 0 .. n
    BY <1>1
  <2>2. h[i - 1] \in Seq(S)
    BY <1>5, <2>1
  <2>. QED  BY <1>3, <1>5, <2>2
<1>7. Junta(s, n, h, S)
  BY <1>5, <1>6 DEF Junta
<1>. QED  BY <1>7 DEF n

LEMMA Elementos ==
  ASSUME NEW T, NEW s \in Seq(T)
  PROVE  Len(s) \in Nat /\ \A i \in 1 .. Len(s) : s[i] \in T
OBVIOUS

LEMMA JuntaPasos ==
  ASSUME NEW S, NEW s \in Seq(Seq(S)), NEW h, Junta(s, Len(s), h, S)
  PROVE  /\ Len(s) \in Nat /\ \A i \in 1 .. Len(s) : s[i] \in Seq(S)
         /\ h \in [0 .. Len(s) -> Seq(S)] /\ h[0] = << >>
         /\ \A i \in 1 .. Len(s) : h[i] = h[i - 1] \o s[i]
         /\ \A i \in 0 .. Len(s) : h[i] \in Seq(S)
<1>1. Len(s) \in Nat /\ \A i \in 1 .. Len(s) : s[i] \in Seq(S)
  BY Elementos
<1>2. /\ h \in [0 .. Len(s) -> Seq(S)] /\ h[0] = << >>
      /\ \A i \in 1 .. Len(s) : h[i] = h[i - 1] \o s[i]
  BY DEF Junta
<1>. QED  BY <1>1, <1>2

\* FlattenSeq is its last value.
LEMMA JuntaAplana ==
  ASSUME NEW S, NEW s \in Seq(Seq(S)), NEW h, Junta(s, Len(s), h, S)
  PROVE  FlattenSeq(s) = h[Len(s)] /\ FlattenSeq(s) \in Seq(S)
<1>. DEFINE n == Len(s)
            E(f) == f = [i \in 1 .. Len(s) |-> IF i = 1 THEN s[i] ELSE f[i - 1] \o s[i]]
<1>1. /\ n \in Nat /\ h \in [0 .. n -> Seq(S)] /\ h[0] = << >>
      /\ \A i \in 1 .. n : h[i] = h[i - 1] \o s[i]
      /\ \A i \in 1 .. n : s[i] \in Seq(S)
  BY JuntaPasos
<1>2. CASE n = 0
  <2>1. s = << >>
    BY <1>2, EmptySeq
  <2>2. FlattenSeq(s) = s
    BY <1>2 DEF FlattenSeq
  <2>. QED  BY <1>1, <1>2, <2>1, <2>2
<1>3. CASE n # 0
  <2>. DEFINE g == [i \in 1 .. n |-> h[i]]
  <2>1. h[1] = s[1]
    <3>1. 1 \in 1 .. n /\ 1 - 1 = 0
      BY <1>1, <1>3
    <3>2. h[1] = << >> \o s[1] /\ s[1] \in Seq(S)
      BY <1>1, <3>1
    <3>. QED  BY <3>2, VacioMas
  <2>2. E(g)
    <3>1. ASSUME NEW i \in 1 .. n PROVE g[i] = IF i = 1 THEN s[i] ELSE g[i - 1] \o s[i]
      <4>1. i # 1 => i - 1 \in 1 .. n
        BY <1>1
      <4>. QED  BY <1>1, <2>1, <4>1
    <3>2. g = [i \in 1 .. n |-> IF i = 1 THEN s[i] ELSE g[i - 1] \o s[i]]
      <4>1. g = [i \in 1 .. n |-> g[i]]
        OBVIOUS
      <4>. HIDE DEF g
      <4>. QED  BY <3>1, <4>1
    <3>. QED  BY <3>2
  <2>. DEFINE f == CHOOSE f : E(f)
  <2>3. E(f)
    BY <2>2
  <2>4. FlattenSeq(s) = f[n]
    BY <1>3 DEF FlattenSeq
  <2>. HIDE DEF f, g
  <2>5. \A i \in 1 .. n : f[i] = IF i = 1 THEN s[i] ELSE f[i - 1] \o s[i]
    BY <2>3
  <2>. DEFINE T == {i \in 0 .. n : i = 0 \/ f[i] = h[i]}
  <2>6. 0 \in T
    BY <1>1
  <2>7. ASSUME NEW i \in 1 .. n, i - 1 \in T PROVE i \in T
    <3>1. CASE i = 1
      <4>1. f[1] = s[1]
        BY <2>5, <3>1
      <4>. QED  BY <1>1, <2>1, <3>1, <4>1
    <3>2. CASE i # 1
      <4>1. f[i] = f[i - 1] \o s[i]
        BY <2>5, <3>2
      <4>2. f[i - 1] = h[i - 1]
        BY <2>7, <3>2
      <4>3. h[i] = h[i - 1] \o s[i]
        BY <1>1
      <4>4. f[i] = h[i]
        BY <4>1, <4>2, <4>3
      <4>. QED  BY <1>1, <4>4
    <3>. QED  BY <3>1, <3>2
  <2>. HIDE DEF T
  <2>8. \A i \in 0 .. n : i \in T
    BY <1>1, <2>6, <2>7, Hasta
  <2>9. n \in 0 .. n
    BY <1>1
  <2>10. f[n] = h[n]
    BY <1>3, <2>8, <2>9 DEF T
  <2>. QED  BY <1>1, <2>4, <2>9, <2>10
<1>. QED  BY <1>2, <1>3

\* A common prefix can be dropped.
LEMMA PrefijoUnico ==
  ASSUME NEW S, NEW a \in Seq(S), NEW b \in Seq(S), NEW c \in Seq(S), a \o b = a \o c
  PROVE  b = c
<1>1. b = SubSeq(a \o b, Len(a) + 1, Len(a \o b)) /\ c = SubSeq(a \o c, Len(a) + 1, Len(a \o c))
  BY Mitades
<1>. QED  BY <1>1

Asocia(S) == \A p, q, v \in Seq(S) : (p \o q) \o v = p \o (q \o v)

LEMMA AsociativaDe ==
  ASSUME NEW S
  PROVE  Asocia(S)
BY ConcatAssociative DEF Asocia

\* The first k lists are the beginning of them all.
Empieza(h, k, n, S) == \E r \in Seq(S) : h[n] = h[k] \o r

LEMMA JuntaPrefijo ==
  ASSUME NEW S, NEW s \in Seq(Seq(S)), NEW h, Junta(s, Len(s), h, S), NEW k \in 0 .. Len(s)
  PROVE  Empieza(h, k, Len(s), S)
<1>. DEFINE n == Len(s)
            Q(i) == i < k \/ \E r \in Seq(S) : h[i] = h[k] \o r
            T == {i \in 0 .. n : Q(i)}
<1>1. /\ n \in Nat /\ k \in 0 .. n /\ h \in [0 .. n -> Seq(S)] /\ h[0] = << >>
      /\ \A i \in 1 .. n : h[i] = h[i - 1] \o s[i]
      /\ \A i \in 1 .. n : s[i] \in Seq(S)
  BY JuntaPasos
<1>. HIDE DEF n
<1>2. k \in T
  <2>1. << >> \in Seq(S) /\ h[k] = h[k] \o << >>
    BY <1>1, VacioMas
  <2>. QED  BY <1>1, <2>1
<1>3. 0 \in T
  <2>1. CASE k = 0
    BY <1>2, <2>1
  <2>2. CASE k # 0
    BY <1>1, <2>2
  <2>. QED  BY <2>1, <2>2
<1>4. ASSUME NEW i \in 1 .. n, i - 1 \in T PROVE i \in T
  <2>1. CASE i < k
    BY <1>1, <2>1
  <2>2. CASE i = k
    BY <1>2, <2>2
  <2>3. CASE i > k
    <3>1. PICK r \in Seq(S) : h[i - 1] = h[k] \o r
      <4>1. ~(i - 1 < k)
        BY <1>1, <2>3
      <4>. QED  BY <1>4, <4>1
    <3>2. PICK a \in Seq(S) : a = h[k]
      BY <1>1
    <3>3. PICK b \in Seq(S) : b = s[i]
      BY <1>1
    <3>4. h[i] = (a \o r) \o b
      BY <1>1, <3>1, <3>2, <3>3
    <3>5. h[i] = a \o (r \o b) /\ r \o b \in Seq(S)
      <4>1. r \o b \in Seq(S)
        OBVIOUS
      <4>2. Asocia(S)
        BY AsociativaDe
      <4>3. (a \o r) \o b = a \o (r \o b)
        BY <4>2 DEF Asocia
      <4>. QED  BY <3>4, <4>1, <4>3
    <3>6. PICK z \in Seq(S) : z = r \o b
      BY <3>5
    <3>7. \E w \in Seq(S) : h[i] = h[k] \o w
      BY <3>2, <3>5, <3>6
    <3>8. i \in 0 .. n
      BY <1>1
    <3>9. Q(i)
      BY <3>7
    <3>. HIDE DEF Q
    <3>. QED  BY <3>8, <3>9
  <2>4. k \in Int /\ i \in Int
    BY <1>1
  <2>. HIDE DEF T
  <2>. QED  BY <2>1, <2>2, <2>3, <2>4
<1>. HIDE DEF T
<1>5. \A i \in 0 .. n : i \in T
  BY <1>1, <1>3, <1>4, Hasta
<1>6. n \in T /\ ~(n < k)
  BY <1>1, <1>5
<1>. QED  BY <1>6 DEF T, n, Empieza

\* What is after the first k lists begins with the next one, and is nothing after
\* the last.
Restos(s, h, S) ==
  \A k \in 0 .. Len(s) : \A r \in Seq(S) : h[Len(s)] = h[k] \o r =>
    /\ k = Len(s) => r = << >>
    /\ k # Len(s) => \E u \in Seq(S) : r = s[k + 1] \o u /\ h[Len(s)] = h[k + 1] \o u

LEMMA JuntaResto ==
  ASSUME NEW S, NEW s \in Seq(Seq(S)), NEW h, Junta(s, Len(s), h, S)
  PROVE  Restos(s, h, S)
<1>. SUFFICES ASSUME NEW k \in 0 .. Len(s), NEW r \in Seq(S), h[Len(s)] = h[k] \o r
     PROVE  /\ k = Len(s) => r = << >>
            /\ k # Len(s) => \E u \in Seq(S) : r = s[k + 1] \o u /\ h[Len(s)] = h[k + 1] \o u
  BY DEF Restos
<1>. DEFINE n == Len(s)
<1>1. /\ n \in Nat /\ k \in 0 .. n /\ h \in [0 .. n -> Seq(S)] /\ h[0] = << >>
      /\ \A i \in 1 .. n : h[i] = h[i - 1] \o s[i]
      /\ \A i \in 1 .. n : s[i] \in Seq(S)
  BY JuntaPasos
<1>2. ASSUME k = n PROVE r = << >>
  <2>1. h[n] \in Seq(S) /\ << >> \in Seq(S)
    <3>1. \A i \in 0 .. n : h[i] \in Seq(S)
      BY JuntaPasos
    <3>. HIDE DEF n
    <3>. QED  BY <1>1, <3>1
  <2>2. h[n] \o << >> = h[n] \o r
    BY <1>2, <2>1, VacioMas
  <2>. QED  BY <2>1, <2>2, PrefijoUnico
<1>3. ASSUME k # n PROVE \E u \in Seq(S) : r = s[k + 1] \o u /\ h[n] = h[k + 1] \o u
  <2>1. k + 1 \in 0 .. n /\ k + 1 \in 1 .. n /\ k + 1 - 1 = k
    BY <1>1, <1>3
  <2>2. PICK u \in Seq(S) : h[n] = h[k + 1] \o u
    <3>1. Empieza(h, k + 1, n, S)
      BY <2>1, JuntaPrefijo
    <3>. QED  BY <3>1 DEF Empieza
  <2>3. PICK a \in Seq(S) : a = h[k]
    BY <1>1, JuntaPasos
  <2>4. PICK b \in Seq(S) : b = s[k + 1]
    BY <1>1, <2>1
  <2>5. h[k + 1] = a \o b
    <3>. HIDE DEF n
    <3>1. PICK i \in 1 .. n : i = k + 1 /\ i - 1 = k
      BY <2>1
    <3>2. h[i] = h[i - 1] \o s[i]
      BY <1>1
    <3>. QED  BY <2>3, <2>4, <3>1, <3>2
  <2>6. (a \o b) \o u = a \o (b \o u) /\ b \o u \in Seq(S)
    <3>1. b \o u \in Seq(S)
      OBVIOUS
    <3>. QED  BY <3>1, ConcatAssociative
  <2>7. a \o r = a \o (b \o u)
    BY <2>2, <2>3, <2>5, <2>6
  <2>8. r = b \o u
    BY <2>6, <2>7, PrefijoUnico
  <2>. QED  BY <2>2, <2>4, <2>8
<1>. QED  BY <1>2, <1>3

\* Every element of a list is in them all.
Contiene(t, x) == \E p \in 1 .. Len(t) : t[p] = x

LEMMA JuntaContiene ==
  ASSUME NEW S, NEW s \in Seq(Seq(S)), NEW h, Junta(s, Len(s), h, S),
         NEW j \in 1 .. Len(s), NEW i \in 1 .. Len(s[j])
  PROVE  Contiene(h[Len(s)], s[j][i])
<1>. DEFINE n == Len(s)
<1>1. /\ n \in Nat /\ h \in [0 .. n -> Seq(S)] /\ j - 1 \in 0 .. n /\ j \in 0 .. n
      /\ h[j] = h[j - 1] \o s[j] /\ s[j] \in Seq(S)
  <2>1. n \in Nat /\ j - 1 \in 0 .. n /\ j \in 0 .. n
    OBVIOUS
  <2>. QED  BY <2>1, JuntaPasos
<1>2. PICK r \in Seq(S) : h[n] = h[j] \o r
  <2>1. j \in 0 .. Len(s)
    BY <1>1
  <2>2. Empieza(h, j, n, S)
    BY <2>1, JuntaPrefijo
  <2>. QED  BY <2>2 DEF Empieza
<1>. HIDE DEF n
<1>3. PICK a \in Seq(S) : a = h[j - 1]
  BY <1>1
<1>4. PICK b \in Seq(S) : b = s[j]
  BY <1>1
<1>5. h[n] = (a \o b) \o r /\ a \o b \in Seq(S)
  BY <1>1, <1>2, <1>3, <1>4
<1>6. Trozo(a \o b, Len(a), b)
  BY TrozoUne
<1>7. Trozo((a \o b) \o r, Len(a), b)
  <2>1. Len(a) \in Nat
    BY LenProperties
  <2>. QED  BY <1>5, <1>6, <2>1, TrozoSigue
<1>8. h[n][Len(a) + i] = b[i] /\ Len(a) + Len(b) <= Len(h[n])
  BY <1>4, <1>5, <1>7 DEF Trozo
<1>9. Len(a) \in Nat /\ Len(h[n]) \in Nat /\ Len(b) \in Nat
  BY <1>5, LenProperties
<1>10. Len(a) + i \in 1 .. Len(h[n])
  BY <1>4, <1>8, <1>9
<1>. QED  BY <1>4, <1>8, <1>10 DEF n, Contiene

-----------------------------------------------------------------------------
(* An iteration of the parser                                              *)

LEMMA CantParametros ==
  ASSUME NEW w
  PROVE  cantParametros(w) \in {0, 1, 2}
BY DEF cantParametros

LEMMA InstruccionTipo ==
  ASSUME NEW w, w[1] \in Nombres, NEW a \in Arg, NEW b \in Arg
  PROVE  Instruccion(w, a, b) \in Inst
<1>1. Letra(w) \in Byte
  BY DEF Letra, Nombres, Byte
<1>. QED  BY <1>1 DEF Instruccion, Inst

LEMMA Menos == -1 \in Arg
BY DEF Arg

LEMMA NumeroArg ==
  ASSUME NEW w \in Palabras
  PROVE  w[2] \in Arg /\ w[2] \in Nat
BY DEF Palabras, Arg

\* The parameters an iteration reads: those that are left, up to the operation's.
LEMMA LeidosSon ==
  ASSUME resto \in Seq(Palabras), resto # << >>, NEW n, n = cantParametros(resto[1])
  PROVE  /\ Operacion = resto[1] /\ Leidos \in Seq(Palabras)
         /\ Len(Leidos) = IF n + 1 <= Len(resto) THEN n ELSE Len(resto) - 1
         /\ \A j \in 1 .. Len(Leidos) : Leidos[j] = resto[j + 1]
<1>1. Len(resto) \in Nat /\ Len(resto) > 0 /\ n \in {0, 1, 2}
  BY EmptySeq, CantParametros
<1>2. Operacion = resto[1]
  BY <1>1 DEF Operacion
<1>3. PICK m \in Nat : m = (IF n + 1 <= Len(resto) THEN n + 1 ELSE Len(resto)) /\ m >= 1 /\ m <= Len(resto)
  BY <1>1
<1>4. Leidos = SubSeq(resto, 2, m)
  <2>1. Min({n + 1, Len(resto)}) = m
    BY <1>1, <1>3, MenorDeDos
  <2>. QED  BY <1>2, <2>1 DEF Leidos
<1>5. \A i \in 2 .. m : resto[i] \in Palabras
  BY <1>1, <1>3
<1>6. /\ SubSeq(resto, 2, m) \in Seq(Palabras)
      /\ Len(SubSeq(resto, 2, m)) = IF 2 <= m THEN m - 2 + 1 ELSE 0
      /\ \A i \in 1 .. m - 2 + 1 : SubSeq(resto, 2, m)[i] = resto[2 + i - 1]
  BY <1>3, <1>5, SubSeqProperties
<1>7. Len(SubSeq(resto, 2, m)) = m - 1
  BY <1>3, <1>6
<1>8. \A j \in 1 .. m - 1 : j \in 1 .. m - 2 + 1 /\ 2 + j - 1 = j + 1
  BY <1>3
<1>. QED  BY <1>1, <1>2, <1>3, <1>4, <1>6, <1>7, <1>8, SMTT(60)

\* A parameter that was read.
LEMMA ParametroEs ==
  ASSUME Leidos \in Seq(Palabras), NEW j \in {1, 2}, Len(Leidos) >= j
  PROVE  Parametro(j) = Leidos[j][2] /\ Parametro(j) \in Arg /\ Parametro(j) \in Nat
<1>1. Len(Leidos) \in Nat /\ Leidos # << >> /\ j \in 1 .. Len(Leidos)
  BY LenProperties
<1>2. Min({j, Len(Leidos)}) = j
  BY <1>1, MenorDeDos
<1>3. Leidos[j] \in Palabras
  BY <1>1
<1>. QED  BY <1>1, <1>2, <1>3, NumeroArg DEF Parametro

\* A line's numbers, -1 where it has none.
LEMMA NumerosSon ==
  ASSUME NEW l \in Seq(Palabras), l # << >>, NEW n, n = Numeros(l) \o <<-1, -1>>
  PROVE  /\ n[1] = IF Len(l) > 1 THEN l[2][2] ELSE -1
         /\ Len(l) <= 2 => n[2] = -1
         /\ Len(l) > 2 => n[2] = l[3][2]
<1>1. Len(l) \in Nat /\ Len(l) >= 1
  BY EmptySeq
<1>. DEFINE a == Numeros(l)
            k == Len(l) - 1
<1>2. a \in Seq(Arg) /\ Len(a) = k /\ k \in Nat /\ \A j \in 1 .. k : a[j] = l[j + 1][2]
  <2>1. a = [j \in 1 .. k |-> l[j + 1][2]]
    BY DEF Numeros
  <2>2. \A j \in 1 .. k : l[j + 1] \in Palabras
    BY <1>1
  <2>3. \A j \in 1 .. k : l[j + 1][2] \in Arg
    BY <2>2, NumeroArg
  <2>. QED  BY <1>1, <2>1, <2>3
<1>3. <<-1, -1>> \in Seq(Arg) /\ Len(<<-1, -1>>) = 2
  BY Menos
<1>. DEFINE b == <<-1, -1>>
<1>4. b[1] = -1 /\ b[2] = -1
  OBVIOUS
<1>. HIDE DEF a, b
<1>5. \A i \in 1 .. k + 2 : n[i] = IF i <= k THEN a[i] ELSE b[i - k]
  <2>1. \A i \in 1 .. Len(a) + Len(b) : (a \o b)[i] = IF i <= Len(a) THEN a[i] ELSE b[i - Len(a)]
    BY <1>2, <1>3, ConcatProperties DEF b
  <2>. QED  BY <1>2, <1>3, <2>1 DEF a, b
<1>6. n[1] = IF 1 <= k THEN a[1] ELSE b[1 - k]
  BY <1>2, <1>5
<1>7. n[2] = IF 2 <= k THEN a[2] ELSE b[2 - k]
  BY <1>2, <1>5
<1>8. Len(l) = k + 1 /\ k \in Nat
  BY <1>1, <1>2
<1>. HIDE DEF k
<1>9. CASE k = 0
  <2>1. n[1] = b[1] /\ n[2] = b[2]
    BY <1>6, <1>7, <1>9
  <2>. QED  BY <1>4, <1>8, <1>9, <2>1
<1>10. CASE k = 1
  <2>1. n[1] = a[1] /\ n[2] = b[1] /\ a[1] = l[2][2]
    BY <1>2, <1>6, <1>7, <1>10
  <2>. QED  BY <1>4, <1>8, <1>10, <2>1
<1>11. CASE k >= 2
  <2>1. n[1] = a[1] /\ n[2] = a[2] /\ a[1] = l[2][2] /\ a[2] = l[3][2]
    BY <1>2, <1>6, <1>7, <1>11
  <2>. QED  BY <1>8, <1>11, <2>1
<1>. QED  BY <1>8, <1>9, <1>10, <1>11

\* What a correct line means is a list of instructions.
LEMMA SignificadoTipo ==
  ASSUME NEW l \in Seq(Palabras), l # << >>, Correcta(l)
  PROVE  Significado(l) \in Seq(Inst)
<1>1. Len(l) = 1 + cantParametros(l[1]) /\ l[1][1] \in Nombres
  BY DEF Correcta
<1>2. PICK N : N = Numeros(l) \o <<-1, -1>>
  OBVIOUS
<1>3. /\ N[1] = IF Len(l) > 1 THEN l[2][2] ELSE -1
      /\ Len(l) <= 2 => N[2] = -1
      /\ Len(l) > 2 => N[2] = l[3][2]
  BY <1>2, NumerosSon
<1>4. Len(l) \in Nat /\ \A i \in 1 .. Len(l) : l[i][2] \in Arg /\ l[i][2] \in Nat
  <2>1. Len(l) \in Nat /\ \A i \in 1 .. Len(l) : l[i] \in Palabras
    BY Elementos
  <2>. QED  BY <2>1, NumeroArg
<1>5. N[1] \in Arg /\ N[2] \in Arg /\ (Len(l) > 1 => N[1] \in Nat)
  BY <1>3, <1>4, Menos
<1>6. ASSUME l[1][1] = "NO_OP" PROVE Significado(l) \in Seq(Inst)
  <2>1. Len(l) > 1
    BY <1>1, <1>6 DEF cantParametros
  <2>2. PICK x \in Inst : x = Instruccion(l[1], -1, -1)
    BY <1>1, Menos, InstruccionTipo
  <2>3. PICK m \in Nat : m = N[1]
    BY <1>5, <2>1
  <2>4. Significado(l) = [i \in 1 .. m |-> x]
    BY <1>2, <1>6, <2>2, <2>3 DEF Significado
  <2>. QED  BY <2>4
<1>7. ASSUME l[1][1] # "NO_OP" PROVE Significado(l) \in Seq(Inst)
  <2>1. Significado(l) = <<Instruccion(l[1], N[1], N[2])>>
    BY <1>2, <1>7 DEF Significado
  <2>2. Instruccion(l[1], N[1], N[2]) \in Inst
    BY <1>1, <1>5, InstruccionTipo
  <2>. QED  BY <2>1, <2>2
<1>. QED  BY <1>6, <1>7

\* A correct line adds what it means.
LEMMA IteraCorrecta ==
  ASSUME NEW l \in Seq(Palabras), l # << >>, Correcta(l), NEW u \in Seq(Palabras),
         resto = l \o u, NEW n, n = cantParametros(l[1])
  PROVE  /\ Operacion = l[1] /\ Valida /\ n \in {0, 1, 2}
         /\ Instrucciones = Significado(l) /\ Significado(l) \in Seq(Inst)
         /\ Len(resto) = 1 + n + Len(u) /\ SubSeq(resto, 1 + n + 1, Len(resto)) = u
<1>1. Len(l) = 1 + n /\ n \in {0, 1, 2} /\ l[1][1] \in Nombres /\ Len(u) \in Nat
  <2>1. Len(l) = 1 + n /\ l[1][1] \in Nombres
    BY DEF Correcta
  <2>. QED  BY <2>1, CantParametros, LenProperties
<1>2. /\ resto \in Seq(Palabras) /\ Len(resto) = 1 + n + Len(u)
      /\ \A i \in 1 .. 1 + n : resto[i] = l[i]
  <2>1. Trozo(resto, 0, l) /\ resto \in Seq(Palabras) /\ Len(resto) = Len(l) + Len(u)
    BY TrozoUne
  <2>2. \A i \in 1 .. 1 + n : 0 + i = i
    BY <1>1
  <2>. QED  BY <1>1, <2>1, <2>2 DEF Trozo
<1>3. resto # << >> /\ resto[1] = l[1] /\ n + 1 <= Len(resto)
  BY <1>1, <1>2, EmptySeq
<1>4. /\ Operacion = l[1] /\ Leidos \in Seq(Palabras) /\ Len(Leidos) = n
      /\ \A j \in 1 .. n : Leidos[j] = resto[j + 1]
  BY <1>2, <1>3, LeidosSon
<1>5. \A j \in 1 .. n : Leidos[j] = l[j + 1] /\ j + 1 \in 2 .. Len(l)
  <2>1. n \in Nat /\ Len(l) = 1 + n
    BY <1>1
  <2>2. ASSUME NEW j \in 1 .. n PROVE Leidos[j] = l[j + 1] /\ j + 1 \in 2 .. Len(l)
    <3>1. j + 1 \in 1 .. 1 + n /\ j + 1 \in 2 .. Len(l)
      BY <2>1
    <3>2. Leidos[j] = resto[j + 1] /\ resto[j + 1] = l[j + 1]
      BY <1>2, <1>4, <3>1
    <3>. QED  BY <3>1, <3>2
  <2>. QED  BY <2>2
<1>6. Valida
  <2>1. \A j \in 2 .. Len(l) : l[j][1] = "numero"
    BY DEF Correcta
  <2>2. DOMAIN Leidos = 1 .. n
    BY <1>4
  <2>3. \A j \in DOMAIN Leidos : Leidos[j][1] = "numero"
    BY <1>5, <2>1, <2>2
  <2>. QED  BY <1>1, <1>4, <2>3 DEF Valida
<1>7. n >= 1 => Parametro(1) = l[2][2] /\ l[2][2] \in Arg
  <2>1. ASSUME n >= 1 PROVE Leidos[1] = l[2]
    BY <1>1, <1>5, <2>1
  <2>. QED  BY <1>1, <1>4, <2>1, ParametroEs
<1>8. n = 2 => Parametro(2) = l[3][2] /\ l[3][2] \in Arg
  <2>1. ASSUME n = 2 PROVE Leidos[2] = l[3]
    BY <1>1, <1>5, <2>1
  <2>. QED  BY <1>1, <1>4, <2>1, ParametroEs
<1>9. PICK N : N = Numeros(l) \o <<-1, -1>>
  OBVIOUS
<1>10. /\ N[1] = IF n >= 1 THEN Parametro(1) ELSE -1
       /\ N[2] = IF n = 2 THEN Parametro(2) ELSE -1
       /\ N[1] \in Arg /\ N[2] \in Arg
  <2>1. /\ N[1] = IF Len(l) > 1 THEN l[2][2] ELSE -1
        /\ Len(l) <= 2 => N[2] = -1
        /\ Len(l) > 2 => N[2] = l[3][2]
    BY <1>9, NumerosSon
  <2>. QED  BY <1>1, <1>7, <1>8, <2>1, Menos
<1>11. ASSUME l[1][1] = "NO_OP" PROVE Instrucciones = Significado(l)
  <2>1. n = 1
    BY <1>11 DEF cantParametros
  <2>2. Instrucciones = [i \in 1 .. Parametro(1) |-> Instruccion(l[1], -1, -1)]
    BY <1>4, <1>11 DEF Instrucciones
  <2>3. Significado(l) = [i \in 1 .. N[1] |-> Instruccion(l[1], -1, -1)]
    BY <1>9, <1>11 DEF Significado
  <2>4. Parametro(1) = N[1]
    BY <1>10, <2>1
  <2>. QED  BY <2>2, <2>3, <2>4
<1>12. ASSUME l[1][1] # "NO_OP" PROVE Instrucciones = Significado(l)
  <2>1. Instrucciones = <<Instruccion(l[1], IF n >= 1 THEN Parametro(1) ELSE -1,
                                            IF n = 2 THEN Parametro(2) ELSE -1)>>
    BY <1>4, <1>12 DEF Instrucciones
  <2>2. Significado(l) = <<Instruccion(l[1], N[1], N[2])>>
    BY <1>9, <1>12 DEF Significado
  <2>. QED  BY <1>10, <2>1, <2>2
<1>13. SubSeq(resto, 1 + n + 1, Len(resto)) = u
  <2>1. SubSeq(l \o u, Len(l) + 1, Len(l \o u)) = u
    BY Mitades
  <2>. QED  BY <1>1, <2>1
<1>14. Significado(l) \in Seq(Inst)
  BY SignificadoTipo
<1>. QED  BY <1>1, <1>2, <1>4, <1>6, <1>11, <1>12, <1>13, <1>14

\* Of a line with an operation that is wrong: it is short, and the next one's first
\* word is no number; or it is long, and the next iteration finds a word that is no
\* operation; or it has a word that is no number.
LEMMA IteraMala ==
  ASSUME NEW l \in Seq(Palabras), l # << >>, ~Correcta(l), NEW u \in Seq(Palabras),
         resto = l \o u, Valida, NEW n, n = cantParametros(l[1]),
         Len(l) > n \/ (u # << >> /\ u[1][1] # "numero"),
         NEW r, r = SubSeq(resto, 1 + n + 1, Len(resto))
  PROVE  /\ n \in {0, 1, 2} /\ r # << >> /\ r \in Seq(Palabras) /\ Len(resto) > 1 + n
         /\ Len(l) > 1 + n /\ r[1] = l[n + 2]
<1>1. n \in {0, 1, 2} /\ Len(u) \in Nat /\ Len(l) \in Nat /\ Len(l) >= 1
  BY CantParametros, LenProperties, EmptySeq
<1>2. /\ resto \in Seq(Palabras) /\ Len(resto) = Len(l) + Len(u)
      /\ \A i \in 1 .. Len(l) : resto[i] = l[i]
      /\ \A i \in 1 .. Len(u) : resto[Len(l) + i] = u[i]
  <2>1. /\ Trozo(resto, 0, l) /\ Trozo(resto, Len(l), u)
        /\ resto \in Seq(Palabras) /\ Len(resto) = Len(l) + Len(u)
    BY TrozoUne
  <2>2. \A i \in 1 .. Len(l) : 0 + i = i
    BY <1>1
  <2>. QED  BY <1>1, <2>1, <2>2 DEF Trozo
<1>3. resto # << >> /\ resto[1] = l[1]
  BY <1>1, <1>2, EmptySeq
<1>4. /\ Operacion = l[1] /\ Leidos \in Seq(Palabras)
      /\ Len(Leidos) = IF n + 1 <= Len(resto) THEN n ELSE Len(resto) - 1
      /\ \A j \in 1 .. Len(Leidos) : Leidos[j] = resto[j + 1]
  BY <1>2, <1>3, LeidosSon
<1>5. l[1][1] \in Nombres /\ \A j \in 1 .. Len(Leidos) : resto[j + 1][1] = "numero"
  <2>1. DOMAIN Leidos = 1 .. Len(Leidos)
    BY <1>4
  <2>. QED  BY <1>4, <2>1 DEF Valida
<1>6. Len(l) > n
  <2>1. SUFFICES ASSUME Len(l) <= n, u # << >>, u[1][1] # "numero" PROVE FALSE
    BY <1>1
  <2>2. Len(u) >= 1 /\ resto[Len(l) + 1] = u[1]
    BY <1>1, <1>2, <2>1, EmptySeq
  <2>3. Len(l) \in 1 .. Len(Leidos)
    BY <1>1, <1>2, <1>4, <2>1, <2>2
  <2>. QED  BY <1>5, <2>1, <2>2, <2>3
<1>7. Len(l) # n + 1
  <2>1. SUFFICES ASSUME Len(l) = n + 1 PROVE FALSE
    OBVIOUS
  <2>2. \A j \in 2 .. Len(l) : l[j][1] = "numero"
    <3>1. \A j \in 2 .. Len(l) : j - 1 \in 1 .. Len(Leidos) /\ (j - 1) + 1 = j /\ resto[j] = l[j]
      <4>1. n \in Nat /\ Len(resto) >= n + 1 /\ Len(resto) \in Nat
        <5>1. n \in Nat
          BY <1>1
        <5>2. Len(resto) = (n + 1) + Len(u) /\ Len(u) \in Nat
          BY <1>1, <1>2, <2>1
        <5>3. PICK m \in Nat : m = n
          BY <5>1
        <5>4. PICK k \in Nat : k = Len(u)
          BY <5>2
        <5>5. Len(resto) = (m + 1) + k
          BY <5>2, <5>3, <5>4
        <5>6. Len(resto) \in Nat /\ Len(resto) >= m + 1
          BY <5>5
        <5>. QED  BY <5>1, <5>3, <5>6
      <4>2. Len(Leidos) = n
        BY <1>4, <4>1
      <4>3. \A j \in 2 .. Len(l) : j \in 1 .. Len(l) /\ j - 1 \in 1 .. n /\ (j - 1) + 1 = j
        BY <2>1, <4>1
      <4>. QED  BY <1>2, <4>2, <4>3
    <3>2. ASSUME NEW j \in 2 .. Len(l) PROVE l[j][1] = "numero"
      <4>1. resto[(j - 1) + 1][1] = "numero"
        BY <1>5, <3>1
      <4>. QED  BY <3>1, <4>1
    <3>. QED  BY <3>2
  <2>. QED  BY <1>1, <1>5, <2>1, <2>2 DEF Correcta
<1>8. Len(l) > 1 + n /\ Len(resto) > 1 + n /\ n \in Nat /\ Len(resto) \in Nat
  <2>1. n \in Nat
    BY <1>1
  <2>2. Len(l) > 1 + n
    BY <1>1, <1>6, <1>7, <2>1
  <2>. QED  BY <1>1, <1>2, <2>1, <2>2
<1>9. r \in Seq(Palabras) /\ Len(r) = Len(resto) - (1 + n) /\ r[1] = resto[1 + n + 1]
  <2>1. 1 + n \in 0 .. Len(resto) /\ 1 \in 1 .. Len(resto) - (1 + n)
    BY <1>1, <1>2, <1>8
  <2>. QED  BY <1>2, <2>1, Sufijo, SMTT(60)
<1>10. r # << >> /\ r[1] = l[n + 2]
  <2>1. 1 + n + 1 = n + 2 /\ n + 2 \in 1 .. Len(l) /\ Len(r) > 0
    <3>1. 1 + n + 1 = n + 2 /\ n + 2 \in 1 .. Len(l)
      BY <1>1, <1>8
    <3>2. Len(r) > 0
      BY <1>8, <1>9
    <3>. QED  BY <3>1, <3>2
  <2>2. r[1] = l[n + 2]
    BY <1>2, <1>9, <2>1
  <2>3. r # << >>
    <3>1. \A z \in Seq(Palabras) : z = << >> <=> Len(z) = 0
      BY EmptySeq
    <3>2. Len(r) # 0
      BY <2>1
    <3>3. r = << >> <=> Len(r) = 0
      BY <1>9, <3>1
    <3>. QED  BY <3>2, <3>3
  <2>. QED  BY <2>2, <2>3
<1>. QED  BY <1>1, <1>8, <1>9, <1>10

\* At the end of the file the last operation is read again, without parameters.
LEMMA IteraFin ==
  ASSUME resto = << >>, auxP[1] \in Nombres
  PROVE  /\ Valida /\ Operacion = auxP /\ Instrucciones \in Seq(Inst) /\ Len(Instrucciones) <= 1
         /\ Len(resto) < 1 + cantParametros(auxP)
<1>1. Operacion = auxP
  BY DEF Operacion
<1>2. Leidos = << >>
  <2>1. cantParametros(auxP) \in Nat /\ Len(resto) = 0
    BY CantParametros
  <2>2. Min({cantParametros(auxP) + 1, Len(resto)}) = 0
    BY <2>1, MenorDeDos
  <2>3. SubSeq(resto, 2, 0) = << >>
    OBVIOUS
  <2>. QED  BY <1>1, <2>2, <2>3 DEF Leidos
<1>3. \A j \in {1, 2} : Parametro(j) = 0
  BY <1>2 DEF Parametro
<1>4. 0 \in Arg /\ -1 \in Arg
  BY DEF Arg
<1>5. Instrucciones \in Seq(Inst) /\ Len(Instrucciones) <= 1
  <2>1. CASE auxP[1] = "NO_OP"
    <3>1. Instrucciones = [i \in 1 .. 0 |-> Instruccion(auxP, -1, -1)]
      BY <1>1, <1>3, <2>1 DEF Instrucciones
    <3>2. [i \in 1 .. 0 |-> Instruccion(auxP, -1, -1)] = << >>
      OBVIOUS
    <3>. QED  BY <3>1, <3>2
  <2>2. CASE auxP[1] # "NO_OP"
    <3>. DEFINE a == IF cantParametros(auxP) >= 1 THEN Parametro(1) ELSE -1
                b == IF cantParametros(auxP) = 2 THEN Parametro(2) ELSE -1
    <3>1. Instrucciones = <<Instruccion(auxP, a, b)>>
      BY <1>1, <2>2 DEF Instrucciones
    <3>2. a \in Arg /\ b \in Arg
      BY <1>3, <1>4
    <3>3. Instruccion(auxP, a, b) \in Inst
      BY <3>2, InstruccionTipo
    <3>. QED  BY <3>1, <3>3
  <2>. QED  BY <2>1, <2>2
<1>6. Valida
  BY <1>1, <1>2 DEF Valida
<1>7. Len(resto) < 1 + cantParametros(auxP)
  <2>1. cantParametros(auxP) \in Nat /\ Len(resto) = 0
    BY CantParametros
  <2>. QED  BY <2>1
<1>. QED  BY <1>1, <1>5, <1>6, <1>7

-----------------------------------------------------------------------------
(* The parser                                                              *)

\* What the lines of the file mean, and whether they are all correct.
Sentido == [j \in DOMAIN archivo.fuente |-> Significado(archivo.fuente[j])]
Correctas == \A j \in DOMAIN archivo.fuente : Correcta(archivo.fuente[j])

\* The first k lines, all correct, have been read.
Leido(k) ==
  /\ \A j \in 1 .. k : Correcta(archivo.fuente[j])
  /\ resto \in Seq(Palabras)
  /\ \E g : /\ Junta(archivo.fuente, Len(archivo.fuente), g, Palabras)
            /\ archivo.palabras = g[k] \o resto
  /\ \E h : Junta(Sentido, k, h, Inst) /\ codigo = h[k]
  /\ k > 0 => auxP = archivo.fuente[k][1]

\* They all have, and perhaps the last one's operation once more.
Analizado ==
  /\ eof /\ Correctas
  /\ \E i \in Seq(Inst) : Len(i) <= 1 /\ codigo = Lista(archivo) \o i

\* The parser has exited; or it is about to, at a word that is no operation; or it is
\* at the beginning of a line; or it is done.
Analiza ==
  /\ archivo \in Archivos /\ tamanio \in Tamanios
  /\ \/ consola = "error"
     \/ consola = "parser" /\ ~eof /\ resto # << >> /\ resto[1][1] \notin Nombres
     \/ consola = "parser" /\ ~eof /\ \E k \in 0 .. Len(archivo.fuente) : Leido(k)
     \/ consola \in {"parser", "espera", "exito", "muerta"} /\ Analizado

\* The assumptions on a file, each of a line.
LEMMA ArchivoTipo ==
  ASSUME NEW a \in Archivos, NEW F, F = a.fuente
  PROVE  /\ F \in Seq(Seq(Palabras)) /\ Len(F) \in Nat /\ Len(F) > 0
         /\ a.palabras = FlattenSeq(F) /\ a.salto \in BOOLEAN
         /\ \A j \in 1 .. Len(F) : /\ F[j] \in Seq(Palabras) /\ F[j] # << >> /\ F[j][1][1] # "numero"
                                   /\ \A i \in 2 .. Len(F[j]) : F[j][i][1] \notin Nombres
         /\ \E j \in 1 .. Len(F) : F[j][1][1] = "EXIT"
         /\ F[Len(F)][1][1] \in Nombres => Len(F[Len(F)]) > cantParametros(F[Len(F)][1])
<1>1. /\ a.salto \in BOOLEAN /\ F \in Seq(Seq(Palabras)) /\ a.palabras = FlattenSeq(F)
  BY ArchivosAssumption
<1>2. /\ Len(F) \in Nat /\ DOMAIN F = 1 .. Len(F) /\ \A j \in 1 .. Len(F) : F[j] \in Seq(Palabras)
  <2>1. DOMAIN F = 1 .. Len(F)
    BY <1>1
  <2>. QED  BY <1>1, <2>1, Elementos
<1>3. /\ \A j \in DOMAIN F : /\ F[j] # << >> /\ F[j][1][1] # "numero"
                             /\ \A i \in 2 .. Len(F[j]) : F[j][i][1] \notin Nombres
      /\ \E j \in DOMAIN F : F[j][1][1] = "EXIT"
      /\ Last(F)[1][1] \in Nombres => Len(Last(F)) > cantParametros(Last(F)[1])
  BY FuentesAssumption
<1>4. Last(F) = F[Len(F)]
  BY DEF Last
<1>5. Len(F) > 0
  BY <1>2, <1>3
<1>. QED  BY <1>1, <1>2, <1>3, <1>4, <1>5

LEMMA SentidoTipo ==
  ASSUME archivo \in Archivos, Correctas
  PROVE  Sentido \in Seq(Seq(Inst)) /\ Len(Sentido) = Len(archivo.fuente)
<1>. DEFINE F == archivo.fuente
<1>1. /\ F \in Seq(Seq(Palabras)) /\ Len(F) \in Nat
      /\ \A j \in 1 .. Len(F) : F[j] \in Seq(Palabras) /\ F[j] # << >>
  BY ArchivoTipo
<1>2. DOMAIN F = 1 .. Len(F)
  BY <1>1
<1>3. \A j \in 1 .. Len(F) : Significado(F[j]) \in Seq(Inst)
  BY <1>1, <1>2, SignificadoTipo DEF Correctas
<1>4. Sentido = [j \in 1 .. Len(F) |-> Significado(F[j])]
  BY <1>2 DEF Sentido
<1>. HIDE DEF F
<1>5. PICK n \in Nat : n = Len(F)
  BY <1>1
<1>6. Sentido \in [1 .. n -> Seq(Inst)]
  BY <1>3, <1>4, <1>5
<1>7. Sentido \in Seq(Seq(Inst)) /\ Len(Sentido) = n
  <2>1. \A T : \A f \in [1 .. n -> T] : f \in Seq(T) /\ Len(f) = n
    OBVIOUS
  <2>. QED  BY <1>6, <2>1
<1>. QED  BY <1>5, <1>7 DEF F

LEMMA AnalizaInicial == Init => Analiza
<1>. SUFFICES ASSUME Init PROVE Analiza
  OBVIOUS
<1>. DEFINE F == archivo.fuente
<1>1. /\ archivo \in Archivos /\ tamanio \in Tamanios /\ resto = archivo.palabras /\ ~eof
      /\ codigo = << >> /\ consola = "parser"
  BY DEF Init
<1>2. F \in Seq(Seq(Palabras)) /\ Len(F) \in Nat /\ archivo.palabras = FlattenSeq(F)
  BY <1>1, ArchivoTipo
<1>3. PICK g : Junta(F, Len(F), g, Palabras)
  BY <1>2, JuntaHay
<1>4. FlattenSeq(F) = g[Len(F)] /\ FlattenSeq(F) \in Seq(Palabras) /\ g[0] = << >>
  BY <1>2, <1>3, JuntaAplana, JuntaPasos
<1>5. archivo.palabras = g[0] \o resto /\ resto \in Seq(Palabras)
  BY <1>1, <1>2, <1>4, VacioMas
<1>6. \E h : Junta(Sentido, 0, h, Inst) /\ codigo = h[0]
  <2>. DEFINE h == [i \in 0 .. 0 |-> << >>]
  <2>1. Junta(Sentido, 0, h, Inst) /\ codigo = h[0]
    BY <1>1 DEF Junta
  <2>. QED  BY <2>1
<1>7. Leido(0)
  <2>1. \E f : /\ Junta(archivo.fuente, Len(archivo.fuente), f, Palabras)
               /\ archivo.palabras = f[0] \o resto
    BY <1>3, <1>5
  <2>2. \A j \in 1 .. 0 : Correcta(archivo.fuente[j])
    OBVIOUS
  <2>3. ~(0 > 0)
    OBVIOUS
  <2>. QED  BY <1>5, <1>6, <2>1, <2>2, <2>3 DEF Leido
<1>8. 0 \in 0 .. Len(F)
  BY <1>2
<1>. QED  BY <1>1, <1>7, <1>8 DEF Analiza

\* The next line is correct.
LEMMA AnalizaCorrecta ==
  ASSUME ParserItera, archivo \in Archivos, tamanio \in Tamanios,
         NEW k \in 0 .. Len(archivo.fuente), Leido(k), k # Len(archivo.fuente),
         Correcta(archivo.fuente[k + 1])
  PROVE  Analiza'
<1>. DEFINE F == archivo.fuente
            l == F[k + 1]
            n == cantParametros(l[1])
<1>1. /\ F \in Seq(Seq(Palabras)) /\ Len(F) \in Nat
      /\ \A j \in 1 .. Len(F) : F[j] \in Seq(Palabras) /\ F[j] # << >>
  BY ArchivoTipo
<1>2. k \in Nat /\ k + 1 \in 1 .. Len(F) /\ k + 1 \in 0 .. Len(F) /\ k + 1 - 1 = k
  BY <1>1
<1>3. l \in Seq(Palabras) /\ l # << >> /\ Correcta(l)
  BY <1>1, <1>2
<1>4. PICK g : Junta(F, Len(F), g, Palabras) /\ archivo.palabras = g[k] \o resto
  BY DEF Leido
<1>5. archivo.palabras = g[Len(F)]
  <2>1. archivo.palabras = FlattenSeq(F)
    BY ArchivoTipo
  <2>2. FlattenSeq(F) = g[Len(F)]
    BY <1>1, <1>4, JuntaAplana
  <2>. QED  BY <2>1, <2>2
<1>0. Restos(F, g, Palabras)
  BY <1>1, <1>4, JuntaResto
<1>6. PICK u \in Seq(Palabras) : resto = l \o u /\ g[Len(F)] = g[k + 1] \o u
  <2>1. resto \in Seq(Palabras) /\ g[Len(F)] = g[k] \o resto
    BY <1>4, <1>5 DEF Leido
  <2>2. k # Len(F)
    OBVIOUS
  <2>. HIDE DEF F
  <2>3. \E u \in Seq(Palabras) : resto = F[k + 1] \o u /\ g[Len(F)] = g[k + 1] \o u
    <3>1. k \in 0 .. Len(F)
      BY DEF F
    <3>. QED  BY <1>0, <2>1, <2>2, <3>1 DEF Restos
  <2>. QED  BY <2>3
<1>7. /\ Operacion = l[1] /\ Valida /\ n \in {0, 1, 2}
      /\ Instrucciones = Significado(l) /\ Significado(l) \in Seq(Inst)
      /\ Len(resto) = 1 + n + Len(u) /\ SubSeq(resto, 1 + n + 1, Len(resto)) = u
  BY <1>3, <1>6, IteraCorrecta
<1>8. /\ archivo' = archivo /\ tamanio' = tamanio /\ consola' = consola /\ consola = "parser"
      /\ codigo' = codigo \o Significado(l) /\ resto' = u /\ auxP' = l[1]
      /\ eof' = (Len(resto) < 1 + n \/ (Len(resto) = 1 + n /\ ~archivo.salto))
  BY <1>7 DEF ParserItera
<1>9. PICK h : Junta(Sentido, k, h, Inst) /\ codigo = h[k]
  BY DEF Leido
<1>10. \A j \in 1 .. k + 1 : Correcta(F[j])
  <2>1. \A j \in 1 .. k : Correcta(F[j])
    BY DEF Leido
  <2>2. \A j \in 1 .. k + 1 : j \in 1 .. k \/ j = k + 1
    BY <1>2
  <2>. QED  BY <1>3, <2>1, <2>2
<1>. HIDE DEF n
<1>11. Sentido[k + 1] = Significado(l)
  <2>1. k + 1 \in DOMAIN F
    BY <1>1, <1>2
  <2>. QED  BY <2>1 DEF Sentido
<1>12. PICK f : Junta(Sentido, k + 1, f, Inst) /\ codigo' = f[k + 1]
  <2>1. h \in [0 .. k -> Seq(Inst)] /\ h[0] = << >> /\ \A i \in 1 .. k : h[i] = h[i - 1] \o Sentido[i]
    BY <1>9 DEF Junta
  <2>2. PICK x \in Seq(Inst) : x = Significado(l)
    BY <1>7
  <2>3. h[k] \in Seq(Inst)
    BY <1>2, <2>1
  <2>4. PICK y \in Seq(Inst) : y = h[k] \o x
    <3>1. PICK w \in Seq(Inst) : w = h[k]
      BY <2>3
    <3>2. w \o x \in Seq(Inst)
      OBVIOUS
    <3>. QED  BY <3>1, <3>2
  <2>. DEFINE f == [i \in 0 .. k + 1 |-> IF i = k + 1 THEN y ELSE h[i]]
  <2>5. \A i \in 0 .. k + 1 : i # k + 1 => i \in 0 .. k
    BY <1>2
  <2>6. f \in [0 .. k + 1 -> Seq(Inst)]
    BY <2>1, <2>5
  <2>7. f[0] = << >> /\ f[k + 1] = y /\ \A i \in 0 .. k : f[i] = h[i]
    BY <1>2, <2>1
  <2>. HIDE DEF f
  <2>8. ASSUME NEW i \in 1 .. k + 1 PROVE f[i] = f[i - 1] \o Sentido[i]
    <3>1. CASE i = k + 1
      <4>1. i - 1 = k /\ k \in 0 .. k
        BY <1>2, <3>1
      <4>2. f[i - 1] = h[k]
        BY <2>7, <4>1
      <4>. QED  BY <1>11, <2>2, <2>4, <2>7, <3>1, <4>2
    <3>2. CASE i # k + 1
      <4>1. i \in 1 .. k /\ i \in 0 .. k /\ i - 1 \in 0 .. k
        BY <1>2, <3>2
      <4>2. f[i] = h[i] /\ f[i - 1] = h[i - 1]
        BY <2>7, <4>1
      <4>. QED  BY <2>1, <4>1, <4>2
    <3>. QED  BY <3>1, <3>2
  <2>9. Junta(Sentido, k + 1, f, Inst)
    BY <2>6, <2>7, <2>8 DEF Junta
  <2>10. codigo' = f[k + 1]
    BY <1>8, <1>9, <2>2, <2>4, <2>7
  <2>. QED  BY <2>9, <2>10
<1>13. CASE ~eof'
  <2>1. Sentido' = Sentido
    BY <1>8 DEF Sentido
  <2>2. resto' \in Seq(Palabras) /\ archivo.palabras = g[k + 1] \o resto'
    BY <1>5, <1>6, <1>8
  <2>3. Leido(k + 1)'
    BY <1>4, <1>8, <1>10, <1>12, <2>1, <2>2 DEF Leido
  <2>. QED  BY <1>2, <1>8, <1>13, <2>3 DEF Analiza
<1>14. CASE eof'
  <2>1. u = << >>
    <3>1. Len(resto) <= 1 + n
      <4>1. Len(resto) < 1 + n \/ Len(resto) = 1 + n
        BY <1>8, <1>14
      <4>2. n \in Nat /\ Len(resto) \in Nat
        BY <1>6, <1>7, LenProperties
      <4>. QED  BY <4>1, <4>2
    <3>2. Len(u) = 0
      <4>1. n \in Nat /\ Len(u) \in Nat
        BY <1>7, LenProperties
      <4>. QED  BY <1>7, <3>1, <4>1
    <3>. QED  BY <3>2, EmptySeq
  <2>2. k + 1 = Len(F)
    <3>1. SUFFICES ASSUME k + 1 # Len(F) PROVE FALSE
      OBVIOUS
    <3>2. PICK v \in Seq(Palabras) : u = F[k + 1 + 1] \o v
      <4>. HIDE DEF F
      <4>. QED  BY <1>2, <1>0, <1>6, <3>1 DEF Restos
    <3>3. k + 1 + 1 \in 1 .. Len(F)
      BY <1>1, <1>2, <3>1
    <3>4. PICK z \in Seq(Palabras) : z = F[k + 1 + 1] /\ z # << >>
      BY <1>1, <3>3
    <3>5. Len(z \o v) = Len(z) + Len(v) /\ Len(z) \in Nat /\ Len(v) \in Nat /\ Len(z) # 0
      BY <3>4, LenProperties, ConcatProperties, EmptySeq
    <3>6. Len(u) = 0
      BY <2>1
    <3>. QED  BY <3>2, <3>4, <3>5, <3>6
  <2>3. Correctas
    <3>1. DOMAIN F = 1 .. Len(F)
      BY <1>1
    <3>. QED  BY <1>10, <2>2, <3>1 DEF Correctas
  <2>4. codigo' = Lista(archivo) /\ codigo' \in Seq(Inst)
    <3>1. Sentido \in Seq(Seq(Inst)) /\ Len(Sentido) = Len(F)
      BY <2>3, SentidoTipo
    <3>2. FlattenSeq(Sentido) = f[Len(Sentido)] /\ FlattenSeq(Sentido) \in Seq(Inst)
      BY <1>12, <2>2, <3>1, JuntaAplana
    <3>3. Lista(archivo) = FlattenSeq(Sentido)
      BY DEF Lista, Sentido
    <3>. QED  BY <1>12, <2>2, <3>1, <3>2, <3>3
  <2>5. Lista(archivo)' = Lista(archivo) /\ Correctas'
    BY <1>8, <2>3 DEF Lista, Correctas
  <2>6. << >> \in Seq(Inst) /\ Len(<< >>) <= 1 /\ codigo' = Lista(archivo)' \o << >>
    <3>1. codigo' \o << >> = codigo'
      BY <2>4, VacioMas
    <3>2. << >> \in Seq(Inst) /\ Len(<< >>) <= 1
      OBVIOUS
    <3>. QED  BY <2>4, <2>5, <3>1, <3>2
  <2>7. Analizado'
    BY <1>14, <2>5, <2>6 DEF Analizado
  <2>. QED  BY <1>8, <2>7 DEF Analiza
<1>. QED  BY <1>13, <1>14

\* What is left after k lines: nothing after the last, and otherwise the next line
\* and, unless it is the last one, the first word of the line after it.
LEMMA LeidoResto ==
  ASSUME archivo \in Archivos, NEW F, F = archivo.fuente, NEW k \in 0 .. Len(F), Leido(k)
  PROVE  /\ k = Len(F) => resto = << >>
         /\ k # Len(F) => \E u \in Seq(Palabras) :
              /\ resto = F[k + 1] \o u
              /\ k + 1 # Len(F) => u # << >> /\ u[1] = F[k + 1 + 1][1]
<1>1. /\ F \in Seq(Seq(Palabras)) /\ Len(F) \in Nat /\ archivo.palabras = FlattenSeq(F)
      /\ \A j \in 1 .. Len(F) : F[j] \in Seq(Palabras) /\ F[j] # << >>
  BY ArchivoTipo
<1>2. PICK g : Junta(F, Len(F), g, Palabras) /\ archivo.palabras = g[k] \o resto
  BY DEF Leido
<1>3. FlattenSeq(F) = g[Len(F)]
  BY <1>1, <1>2, JuntaAplana
<1>4. Restos(F, g, Palabras)
  BY <1>1, <1>2, JuntaResto
<1>5. PICK R \in Seq(Palabras) : R = resto /\ g[Len(F)] = g[k] \o R
  BY <1>1, <1>2, <1>3 DEF Leido
<1>6. k = Len(F) => resto = << >>
  BY <1>4, <1>5 DEF Restos
<1>7. ASSUME k # Len(F)
      PROVE  \E u \in Seq(Palabras) :
               /\ resto = F[k + 1] \o u
               /\ k + 1 # Len(F) => u # << >> /\ u[1] = F[k + 1 + 1][1]
  <2>1. PICK u \in Seq(Palabras) : R = F[k + 1] \o u /\ g[Len(F)] = g[k + 1] \o u
    BY <1>4, <1>5, <1>7 DEF Restos
  <2>2. k + 1 \in 0 .. Len(F)
    BY <1>1, <1>7
  <2>3. ASSUME k + 1 # Len(F) PROVE u # << >> /\ u[1] = F[k + 1 + 1][1]
    <3>1. PICK v \in Seq(Palabras) : u = F[k + 1 + 1] \o v
      BY <1>4, <2>1, <2>2, <2>3 DEF Restos
    <3>2. k + 1 + 1 \in 1 .. Len(F)
      BY <1>1, <2>2, <2>3
    <3>3. PICK z \in Seq(Palabras) : z = F[k + 1 + 1] /\ z # << >>
      BY <1>1, <3>2
    <3>4. Trozo(z \o v, 0, z) /\ Len(z \o v) = Len(z) + Len(v)
      BY TrozoUne
    <3>5. Len(z) \in Nat /\ Len(z) > 0 /\ Len(v) \in Nat
      BY <3>3, EmptySeq, LenProperties
    <3>6. (z \o v)[1] = z[1] /\ Len(z \o v) # 0
      BY <3>4, <3>5 DEF Trozo
    <3>7. u # << >>
      BY <3>1, <3>3, <3>6, EmptySeq
    <3>. QED  BY <3>1, <3>3, <3>6, <3>7
  <2>. QED  BY <1>5, <2>1, <2>3
<1>. QED  BY <1>6, <1>7

\* The next line is wrong, and the iteration does not see it.
LEMMA AnalizaMala ==
  ASSUME ParserItera, Valida, archivo \in Archivos, tamanio \in Tamanios,
         NEW k \in 0 .. Len(archivo.fuente), Leido(k), k # Len(archivo.fuente),
         ~Correcta(archivo.fuente[k + 1])
  PROVE  Analiza'
<1>1. PICK F : F = archivo.fuente
  OBVIOUS
<1>2. /\ Len(F) \in Nat
      /\ \A j \in 1 .. Len(F) : /\ F[j] \in Seq(Palabras) /\ F[j] # << >> /\ F[j][1][1] # "numero"
                                /\ \A i \in 2 .. Len(F[j]) : F[j][i][1] \notin Nombres
      /\ F[Len(F)][1][1] \in Nombres => Len(F[Len(F)]) > cantParametros(F[Len(F)][1])
  BY <1>1, ArchivoTipo
<1>3. k \in 0 .. Len(F) /\ k # Len(F) /\ k + 1 \in 1 .. Len(F)
  BY <1>1, <1>2
<1>4. PICK l \in Seq(Palabras) : l = F[k + 1]
  BY <1>2, <1>3
<1>5. /\ l # << >> /\ ~Correcta(l) /\ \A i \in 2 .. Len(l) : l[i][1] \notin Nombres
  BY <1>1, <1>2, <1>3, <1>4
<1>6. PICK u \in Seq(Palabras) :
        /\ resto = l \o u
        /\ k + 1 # Len(F) => u # << >> /\ u[1] = F[k + 1 + 1][1]
  BY <1>1, <1>3, <1>4, LeidoResto
<1>7. PICK n : n = cantParametros(l[1])
  OBVIOUS
<1>8. Operacion = l[1] /\ l[1][1] \in Nombres
  <2>1. Trozo(resto, 0, l) /\ Len(l) \in Nat /\ Len(l) > 0 /\ Len(resto) = Len(l) + Len(u) /\ Len(u) \in Nat
    BY <1>5, <1>6, TrozoUne, EmptySeq, LenProperties
  <2>2. Len(resto) # 0 /\ Head(resto) = resto[1] /\ resto[1] = l[1]
    BY <2>1 DEF Trozo
  <2>3. resto # << >>
    BY <2>2
  <2>4. Operacion = l[1]
    BY <2>2, <2>3 DEF Operacion
  <2>. QED  BY <2>4 DEF Valida
<1>9. Len(l) > n \/ (u # << >> /\ u[1][1] # "numero")
  <2>1. CASE k + 1 = Len(F)
    BY <1>2, <1>4, <1>7, <1>8, <2>1
  <2>2. CASE k + 1 # Len(F)
    <3>1. k + 1 + 1 \in 1 .. Len(F)
      BY <1>2, <1>3, <2>2
    <3>. QED  BY <1>2, <1>6, <2>2, <3>1
  <2>. QED  BY <2>1, <2>2
<1>10. PICK r : r = SubSeq(resto, 1 + n + 1, Len(resto))
  OBVIOUS
<1>11. /\ n \in {0, 1, 2} /\ r # << >> /\ r \in Seq(Palabras) /\ Len(resto) > 1 + n
       /\ Len(l) > 1 + n /\ r[1] = l[n + 2]
  <2>1. resto = l \o u
    BY <1>6
  <2>2. l # << >> /\ ~Correcta(l)
    BY <1>5
  <2>. QED  BY <1>7, <1>9, <1>10, <2>1, <2>2, IteraMala, ZenonT(150)
<1>12. /\ archivo' = archivo /\ tamanio' = tamanio /\ consola' = consola /\ consola = "parser"
       /\ resto' = r /\ eof' = (Len(resto) < 1 + n \/ (Len(resto) = 1 + n /\ ~archivo.salto))
  BY <1>7, <1>8, <1>10 DEF ParserItera
<1>13. Len(resto) \in Nat /\ Len(l) \in Nat /\ n \in Nat
  <2>1. resto \in Seq(Palabras)
    BY DEF Leido
  <2>. QED  BY <1>11, <2>1, LenProperties
<1>14. ~eof'
  <2>1. PICK m \in Nat : m = Len(resto)
    BY <1>13
  <2>2. m > 1 + n /\ eof' = (m < 1 + n \/ (m = 1 + n /\ ~archivo.salto))
    BY <1>11, <1>12, <2>1
  <2>3. ~(m < 1 + n) /\ ~(m = 1 + n)
    BY <1>13, <2>2
  <2>. QED  BY <2>2, <2>3
<1>15. n + 2 \in 2 .. Len(l)
  BY <1>11, <1>13
<1>16. r[1][1] \notin Nombres
  BY <1>5, <1>11, <1>15
<1>. QED  BY <1>11, <1>12, <1>14, <1>16 DEF Analiza

\* The last operation once more.
LEMMA AnalizaFin ==
  ASSUME ParserItera, archivo \in Archivos, tamanio \in Tamanios,
         Leido(Len(archivo.fuente))
  PROVE  Analiza'
<1>1. PICK F : F = archivo.fuente
  OBVIOUS
<1>2. /\ Len(F) \in Nat /\ Len(F) > 0 /\ F \in Seq(Seq(Palabras)) /\ Len(F) \in 0 .. Len(F) /\ Len(F) \in 1 .. Len(F)
      /\ DOMAIN F = 1 .. Len(F)
  <2>1. Len(F) \in Nat /\ Len(F) > 0 /\ F \in Seq(Seq(Palabras))
    BY <1>1, ArchivoTipo
  <2>2. DOMAIN F = 1 .. Len(F)
    BY <2>1
  <2>. QED  BY <2>1, <2>2
<1>3. resto = << >>
  BY <1>1, <1>2, LeidoResto
<1>4. Correctas
  <2>1. \A j \in 1 .. Len(F) : Correcta(F[j])
    BY <1>1 DEF Leido
  <2>. QED  BY <1>1, <1>2, <2>1 DEF Correctas
<1>5. auxP = F[Len(F)][1] /\ auxP[1] \in Nombres
  <2>1. auxP = F[Len(F)][1] /\ Correcta(F[Len(F)])
    BY <1>1, <1>2 DEF Leido
  <2>. QED  BY <2>1 DEF Correcta
<1>6. /\ Valida /\ Operacion = auxP /\ Instrucciones \in Seq(Inst) /\ Len(Instrucciones) <= 1
      /\ Len(resto) < 1 + cantParametros(auxP)
  BY <1>3, <1>5, IteraFin
<1>7. /\ archivo' = archivo /\ tamanio' = tamanio /\ consola' = consola /\ consola = "parser"
      /\ codigo' = codigo \o Instrucciones /\ eof'
  BY <1>6 DEF ParserItera
<1>8. codigo = Lista(archivo)
  <2>1. Sentido \in Seq(Seq(Inst)) /\ Len(Sentido) = Len(F)
    BY <1>1, <1>4, SentidoTipo
  <2>2. PICK h : Junta(Sentido, Len(F), h, Inst) /\ codigo = h[Len(F)]
    BY <1>1 DEF Leido
  <2>3. FlattenSeq(Sentido) = h[Len(Sentido)]
    BY <2>1, <2>2, JuntaAplana
  <2>4. Lista(archivo) = FlattenSeq(Sentido)
    BY DEF Lista, Sentido
  <2>. QED  BY <2>1, <2>2, <2>3, <2>4
<1>9. Lista(archivo)' = Lista(archivo) /\ Correctas'
  BY <1>4, <1>7 DEF Lista, Correctas
<1>10. Analizado'
  <2>1. codigo' = Lista(archivo)' \o Instrucciones
    BY <1>7, <1>8, <1>9
  <2>. QED  BY <1>6, <1>7, <1>9, <2>1 DEF Analizado
<1>. QED  BY <1>7, <1>10 DEF Analiza

\* Every iteration.
LEMMA AnalizaParser ==
  ASSUME Analiza, ParserItera
  PROVE  Analiza'
<1>1. archivo \in Archivos /\ tamanio \in Tamanios /\ consola = "parser" /\ ~eof
  BY DEF Analiza, ParserItera
<1>2. CASE ~Valida
  BY <1>1, <1>2 DEF ParserItera, Analiza
<1>3. CASE Valida
  <2>1. CASE resto # << >> /\ resto[1][1] \notin Nombres
    <3>1. Operacion = Head(resto)
      BY <2>1 DEF Operacion
    <3>2. Head(resto) = resto[1]
      OBVIOUS
    <3>. QED  BY <1>3, <2>1, <3>1, <3>2 DEF Valida
  <2>2. ASSUME NEW k \in 0 .. Len(archivo.fuente), Leido(k) PROVE Analiza'
    <3>1. CASE k = Len(archivo.fuente)
      BY <1>1, <2>2, <3>1, AnalizaFin
    <3>2. CASE k # Len(archivo.fuente)
      BY <1>1, <1>3, <2>2, <3>2, AnalizaCorrecta, AnalizaMala
    <3>. QED  BY <3>1, <3>2
  <2>. QED  BY <1>1, <2>1, <2>2 DEF Analiza, Analizado
<1>. QED  BY <1>2, <1>3

\* Only the parser changes what it has read and built.
LEMMA AnalizaQuieta ==
  ASSUME Analiza, UNCHANGED parserVars,
         \/ consola' = consola
         \/ consola \in {"parser", "espera"} /\ eof /\ consola' \in {"error", "espera", "exito", "muerta"}
  PROVE  Analiza'
<1>1. /\ archivo' = archivo /\ tamanio' = tamanio /\ resto' = resto /\ eof' = eof /\ auxP' = auxP
      /\ codigo' = codigo
  BY DEF parserVars
<1>2. Analizado => Analizado'
  BY <1>1 DEF Analizado, Correctas, Lista
<1>3. \A k : Leido(k) => Leido(k)'
  BY <1>1 DEF Leido, Sentido
<1>4. CASE consola' = consola
  BY <1>1, <1>2, <1>3, <1>4 DEF Analiza
<1>5. CASE consola \in {"parser", "espera"} /\ eof /\ consola' \in {"error", "espera", "exito", "muerta"}
  BY <1>1, <1>2, <1>5 DEF Analiza
<1>. QED  BY <1>4, <1>5

LEMMA AnalizaSigue ==
  ASSUME Analiza, [Next]_vars
  PROVE  Analiza'
<1>1. CASE UNCHANGED vars
  BY <1>1, AnalizaQuieta DEF vars
<1>2. CASE ParserItera
  BY <1>2, AnalizaParser
<1>3. CASE ConsolaEnvia \/ ConsolaNoConecta
  BY <1>3, AnalizaQuieta DEF ConsolaEnvia, ConsolaNoConecta
<1>4. CASE ConsolaRecibe \/ ConsolaMuere
  <2>1. consola = "espera" /\ consola' \in {"exito", "muerta"} /\ UNCHANGED parserVars
    BY <1>4 DEF ConsolaRecibe, ConsolaMuere
  <2>2. eof
    BY <2>1 DEF Analiza, Analizado
  <2>. QED  BY <2>1, <2>2, AnalizaQuieta
<1>5. CASE Entrega
  BY <1>5, AnalizaQuieta DEF Entrega
<1>6. CASE procesar_socket
  <2>1. UNCHANGED parserVars /\ consola' = consola
    BY <1>6 DEF procesar_socket, SocketCop, SocketSize, SocketCarga, SocketCierre, Recv
  <2>. QED  BY <2>1, AnalizaQuieta
<1>7. CASE OtraConsolaCierra \/ KernelDespacha \/ CpuRecibe \/ CpuCorte \/ CpuDevuelve
             \/ KernelTermina \/ KernelVuelve \/ KernelCorte
  <2>1. UNCHANGED parserVars /\ consola' = consola
    BY <1>7 DEF OtraConsolaCierra, KernelDespacha, CpuRecibe, CpuCorte, CpuDevuelve, KernelTermina,
      KernelVuelve, KernelCorte
  <2>. QED  BY <2>1, AnalizaQuieta
<1>. QED  BY <1>1, <1>2, <1>3, <1>4, <1>5, <1>6, <1>7 DEF Next

-----------------------------------------------------------------------------
(* What a program is, up to its first EXIT                                 *)

LEMMA MinimoEs ==
  ASSUME NEW T, T \subseteq Nat, NEW m \in T, \A x \in T : m <= x
  PROVE  Min(T) = m
<1>1. \A x \in T : (\A y \in T : x <= y) => x = m
  <2>. SUFFICES ASSUME NEW x \in T, \A y \in T : x <= y PROVE x = m
    OBVIOUS
  <2>1. x <= m /\ m <= x /\ x \in Nat /\ m \in Nat
    OBVIOUS
  <2>. QED  BY <2>1
<1>. QED  BY <1>1 DEF Min

\* What comes after an EXIT is not part of it.
LEMMA SalidaPrimera ==
  ASSUME NEW c \in Seq(Inst), NEW i \in Seq(Inst), NEW k \in 1 .. Len(c), c[k].operacion = 69
  PROVE  HastaExit(c \o i) = HastaExit(c)
<1>. DEFINE t == c \o i
            A == {j \in DOMAIN c : c[j].operacion = 69}
            B == {j \in DOMAIN t : t[j].operacion = 69}
<1>1. Len(c) \in Nat /\ DOMAIN c = 1 .. Len(c) /\ Len(i) \in Nat
  BY LenProperties
<1>2. /\ t \in Seq(Inst) /\ Len(t) = Len(c) + Len(i) /\ \A j \in 1 .. Len(c) : t[j] = c[j]
  <2>1. Trozo(t, 0, c) /\ t \in Seq(Inst) /\ Len(t) = Len(c) + Len(i)
    BY TrozoUne
  <2>2. \A j \in 1 .. Len(c) : 0 + j = j
    OBVIOUS
  <2>. QED  BY <2>1, <2>2 DEF Trozo
<1>. HIDE DEF t
<1>3. DOMAIN t = 1 .. Len(t) /\ Len(t) \in Nat /\ \A j \in 1 .. Len(c) : j \in 1 .. Len(t)
  BY <1>1, <1>2
<1>4. A \subseteq Nat /\ B \subseteq Nat /\ k \in A
  BY <1>1, <1>3
<1>5. PICK m \in A : \A x \in A : m <= x
  <2>1. \E n \in A : \A x \in A : n <= x
    <3>1. A # {} /\ A \subseteq Nat
      BY <1>4
    <3>. HIDE DEF A
    <3>. QED  BY <3>1, Minimo
  <2>. QED  BY <2>1
<1>6. m \in 1 .. Len(c) /\ m \in B
  BY <1>1, <1>2, <1>3
<1>7. \A x \in B : m <= x
  <2>. TAKE x \in B
  <2>1. CASE x <= Len(c)
    <3>1. x \in 1 .. Len(c)
      BY <1>3, <2>1
    <3>. QED  BY <1>1, <1>2, <1>5, <3>1
  <2>2. CASE ~(x <= Len(c))
    BY <1>1, <1>3, <1>6, <2>2
  <2>. QED  BY <2>1, <2>2
<1>8. Min(A) = m /\ Min(B) = m
  <2>. HIDE DEF A, B
  <2>. QED  BY <1>4, <1>5, <1>6, <1>7, MinimoEs
<1>9. HastaExit(c) = SubSeq(c, 1, m)
  BY <1>4, <1>8 DEF HastaExit
<1>10. HastaExit(t) = SubSeq(t, 1, m)
  BY <1>6, <1>8 DEF HastaExit
<1>. HIDE DEF A, B
<1>11. /\ SubSeq(c, 1, m) \in Seq(Inst) /\ Len(SubSeq(c, 1, m)) = m
       /\ \A j \in 1 .. m : SubSeq(c, 1, m)[j] = c[j]
  BY <1>1, <1>6, SubSeqProperties
<1>12. /\ SubSeq(t, 1, m) \in Seq(Inst) /\ Len(SubSeq(t, 1, m)) = m
       /\ \A j \in 1 .. m : SubSeq(t, 1, m)[j] = t[j]
  <2>1. m \in 1 .. Len(t)
    BY <1>3, <1>6
  <2>. QED  BY <1>2, <1>3, <2>1, SubSeqProperties
<1>13. \A j \in 1 .. m : j \in 1 .. Len(c) /\ t[j] = c[j]
  BY <1>1, <1>2, <1>6
<1>14. SubSeq(t, 1, m) = SubSeq(c, 1, m)
  BY <1>11, <1>12, <1>13, SeqEqual
<1>. QED  BY <1>9, <1>10, <1>14 DEF t

\* Lists with the same operations end in the same place.
LEMMA MismaSalida ==
  ASSUME NEW c \in Seq(Inst), NEW l \in Seq(Inst), Len(l) = Len(c),
         \A j \in 1 .. Len(c) : l[j].operacion = c[j].operacion
  PROVE  /\ HastaExit(l) \in Seq(Inst) /\ Len(HastaExit(l)) = Len(HastaExit(c))
         /\ \A j \in 1 .. Len(HastaExit(l)) :
              j \in 1 .. Len(c) /\ HastaExit(l)[j] = l[j] /\ HastaExit(c)[j] = c[j]
<1>. DEFINE A == {j \in DOMAIN c : c[j].operacion = 69}
            B == {j \in DOMAIN l : l[j].operacion = 69}
<1>1. Len(c) \in Nat /\ DOMAIN c = 1 .. Len(c) /\ DOMAIN l = 1 .. Len(c)
  BY LenProperties
<1>2. A = B /\ A \subseteq 1 .. Len(c) /\ A \subseteq Nat
  BY <1>1
<1>3. CASE A = {}
  <2>1. HastaExit(l) = l /\ HastaExit(c) = c
    BY <1>2, <1>3 DEF HastaExit
  <2>. QED  BY <1>1, <2>1
<1>4. CASE A # {}
  <2>1. PICK m \in A : \A x \in A : m <= x
    <3>. HIDE DEF A
    <3>. QED  BY <1>2, <1>4, Minimo
  <2>2. Min(A) = m /\ m \in 1 .. Len(c)
    <3>. HIDE DEF A
    <3>. QED  BY <1>2, <2>1, MinimoEs
  <2>3. HastaExit(l) = SubSeq(l, 1, m) /\ HastaExit(c) = SubSeq(c, 1, m)
    BY <1>2, <1>4, <2>2 DEF HastaExit
  <2>. HIDE DEF A, B
  <2>4. /\ SubSeq(c, 1, m) \in Seq(Inst) /\ Len(SubSeq(c, 1, m)) = m
        /\ \A j \in 1 .. m : SubSeq(c, 1, m)[j] = c[j]
    BY <1>1, <2>2, SubSeqProperties
  <2>5. /\ SubSeq(l, 1, m) \in Seq(Inst) /\ Len(SubSeq(l, 1, m)) = m
        /\ \A j \in 1 .. m : SubSeq(l, 1, m)[j] = l[j]
    BY <1>1, <2>2, SubSeqProperties
  <2>6. \A j \in 1 .. m : j \in 1 .. Len(c)
    BY <1>1, <2>2
  <2>. QED  BY <2>3, <2>4, <2>5, <2>6
<1>. QED  BY <1>3, <1>4

\* The list the console sends: it fits, and it is the file's program.
LEMMA CodigoFiel ==
  ASSUME archivo \in Archivos, Analizado
  PROVE  /\ codigo \in Seq(Inst) /\ Len(codigo) \in Nat /\ 9 * Len(codigo) + 10 < Enorme
         /\ HastaExit(codigo) = Programa
<1>1. PICK F : F = archivo.fuente
  OBVIOUS
<1>2. /\ Len(F) \in Nat /\ DOMAIN F = 1 .. Len(F) /\ \E j \in 1 .. Len(F) : F[j][1][1] = "EXIT"
  <2>1. F \in Seq(Seq(Palabras)) /\ \E j \in 1 .. Len(F) : F[j][1][1] = "EXIT"
    BY <1>1, ArchivoTipo
  <2>2. Len(F) \in Nat /\ DOMAIN F = 1 .. Len(F)
    BY <2>1
  <2>. QED  BY <2>1, <2>2
<1>3. Correctas
  BY DEF Analizado
<1>4. PICK s \in Seq(Seq(Inst)) : s = Sentido /\ Len(s) = Len(F)
  BY <1>1, <1>3, SentidoTipo
<1>5. PICK h : Junta(s, Len(s), h, Inst)
  BY JuntaHay
<1>6. PICK c \in Seq(Inst) : c = Lista(archivo) /\ c = h[Len(s)]
  <2>1. FlattenSeq(s) = h[Len(s)] /\ FlattenSeq(s) \in Seq(Inst)
    BY <1>5, JuntaAplana
  <2>2. Lista(archivo) = FlattenSeq(s)
    BY <1>4 DEF Lista, Sentido
  <2>. QED  BY <2>1, <2>2
<1>7. PICK i \in Seq(Inst) : Len(i) <= 1 /\ codigo = c \o i
  BY <1>6 DEF Analizado
<1>8. /\ codigo \in Seq(Inst) /\ Len(codigo) = Len(c) + Len(i)
      /\ Len(c) \in Nat /\ Len(i) \in Nat
  BY <1>7, ConcatProperties, LenProperties
<1>9. 9 * Len(codigo) + 10 < Enorme
  <2>1. \A j \in DOMAIN archivo.fuente : Correcta(archivo.fuente[j])
    BY <1>3 DEF Correctas
  <2>2. SIZE_T + INST * (Len(Lista(archivo)) + 1) + UINT16 < Enorme
    BY <2>1, FuentesAssumption
  <2>3. 8 + 9 * (Len(c) + 1) + 2 < Enorme
    BY <1>6, <2>2 DEF SIZE_T, INST, INT32, UINT16
  <2>4. Enorme \in Nat
    BY EnormeAssumption
  <2>. QED  BY <1>7, <1>8, <2>3, <2>4
<1>10. PICK k \in 1 .. Len(c) : c[k].operacion = 69
  <2>1. PICK j \in 1 .. Len(F) : F[j][1][1] = "EXIT"
    BY <1>2
  <2>2. s[j] = Significado(F[j])
    BY <1>1, <1>2, <1>4 DEF Sentido
  <2>3. PICK x : s[j] = <<x>> /\ x.operacion = 69
    <3>1. \A a, b : Instruccion(F[j][1], a, b).operacion = 69
      BY <2>1 DEF Instruccion, Letra
    <3>2. \E a, b : Significado(F[j]) = <<Instruccion(F[j][1], a, b)>>
      BY <2>1 DEF Significado
    <3>. QED  BY <2>2, <3>1, <3>2
  <2>4. s[j][1] = x /\ 1 \in 1 .. Len(s[j]) /\ j \in 1 .. Len(s)
    BY <1>4, <2>3
  <2>5. Contiene(h[Len(s)], s[j][1])
    BY <1>5, <2>4, JuntaContiene
  <2>. QED  BY <1>6, <2>3, <2>4, <2>5 DEF Contiene
<1>11. HastaExit(codigo) = HastaExit(c)
  BY <1>7, <1>10, SalidaPrimera
<1>12. Programa = HastaExit(c)
  BY <1>6 DEF Programa
<1>. QED  BY <1>8, <1>9, <1>11, <1>12

-----------------------------------------------------------------------------
(* The connection, and the PCB's journey, while no recv has been cut short *)

\* The bytes that are arrived or in flight.
Lleva(s) == llegado \in Seq(Byte) /\ red \in Seq(Byte) /\ llegado \o red = s

Carga == CargaPrograma(codigo, tamanio)

\* The process as it is listed, and as it is sent the first time.
Base == Pcb([instrucciones |-> codigo, tamanio |-> tamanio % 65536])
Nuevo == [Base EXCEPT !.tabla_paginas = TABLA]

\* l is the console's list, but for what the COPYs among its first k have read.
Conserva(l, k) ==
  /\ l \in Seq(Inst) /\ Len(l) = Len(codigo)
  /\ \A j \in 1 .. Len(codigo) :
       /\ l[j].operacion = codigo[j].operacion /\ l[j].arg1 = codigo[j].arg1
       /\ \/ l[j].arg2 = codigo[j].arg2
          \/ j <= k /\ l[j].operacion = 67 /\ l[j].arg2 \in Leibles

\* A PCB that is the console's, at some point of its execution.
Propia(p) ==
  /\ EsPcb(p) /\ p.pid = 1 /\ p.tamanio = tamanio % 65536 /\ p.tabla_paginas = TABLA
  /\ Conserva(p.instrucciones, p.pc)

\* Nothing has been sent.
Antes == consola \in {"parser", "error"} => red = << >> /\ llegado = << >> /\ hilo = "cop"

\* The thread is at the part of the message it expects.
Senda ==
  consola \notin {"parser", "error"} =>
    \/ hilo = "cop" /\ Lleva(serializar_programa(codigo, tamanio))
    \/ hilo = "size" /\ Lleva(Bytes(Len(Carga), SIZE_T) \o Carga)
    \/ hilo = "carga" /\ size = Len(Carga) /\ Lleva(Carga)
    \/ hilo = "return"

\* A message is the PCB last sent.
Lleno(m, e) == m # << >> => \E p \in e : e = {p} /\ \E cop \in Nat : m = serializar_proceso(p, cop)

\* The PCB is in one place.
Uno(l, v, d, r, c) ==
  /\ l # {} => v = {} /\ d = << >> /\ r = << >> /\ c = {}
  /\ v # {} => d = << >> /\ r = << >> /\ c = {}
  /\ d # << >> => r = << >> /\ c = {}
  /\ r # << >> => c = {}

\* The process is the console's, wherever it is: listed, back, sent, received or sent
\* back; and it is the one last sent.
SuyoDe(l, v, d, r, c, e) ==
  /\ l \subseteq {Base} /\ \A p \in e : Propia(p)
  /\ \A p \in c \cup v : e = {p}
  /\ Lleno(d, e) /\ Lleno(r, e) /\ Uno(l, v, d, r, c)
Suyo == SuyoDe(listado, devuelto, dispatch, retorno, cpu, enviado)

Intacto == ~cortado => Senda /\ Suyo

\* A sequence is its first n elements and the rest.
LEMMA Partida ==
  ASSUME NEW S, NEW s \in Seq(S), NEW n \in 0 .. Len(s)
  PROVE  /\ SubSeq(s, 1, n) \in Seq(S) /\ Len(SubSeq(s, 1, n)) = n
         /\ \A i \in 1 .. n : SubSeq(s, 1, n)[i] = s[i]
         /\ SubSeq(s, n + 1, Len(s)) \in Seq(S)
         /\ SubSeq(s, 1, n) \o SubSeq(s, n + 1, Len(s)) = s
<1>. DEFINE x == SubSeq(s, 1, n)
            y == SubSeq(s, n + 1, Len(s))
<1>1. Len(s) \in Nat /\ n \in Nat
  OBVIOUS
<1>2. x \in Seq(S) /\ Len(x) = n /\ \A i \in 1 .. n : x[i] = s[i]
  BY <1>1, SubSeqProperties
<1>3. y \in Seq(S) /\ Len(y) = Len(s) - n /\ \A i \in 1 .. Len(s) - n : y[i] = s[n + i]
  BY Sufijo
<1>. HIDE DEF x, y
<1>4. /\ x \o y \in Seq(S) /\ Len(x \o y) = Len(x) + Len(y)
      /\ \A i \in 1 .. Len(x) + Len(y) : (x \o y)[i] = IF i <= Len(x) THEN x[i] ELSE y[i - Len(x)]
  BY <1>2, <1>3, ConcatProperties
<1>5. Len(x \o y) = Len(s)
  BY <1>1, <1>2, <1>3, <1>4
<1>6. ASSUME NEW i \in 1 .. Len(s) PROVE (x \o y)[i] = s[i]
  <2>1. (x \o y)[i] = IF i <= n THEN x[i] ELSE y[i - n]
    BY <1>2, <1>4, <1>5
  <2>2. CASE i <= n
    <3>1. i \in 1 .. n
      BY <1>1, <2>2
    <3>. QED  BY <1>2, <2>1, <2>2, <3>1
  <2>3. CASE ~(i <= n)
    <3>1. i - n \in 1 .. Len(s) - n /\ n + (i - n) = i
      BY <1>1, <2>3
    <3>2. y[i - n] = s[n + (i - n)]
      BY <1>3, <3>1
    <3>. QED  BY <2>1, <2>3, <3>1, <3>2
  <2>. QED  BY <2>2, <2>3
<1>7. x \o y = s
  BY <1>4, <1>5, <1>6, SeqEqual
<1>. QED  BY <1>2, <1>3, <1>7 DEF x, y

\* A recv of a's length, of a stream that is a and then b, gives a and leaves b.
LEMMA Recibe ==
  ASSUME NEW a \in Seq(Byte), NEW b \in Seq(Byte), Lleva(a \o b), NEW n, n = Len(a), Completo(n)
  PROVE  /\ Recibido(n) = a
         /\ SubSeq(llegado, n + 1, Len(llegado)) \in Seq(Byte)
         /\ SubSeq(llegado, n + 1, Len(llegado)) \o red = b
<1>1. PICK s \in Seq(Byte) : s = llegado
  BY DEF Lleva
<1>2. PICK r \in Seq(Byte) : r = red
  BY DEF Lleva
<1>3. s \o r = a \o b
  BY <1>1, <1>2 DEF Lleva
<1>4. n \in Nat /\ Len(s) \in Nat /\ Len(s) >= n /\ n \in 0 .. Len(s)
  <2>1. n \in Nat /\ Len(s) \in Nat
    BY LenProperties
  <2>. QED  BY <1>1, <2>1 DEF Completo
<1>. DEFINE x == SubSeq(s, 1, n)
            y == SubSeq(s, n + 1, Len(s))
<1>5. x \in Seq(Byte) /\ Len(x) = n /\ \A i \in 1 .. n : x[i] = s[i]
  BY <1>4, Partida
<1>6. y \in Seq(Byte) /\ x \o y = s
  BY <1>1, <1>4, Partida
<1>. HIDE DEF x, y
<1>7. x = a
  <2>1. ASSUME NEW i \in 1 .. n PROVE s[i] = a[i]
    <3>1. Trozo(s \o r, 0, s) /\ Trozo(a \o b, 0, a)
      BY TrozoUne
    <3>2. i \in 1 .. Len(s) /\ i \in 1 .. Len(a) /\ 0 + i = i
      BY <1>4
    <3>3. (s \o r)[i] = s[i] /\ (a \o b)[i] = a[i]
      BY <3>1, <3>2 DEF Trozo
    <3>. QED  BY <1>3, <3>3
  <2>. QED  BY <1>5, <2>1, SeqEqual
<1>9. a \o (y \o r) = a \o b
  <2>1. PICK z \in Seq(Byte) : z = y
    BY <1>6
  <2>2. Asocia(Byte)
    BY AsociativaDe
  <2>3. (a \o z) \o r = a \o (z \o r)
    BY <2>1, <2>2, SMTT(60) DEF Asocia
  <2>. QED  BY <1>3, <1>6, <1>7, <2>1, <2>3
<1>10. y \o r = b
  <2>1. y \o r \in Seq(Byte)
    BY <1>6
  <2>. QED  BY <1>9, <2>1, PrefijoUnico
<1>. QED  BY <1>1, <1>2, <1>6, <1>7, <1>10 DEF x, y, Recibido

\* The network changes nothing of the stream.
LEMMA EntregaLleva ==
  ASSUME Entrega, NEW s, Lleva(s)
  PROVE  Lleva(s)'
<1>1. PICK l \in Seq(Byte) : l = llegado
  BY DEF Lleva
<1>2. PICK r \in Seq(Byte) : r = red
  BY DEF Lleva
<1>3. Len(r) \in Nat /\ Segmento \in Nat
  BY SegmentoAssumption
<1>4. PICK n \in (Segmento .. Len(r)) \cup {Len(r)} :
        llegado' = l \o SubSeq(r, 1, n) /\ red' = SubSeq(r, n + 1, Len(r))
  BY <1>1, <1>2 DEF Entrega
<1>5. n \in 0 .. Len(r) /\ n \in Nat
  BY <1>3
<1>. DEFINE x == SubSeq(r, 1, n)
            y == SubSeq(r, n + 1, Len(r))
<1>6. x \in Seq(Byte) /\ y \in Seq(Byte) /\ x \o y = r
  BY <1>2, <1>5, Partida
<1>8. llegado' = l \o x /\ red' = y
  BY <1>4
<1>. HIDE DEF x, y
<1>10. (l \o x) \o y = l \o r
  <2>1. x \in Seq(Byte) /\ y \in Seq(Byte)
    BY <1>6
  <2>2. Asocia(Byte)
    BY AsociativaDe
  <2>3. (l \o x) \o y = l \o (x \o y)
    BY <2>1, <2>2, SMTT(60) DEF Asocia
  <2>. QED  BY <1>6, <2>3
<1>11. l \o x \in Seq(Byte) /\ l \o r = s
  <2>1. l \o r = s
    BY <1>1, <1>2 DEF Lleva
  <2>. QED  BY <1>6, <2>1
<1>. QED  BY <1>6, <1>8, <1>10, <1>11 DEF Lleva

\* What the console sends.
LEMMA CargaTipo ==
  ASSUME Analiza, Analizado
  PROVE  /\ Carga \in Seq(Byte) /\ Len(Carga) \in Nat /\ Len(Carga) > 0 /\ Len(Carga) < Enorme
         /\ deserializar_programa(Carga) = [instrucciones |-> codigo, tamanio |-> tamanio % 65536]
<1>1. codigo \in Seq(Inst) /\ Len(codigo) \in Nat /\ 9 * Len(codigo) + 10 < Enorme
  BY CodigoFiel DEF Analiza
<1>2. tamanio \in Nat /\ Enorme \in Nat
  BY TamaniosAssumption, EnormeAssumption DEF Analiza
<1>3. PICK l \in Seq(Inst) : l = codigo
  BY <1>1
<1>4. PICK t \in Nat : t = tamanio
  BY <1>2
<1>5. Len(l) < Enorme
  BY <1>1, <1>2, <1>3
<1>6. PICK s : s = CargaPrograma(l, t)
  OBVIOUS
<1>7. /\ s \in Seq(Byte) /\ Len(s) = 10 + 9 * Len(l)
      /\ deserializar_programa(s) = [instrucciones |-> l, tamanio |-> t % 65536]
  BY <1>5, <1>6, ProgramaLeido
<1>8. Carga = s
  BY <1>3, <1>4, <1>6 DEF Carga
<1>. QED  BY <1>1, <1>2, <1>3, <1>4, <1>7, <1>8

\* Its two headers.
LEMMA CabeceraTipo ==
  ASSUME Analiza, Analizado, NEW a, a = Bytes(PROGRAMA, COP), NEW b, b = Bytes(Len(Carga), SIZE_T)
  PROVE  /\ a \in Seq(Byte) /\ Len(a) = COP /\ Nro(a) = PROGRAMA
         /\ b \in Seq(Byte) /\ Len(b) = SIZE_T /\ Nro(b) = Len(Carga)
         /\ b \o Carga \in Seq(Byte) /\ b \o Carga # << >> /\ a \o (b \o Carga) \in Seq(Byte)
         /\ serializar_programa(codigo, tamanio) = a \o (b \o Carga)
<1>1. Carga \in Seq(Byte) /\ Len(Carga) \in Nat /\ Len(Carga) > 0 /\ Len(Carga) < Enorme
  BY CargaTipo
<1>2. Enorme \in Nat /\ 0 < Enorme
  BY EnormeAssumption
<1>3. a \in Seq(Byte) /\ Len(a) = COP /\ b \in Seq(Byte) /\ Len(b) = SIZE_T
  BY <1>1, BytesAnchos DEF PROGRAMA, COP, SIZE_T
<1>4. Nro(a) = PROGRAMA
  BY <1>2, NroLargo DEF PROGRAMA, COP, INT32
<1>5. Nro(b) = Len(Carga)
  BY <1>1, NroLargo
<1>6. PICK c \in Seq(Byte) : c = Carga
  BY <1>1
<1>7. b \o c \in Seq(Byte) /\ Len(b \o c) = Len(b) + Len(c) /\ a \o (b \o c) \in Seq(Byte)
  <2>1. b \o c \in Seq(Byte) /\ Len(b \o c) = Len(b) + Len(c)
    BY <1>3, ConcatProperties
  <2>. QED  BY <1>3, <2>1
<1>8. b \o c # << >>
  BY <1>1, <1>3, <1>6, <1>7 DEF SIZE_T
<1>9. serializar_programa(codigo, tamanio) = (a \o b) \o c
  BY <1>6 DEF serializar_programa, Mensaje, Carga, CargaPrograma
<1>10. (a \o b) \o c = a \o (b \o c)
  BY <1>3, AsociativaDe DEF Asocia
<1>. QED  BY <1>3, <1>4, <1>5, <1>6, <1>7, <1>8, <1>9, <1>10

\* What is sent the first time is the console's, with fields that fit.
LEMMA NuevoPropio ==
  ASSUME Analiza, Analizado
  PROVE  Propia(Nuevo)
<1>1. codigo \in Seq(Inst) /\ Len(codigo) \in Nat /\ 9 * Len(codigo) + 10 < Enorme
  BY CodigoFiel DEF Analiza
<1>2. tamanio \in Nat /\ Enorme \in Nat /\ Enorme >= 65536
  BY TamaniosAssumption, EnormeAssumption DEF Analiza
<1>3. tamanio % 65536 \in Corto
  BY <1>2 DEF Corto
<1>4. 0 \in Largo /\ TABLA \in Largo /\ 1000 \in Largo /\ 1 \in Corto
  BY <1>2 DEF Largo, Corto, TABLA
<1>5. Nuevo = [pid |-> 1, tamanio |-> tamanio % 65536, instrucciones |-> codigo, pc |-> 0,
               tabla_paginas |-> TABLA, est_rafaga |-> 1000]
  BY DEF Nuevo, Base, Pcb
<1>6. Len(codigo) < Enorme
  BY <1>1, <1>2
<1>7. EsPcb(Nuevo)
  BY <1>1, <1>3, <1>4, <1>5, <1>6 DEF EsPcb
<1>. QED  BY <1>1, <1>5, <1>7 DEF Propia, Conserva

\* A burst changes the argument its COPYs read, the program counter and the estimate.
LEMMA EjecutadoPropia ==
  ASSUME NEW p, Propia(p), NEW j \in Finales(p), NEW leido \in [Copias(p, j) -> Leibles]
  PROVE  Propia(Ejecutado(p, j, leido))
<1>. DEFINE l == p.instrucciones
            m == [i \in DOMAIN l |-> IF i \in DOMAIN leido THEN [l[i] EXCEPT !.arg2 = leido[i]] ELSE l[i]]
            q == Ejecutado(p, j, leido)
<1>1. /\ p \in [pid : Corto, tamanio : Corto, instrucciones : Seq(Inst), pc : Largo,
                 tabla_paginas : Largo, est_rafaga : Largo]
      /\ Len(l) < Enorme /\ Conserva(l, p.pc)
  BY DEF Propia, EsPcb
<1>2. /\ p.pc \in Nat /\ Len(l) \in Nat /\ DOMAIN l = 1 .. Len(l) /\ l \in Seq(Inst)
      /\ Enorme \in Nat /\ Enorme >= 65536 /\ Len(l) = Len(codigo)
  BY <1>1, EnormeAssumption, LenProperties DEF Largo, Conserva
<1>3. j \in p.pc + 1 .. Len(l) /\ j \in Nat /\ p.pc <= j /\ j \in Largo /\ 300 \in Largo
  <2>1. j \in p.pc + 1 .. Len(l)
    BY DEF Finales
  <2>. QED  BY <1>1, <1>2, <2>1 DEF Largo
<1>4. \A i \in DOMAIN leido : i <= j /\ l[i].operacion = 67 /\ leido[i] \in Leibles /\ leido[i] \in Arg
  <2>1. DOMAIN leido = Copias(p, j) /\ \A i \in Copias(p, j) : leido[i] \in Leibles
    OBVIOUS
  <2>2. \A i \in Copias(p, j) : i <= j /\ l[i].operacion = 67
    BY <1>2, <1>3 DEF Copias, Letra
  <2>3. \A v \in Leibles : v \in Arg
    BY LeiblesAssumption DEF Arg
  <2>. QED  BY <2>1, <2>2, <2>3
<1>5. ASSUME NEW i \in 1 .. Len(l)
      PROVE  /\ m[i] \in Inst /\ m[i].operacion = l[i].operacion /\ m[i].arg1 = l[i].arg1
             /\ \/ m[i].arg2 = l[i].arg2
                \/ i <= j /\ m[i].operacion = 67 /\ m[i].arg2 \in Leibles
  <2>1. l[i] \in Inst /\ m[i] = IF i \in DOMAIN leido THEN [l[i] EXCEPT !.arg2 = leido[i]] ELSE l[i]
    BY <1>2
  <2>2. CASE i \in DOMAIN leido
    <3>1. m[i] = [l[i] EXCEPT !.arg2 = leido[i]] /\ l[i] \in [operacion : Byte, arg1 : Arg, arg2 : Arg]
      BY <2>1, <2>2 DEF Inst
    <3>2. m[i] \in [operacion : Byte, arg1 : Arg, arg2 : Arg] /\ m[i].operacion = l[i].operacion
          /\ m[i].arg1 = l[i].arg1 /\ m[i].arg2 = leido[i]
      <4>. HIDE DEF m, l
      <4>. QED  BY <1>4, <2>2, <3>1
    <3>. QED  BY <1>4, <2>2, <3>2 DEF Inst
  <2>3. CASE i \notin DOMAIN leido
    BY <2>1, <2>3
  <2>. QED  BY <2>2, <2>3
<1>6. m \in Seq(Inst) /\ Len(m) = Len(l)
  <2>1. m \in [1 .. Len(l) -> Inst]
    BY <1>2, <1>5
  <2>. HIDE DEF m
  <2>. QED  BY <1>2, <2>1
<1>. HIDE DEF m
<1>7. Conserva(m, j)
  <2>1. ASSUME NEW i \in 1 .. Len(codigo)
        PROVE  /\ m[i].operacion = codigo[i].operacion /\ m[i].arg1 = codigo[i].arg1
               /\ \/ m[i].arg2 = codigo[i].arg2
                  \/ i <= j /\ m[i].operacion = 67 /\ m[i].arg2 \in Leibles
    <3>1. /\ l[i].operacion = codigo[i].operacion /\ l[i].arg1 = codigo[i].arg1
          /\ \/ l[i].arg2 = codigo[i].arg2
             \/ i <= p.pc /\ l[i].operacion = 67 /\ l[i].arg2 \in Leibles
      BY <1>1 DEF Conserva
    <3>2. i \in 1 .. Len(l) /\ (i <= p.pc => i <= j)
      BY <1>2, <1>3
    <3>. QED  BY <1>5, <3>1, <3>2
  <2>. QED  BY <1>2, <1>6, <2>1 DEF Conserva
<1>8. q = [p EXCEPT !.pc = j, !.est_rafaga = 300, !.instrucciones = m]
  BY DEF Ejecutado, m
<1>. HIDE DEF q, l
<1>9. /\ q \in [pid : Corto, tamanio : Corto, instrucciones : Seq(Inst), pc : Largo,
                 tabla_paginas : Largo, est_rafaga : Largo]
      /\ q.pid = p.pid /\ q.tamanio = p.tamanio /\ q.tabla_paginas = p.tabla_paginas
      /\ q.pc = j /\ q.instrucciones = m
  BY <1>1, <1>3, <1>6, <1>8
<1>10. EsPcb(q)
  BY <1>1, <1>6, <1>9 DEF EsPcb
<1>. QED  BY <1>7, <1>9, <1>10 DEF Propia, q

\* What arrives is what was sent.
LEMMA Llegada ==
  ASSUME NEW e, NEW m, Lleno(m, e), m # << >>, \A p \in e : Propia(p)
  PROVE  \E p \in e : e = {p} /\ Proceso(m) = p
<1>1. PICK p \in e, cop \in Nat : e = {p} /\ m = serializar_proceso(p, cop)
  BY DEF Lleno
<1>2. EsPcb(p)
  BY DEF Propia
<1>3. Proceso(m) = p
  BY <1>1, <1>2, ProcesoLeido DEF Proceso
<1>. QED  BY <1>1, <1>3

\* A connection with no bytes carries nothing.
LEMMA LlevaNada ==
  ASSUME NEW s, Lleva(s), red = << >>, llegado = << >>
  PROVE  s = << >>
<1>1. << >> \o << >> = << >>
  OBVIOUS
<1>. QED  BY <1>1 DEF Lleva

\* Past the parser the file has been read; before it, nothing has been listed.
LEMMA YaAnalizado ==
  ASSUME Retirado, Analiza, Antes
  PROVE  /\ consola \notin {"parser", "error"} => Analizado
         /\ consola \in {"parser", "error"} => ~Pasado
         /\ llegado # << >> \/ red # << >> \/ hilo # "cop" \/ Pasado => Analizado
<1>1. consola \notin {"parser", "error"} => Analizado
  BY DEF Analiza
<1>2. consola \in {"parser", "error"} => hilo = "cop" /\ llegado = << >> /\ red = << >>
  BY DEF Antes
<1>3. Pasado => hilo = "return"
  BY DEF Retirado
<1>. QED  BY <1>1, <1>2, <1>3

\* Only the parser changes the process a console is to have.
LEMMA BaseQuieta ==
  ASSUME UNCHANGED parserVars
  PROVE  /\ Carga' = Carga /\ serializar_programa(codigo, tamanio)' = serializar_programa(codigo, tamanio)
         /\ SuyoDe(listado', devuelto', dispatch', retorno', cpu', enviado') => Suyo'
<1>1. codigo' = codigo /\ tamanio' = tamanio
  BY DEF parserVars
<1>2. Carga' = Carga /\ serializar_programa(codigo, tamanio)' = serializar_programa(codigo, tamanio)
  BY <1>1 DEF Carga
<1>3. ASSUME SuyoDe(listado', devuelto', dispatch', retorno', cpu', enviado')
      PROVE  Suyo'
  <2>1. Base' = Base
    BY <1>1 DEF Base
  <2>2. ASSUME NEW p, Propia(p)
        PROVE  /\ EsPcb(p) /\ p.pid = 1 /\ p.tamanio = tamanio' % 65536 /\ p.tabla_paginas = TABLA
               /\ p.instrucciones \in Seq(Inst) /\ Len(p.instrucciones) = Len(codigo')
               /\ \A j \in 1 .. Len(codigo') :
                    /\ p.instrucciones[j].operacion = codigo'[j].operacion
                    /\ p.instrucciones[j].arg1 = codigo'[j].arg1
                    /\ \/ p.instrucciones[j].arg2 = codigo'[j].arg2
                       \/ j <= p.pc /\ p.instrucciones[j].operacion = 67 /\ p.instrucciones[j].arg2 \in Leibles
    BY <1>1, <2>2 DEF Propia, Conserva
  <2>3. listado' \subseteq {Base'} /\ \A p \in enviado' : Propia(p)
    BY <1>3, <2>1 DEF SuyoDe
  <2>4. (\A p \in enviado : Propia(p))'
    BY <2>2, <2>3 DEF Propia, Conserva
  <2>. QED  BY <1>3, <2>3, <2>4 DEF Suyo, SuyoDe
<1>. QED  BY <1>2, <1>3

\* A step leaves the process the console's, wherever it takes it.
LEMMA SuyoSigue ==
  ASSUME Retirado, Analiza, Antes, Senda, Suyo, Next
  PROVE  Suyo'
<1>1. CASE ParserItera
  <2>1. /\ listado = {} /\ devuelto = {} /\ dispatch = << >> /\ cpu = {} /\ retorno = << >>
        /\ enviado = {}
    <3>1. consola = "parser"
      BY <1>1 DEF ParserItera
    <3>. QED  BY <3>1, YaAnalizado DEF Pasado
  <2>2. UNCHANGED <<listado, devuelto, dispatch, retorno, cpu, enviado>>
    BY <1>1 DEF ParserItera, kernelVars, cpuVars
  <2>. QED  BY <2>1, <2>2 DEF Suyo, SuyoDe, Lleno, Uno
<1>2. ASSUME ~ParserItera PROVE UNCHANGED parserVars
  BY <1>2 DEF Next, procesar_socket, ConsolaEnvia, ConsolaNoConecta, ConsolaRecibe, ConsolaMuere,
       Entrega, SocketCop, SocketSize, SocketCarga, SocketCierre, Recv, OtraConsolaCierra,
       KernelDespacha, CpuRecibe, CpuCorte, CpuDevuelve, KernelTermina, KernelVuelve, KernelCorte
<1>3. ASSUME ~ParserItera, SuyoDe(listado', devuelto', dispatch', retorno', cpu', enviado')
      PROVE  Suyo'
  BY <1>2, <1>3, BaseQuieta
<1>4. /\ listado \subseteq {Base} /\ \A p \in enviado : Propia(p)
      /\ \A p \in cpu \cup devuelto : enviado = {p}
      /\ Lleno(dispatch, enviado) /\ Lleno(retorno, enviado)
      /\ Uno(listado, devuelto, dispatch, retorno, cpu)
  BY DEF Suyo, SuyoDe
<1>n. \A e : Lleno(<< >>, e)
  BY DEF Lleno
<1>5. CASE ~ParserItera /\ UNCHANGED <<listado, cpuVars>>
  <2>1. UNCHANGED <<listado, devuelto, dispatch, retorno, cpu, enviado>>
    BY <1>5 DEF cpuVars
  <2>. QED  BY <1>3, <1>5, <2>1 DEF Suyo
<1>6. ASSUME \/ ConsolaEnvia \/ ConsolaNoConecta \/ ConsolaRecibe \/ ConsolaMuere \/ Entrega
             \/ SocketCop \/ SocketSize \/ SocketCierre \/ OtraConsolaCierra
      PROVE  UNCHANGED <<listado, cpuVars>>
  BY <1>6 DEF ConsolaEnvia, ConsolaNoConecta, ConsolaRecibe, ConsolaMuere, Entrega,
       SocketCop, SocketSize, SocketCierre, Recv, OtraConsolaCierra, kernelVars
<1>7. CASE ~ParserItera /\ SocketCarga
  <2>1. CASE ~Completo(size)
    <3>1. UNCHANGED <<listado, cpuVars>>
      BY <1>7, <2>1 DEF SocketCarga, Recv
    <3>. QED  BY <1>5, <1>7, <3>1
  <2>2. CASE Completo(size)
    <3>1. hilo = "carga" /\ Analizado
      BY <1>7, YaAnalizado DEF SocketCarga
    <3>2. size = Len(Carga) /\ Lleva(Carga)
      <4>1. consola \notin {"parser", "error"}
        BY <3>1 DEF Antes
      <4>. QED  BY <3>1, <4>1 DEF Senda
    <3>3. /\ Carga \in Seq(Byte)
          /\ deserializar_programa(Carga) = [instrucciones |-> codigo, tamanio |-> tamanio % 65536]
      BY <3>1, CargaTipo
    <3>4. PICK c \in Seq(Byte) : c = Carga
      BY <3>3
    <3>5. << >> \in Seq(Byte) /\ c \o << >> = c
      BY VacioMas
    <3>6. Recibido(size) = c
      <4>1. Lleva(c \o << >>) /\ size = Len(c)
        BY <3>2, <3>4, <3>5
      <4>. QED  BY <2>2, <3>5, <4>1, Recibe
    <3>7. listado' = {Base}
      BY <1>7, <2>2, <3>3, <3>4, <3>6 DEF SocketCarga, Base
    <3>8. UNCHANGED <<devuelto, dispatch, retorno, cpu, enviado>>
      BY <1>7 DEF SocketCarga, Recv, cpuVars
    <3>9. devuelto = {} /\ dispatch = << >> /\ retorno = << >> /\ cpu = {}
      BY <3>1 DEF Retirado, Pasado
    <3>. QED  BY <1>3, <1>4, <1>7, <3>7, <3>8, <3>9 DEF SuyoDe, Uno
  <2>. QED  BY <2>1, <2>2
<1>8. CASE ~ParserItera /\ KernelDespacha
  <2>1. PICK p \in {[q EXCEPT !.tabla_paginas = TABLA] : q \in listado} \cup devuelto :
          dispatch' = serializar_proceso(p, PROCESO) /\ enviado' = {p}
    BY <1>8 DEF KernelDespacha
  <2>2. listado' = {} /\ devuelto' = {} /\ retorno' = retorno /\ cpu' = cpu
    BY <1>8 DEF KernelDespacha
  <2>3. Propia(p)
    <3>1. CASE p \in devuelto
      BY <1>4, <3>1
    <3>2. CASE p \in {[q EXCEPT !.tabla_paginas = TABLA] : q \in listado}
      <4>1. p = Nuevo /\ listado # {}
        BY <1>4, <3>2 DEF Nuevo
      <4>2. Analizado
        BY <4>1, YaAnalizado DEF Pasado
      <4>. QED  BY <4>1, <4>2, NuevoPropio
    <3>. QED  BY <2>1, <3>1, <3>2
  <2>4. retorno = << >> /\ cpu = {}
    BY <1>4, <2>1 DEF Uno
  <2>5. Lleno(dispatch', enviado')
    <3>1. PROCESO \in Nat
      BY DEF PROCESO
    <3>. QED  BY <2>1, <3>1 DEF Lleno
  <2>6. SuyoDe(listado', devuelto', dispatch', retorno', cpu', enviado')
    BY <1>n, <2>1, <2>2, <2>3, <2>4, <2>5 DEF SuyoDe, Uno
  <2>. QED  BY <1>3, <1>8, <2>6
<1>9. CASE ~ParserItera /\ CpuRecibe
  <2>1. /\ dispatch # << >> /\ cpu' = {Proceso(dispatch)} /\ dispatch' = << >>
        /\ UNCHANGED <<listado, devuelto, retorno, enviado>>
    BY <1>9 DEF CpuRecibe, kernelVars
  <2>2. enviado = {Proceso(dispatch)}
    BY <1>4, <2>1, Llegada
  <2>3. listado = {} /\ devuelto = {} /\ retorno = << >>
    BY <1>4, <2>1 DEF Uno
  <2>4. SuyoDe(listado', devuelto', dispatch', retorno', cpu', enviado')
    BY <1>4, <1>n, <2>1, <2>2, <2>3 DEF SuyoDe, Uno
  <2>. QED  BY <1>3, <1>9, <2>4
<1>10. CASE ~ParserItera /\ CpuDevuelve
  <2>p. PICK p \in cpu : \E j \in Finales(p) : \E leido \in [Copias(p, j) -> Leibles] :
          /\ retorno' = serializar_proceso(Ejecutado(p, j, leido), Estado(p.instrucciones[j]))
          /\ enviado' = {Ejecutado(p, j, leido)}
    BY <1>10 DEF CpuDevuelve
  <2>j. PICK j \in Finales(p) : \E leido \in [Copias(p, j) -> Leibles] :
          /\ retorno' = serializar_proceso(Ejecutado(p, j, leido), Estado(p.instrucciones[j]))
          /\ enviado' = {Ejecutado(p, j, leido)}
    BY <2>p
  <2>1. PICK leido \in [Copias(p, j) -> Leibles] :
          /\ retorno' = serializar_proceso(Ejecutado(p, j, leido), Estado(p.instrucciones[j]))
          /\ enviado' = {Ejecutado(p, j, leido)}
    BY <2>j
  <2>2. cpu' = {} /\ UNCHANGED <<listado, devuelto, dispatch>>
    BY <1>10 DEF CpuDevuelve, kernelVars
  <2>3. Propia(p) /\ listado = {} /\ devuelto = {} /\ dispatch = << >>
    BY <1>4 DEF Uno
  <2>4. Propia(Ejecutado(p, j, leido))
    BY <2>3, EjecutadoPropia
  <2>5. Estado(p.instrucciones[j]) \in Nat
    BY DEF Estado, EXIT, BLOCKED, INTERRUPTION
  <2>6. Lleno(retorno', enviado')
    BY <2>1, <2>5 DEF Lleno
  <2>7. SuyoDe(listado', devuelto', dispatch', retorno', cpu', enviado')
    BY <1>n, <2>1, <2>2, <2>3, <2>4, <2>6 DEF SuyoDe, Uno
  <2>. QED  BY <1>3, <1>10, <2>7
<1>11. CASE ~ParserItera /\ KernelVuelve
  <2>1. /\ retorno # << >> /\ devuelto' = {Proceso(retorno)} /\ retorno' = << >>
        /\ UNCHANGED <<listado, dispatch, cpu, enviado>>
    BY <1>11 DEF KernelVuelve, kernelVars
  <2>2. enviado = {Proceso(retorno)}
    BY <1>4, <2>1, Llegada
  <2>3. listado = {} /\ dispatch = << >> /\ cpu = {}
    BY <1>4, <2>1 DEF Uno
  <2>4. SuyoDe(listado', devuelto', dispatch', retorno', cpu', enviado')
    BY <1>4, <1>n, <2>1, <2>2, <2>3 DEF SuyoDe, Uno
  <2>. QED  BY <1>3, <1>11, <2>4
<1>12. CASE ~ParserItera /\ (CpuCorte \/ KernelTermina \/ KernelCorte)
  <2>1. /\ UNCHANGED <<listado, devuelto, cpu, enviado>>
        /\ dispatch' \in {<< >>, dispatch} /\ retorno' \in {<< >>, retorno}
    BY <1>12 DEF CpuCorte, KernelTermina, KernelCorte, kernelVars
  <2>2. Lleno(dispatch', enviado') /\ Lleno(retorno', enviado')
    BY <1>4, <1>n, <2>1
  <2>3. Uno(listado', devuelto', dispatch', retorno', cpu')
    BY <1>4, <2>1 DEF Uno
  <2>4. SuyoDe(listado', devuelto', dispatch', retorno', cpu', enviado')
    BY <1>4, <2>1, <2>2, <2>3 DEF SuyoDe
  <2>. QED  BY <1>3, <1>12, <2>4
<1>. QED  BY <1>1, <1>5, <1>6, <1>7, <1>8, <1>9, <1>10, <1>11, <1>12 DEF Next, procesar_socket

\* A step that cuts nothing leaves the thread at the part it expects.
LEMMA SendaSigue ==
  ASSUME Retirado, Analiza, Antes, Senda, Next, ~cortado'
  PROVE  Senda'
<1>1. CASE ParserItera
  <2>1. consola' \in {"parser", "error"}
    BY <1>1 DEF ParserItera
  <2>. QED  BY <2>1 DEF Senda
<1>2. ASSUME ~ParserItera PROVE UNCHANGED parserVars
  BY <1>2 DEF Next, procesar_socket, ConsolaEnvia, ConsolaNoConecta, ConsolaRecibe, ConsolaMuere,
       Entrega, SocketCop, SocketSize, SocketCarga, SocketCierre, Recv, OtraConsolaCierra,
       KernelDespacha, CpuRecibe, CpuCorte, CpuDevuelve, KernelTermina, KernelVuelve, KernelCorte
<1>. DEFINE M == serializar_programa(codigo, tamanio)
            C == Bytes(Len(Carga), SIZE_T) \o Carga
<1>3. ASSUME ~ParserItera, consola' \notin {"parser", "error"},
             \/ hilo' = "cop" /\ Lleva(M)'
             \/ hilo' = "size" /\ Lleva(C)'
             \/ hilo' = "carga" /\ size' = Len(Carga) /\ Lleva(Carga)'
             \/ hilo' = "return"
      PROVE  Senda'
  <2>1. M' = M /\ Carga' = Carga
    BY <1>2, <1>3, BaseQuieta
  <2>. HIDE DEF M
  <2>2. C' = C
    BY <2>1
  <2>. QED  BY <1>3, <2>1, <2>2 DEF Senda, M, Lleva
<1>4. consola \notin {"parser", "error"} =>
        \/ hilo = "cop" /\ Lleva(M)
        \/ hilo = "size" /\ Lleva(C)
        \/ hilo = "carga" /\ size = Len(Carga) /\ Lleva(Carga)
        \/ hilo = "return"
  BY DEF Senda
<1>5. consola \in {"parser", "error"} => red = << >> /\ llegado = << >> /\ hilo = "cop"
  BY DEF Antes
<1>6. ASSUME ~ParserItera, UNCHANGED <<redVars, hilo, size>>,
             consola' = consola \/ (consola \notin {"parser", "error"} /\ consola' \notin {"parser", "error"})
      PROVE  Senda'
  <2>1. red' = red /\ llegado' = llegado /\ hilo' = hilo /\ size' = size
    BY <1>6 DEF redVars
  <2>2. consola \in {"parser", "error"} => Senda'
    BY <1>5, <1>6, <2>1 DEF Senda
  <2>3. \A x : Lleva(x) => llegado' \in Seq(Byte) /\ red' \in Seq(Byte) /\ llegado' \o red' = x
    BY <2>1 DEF Lleva
  <2>4. M' = M /\ Carga' = Carga
    BY <1>2, <1>6, BaseQuieta
  <2>. HIDE DEF M
  <2>5. C' = C
    BY <2>4
  <2>. HIDE DEF C
  <2>6. Lleva(M) => Lleva(M)'
    BY <2>3, <2>4 DEF Lleva
  <2>7. Lleva(C) => Lleva(C)'
    BY <2>3, <2>5 DEF Lleva
  <2>8. Lleva(Carga) => Lleva(Carga)'
    BY <2>3, <2>4 DEF Lleva
  <2>9. consola \notin {"parser", "error"} => Senda'
    BY <1>3, <1>4, <1>6, <2>1, <2>6, <2>7, <2>8
  <2>. QED  BY <2>2, <2>9
<1>. HIDE DEF M, C
<1>7. CASE ~ParserItera /\ ConsolaEnvia
  <2>1. /\ consola = "parser" /\ consola' = "espera" /\ red' = M /\ llegado' = llegado /\ hilo' = hilo
    BY <1>7 DEF ConsolaEnvia, kernelVars, M
  <2>2. llegado' = << >> /\ hilo' = "cop"
    BY <1>5, <2>1
  <2>3. Analizado
    BY <1>7 DEF ConsolaEnvia, Analiza
  <2>4. M \in Seq(Byte)
    BY <2>3, CabeceraTipo DEF M
  <2>5. << >> \in Seq(Byte) /\ << >> \o M = M
    BY <2>4, VacioMas
  <2>6. M' = M
    BY <1>2, <1>7, BaseQuieta DEF M
  <2>7. Lleva(M)'
    BY <2>1, <2>2, <2>4, <2>5, <2>6 DEF Lleva
  <2>. QED  BY <1>3, <1>7, <2>1, <2>2, <2>7
<1>8. CASE ~ParserItera /\ ConsolaNoConecta
  <2>1. consola' = "error"
    BY <1>8 DEF ConsolaNoConecta
  <2>. QED  BY <2>1 DEF Senda
<1>9. CASE ~ParserItera /\ (ConsolaRecibe \/ ConsolaMuere)
  <2>1. consola = "espera" /\ consola' \in {"exito", "muerta"} /\ UNCHANGED <<redVars, hilo, size>>
    BY <1>9 DEF ConsolaRecibe, ConsolaMuere, kernelVars
  <2>. QED  BY <1>6, <1>9, <2>1
<1>10. CASE ~ParserItera /\ Entrega
  <2>1. consola \notin {"parser", "error"} /\ consola' = consola /\ hilo' = hilo /\ size' = size
    BY <1>5, <1>10 DEF Entrega, kernelVars
  <2>2. M' = M /\ Carga' = Carga
    BY <1>2, <1>10, BaseQuieta DEF M
  <2>3. C' = C
    BY <2>2 DEF C
  <2>4. ASSUME NEW x, Lleva(x) PROVE llegado' \in Seq(Byte) /\ red' \in Seq(Byte) /\ llegado' \o red' = x
    BY <1>10, <2>4, EntregaLleva DEF Lleva
  <2>5. Lleva(M) => Lleva(M)'
    BY <2>2, <2>4 DEF Lleva
  <2>6. Lleva(C) => Lleva(C)'
    BY <2>3, <2>4 DEF Lleva
  <2>7. Lleva(Carga) => Lleva(Carga)'
    BY <2>2, <2>4 DEF Lleva
  <2>. QED  BY <1>3, <1>4, <1>10, <2>1, <2>5, <2>6, <2>7
<1>11. CASE ~ParserItera /\ (SocketCop \/ SocketSize \/ SocketCarga)
  <2>1. llegado # << >> /\ UNCHANGED <<consola, red>> /\ Analizado
    <3>1. llegado # << >> /\ UNCHANGED <<consola, red>>
      BY <1>11 DEF SocketCop, SocketSize, SocketCarga, Recv
    <3>. QED  BY <3>1, YaAnalizado
  <2>2. consola' \notin {"parser", "error"}
    BY <1>5, <2>1
  <2>3. M' = M /\ Carga' = Carga
    BY <1>2, <1>11, BaseQuieta DEF M
  <2>4. C' = C
    BY <2>3 DEF C
  <2>. DEFINE A == Bytes(PROGRAMA, COP)
              B == Bytes(Len(Carga), SIZE_T)
  <2>5. /\ A \in Seq(Byte) /\ Len(A) = COP /\ Nro(A) = PROGRAMA
        /\ B \in Seq(Byte) /\ Len(B) = SIZE_T /\ Nro(B) = Len(Carga)
        /\ C \in Seq(Byte) /\ M = A \o C /\ C = B \o Carga
    BY <2>1, CabeceraTipo DEF M, C
  <2>6. Carga \in Seq(Byte) /\ Len(Carga) \in Nat
    BY <2>1, CargaTipo
  <2>. HIDE DEF A, B
  <2>7. ASSUME NEW a \in Seq(Byte), NEW b \in Seq(Byte), Lleva(a \o b), NEW n, n = Len(a), Recv(n)
        PROVE  /\ Completo(n) /\ Recibido(n) = a
               /\ llegado' \in Seq(Byte) /\ red' \in Seq(Byte) /\ llegado' \o red' = b
    <3>1. ~(Len(llegado) < n)
      BY <2>7 DEF Recv
    <3>2. Len(llegado) \in Nat /\ n \in Nat
      <4>1. llegado \in Seq(Byte)
        BY <2>7 DEF Lleva
      <4>. QED  BY <2>7, <4>1, LenProperties
    <3>3. Completo(n)
      BY <3>1, <3>2 DEF Completo
    <3>4. llegado' = SubSeq(llegado, n + 1, Len(llegado)) /\ red' = red /\ red \in Seq(Byte)
      BY <2>1, <2>7 DEF Recv, Lleva
    <3>. QED  BY <2>7, <3>3, <3>4, Recibe
  <2>8. CASE SocketCop
    <3>1. hilo = "cop" /\ Recv(COP)
      BY <2>8 DEF SocketCop
    <3>2. Lleva(A \o C)
      BY <1>4, <2>1, <2>2, <2>5, <3>1
    <3>3. /\ Completo(COP) /\ Recibido(COP) = A
          /\ llegado' \in Seq(Byte) /\ red' \in Seq(Byte) /\ llegado' \o red' = C
      BY <2>5, <2>7, <3>1, <3>2
    <3>4. hilo' = "size"
      BY <2>5, <2>8, <3>3 DEF SocketCop
    <3>5. Lleva(C)'
      BY <2>4, <3>3 DEF Lleva
    <3>. QED  BY <1>3, <1>11, <2>2, <3>4, <3>5
  <2>9. CASE SocketSize
    <3>1. hilo = "size" /\ Recv(SIZE_T)
      BY <2>9 DEF SocketSize
    <3>2. Lleva(B \o Carga)
      BY <1>4, <2>1, <2>2, <2>5, <3>1
    <3>3. /\ Completo(SIZE_T) /\ Recibido(SIZE_T) = B
          /\ llegado' \in Seq(Byte) /\ red' \in Seq(Byte) /\ llegado' \o red' = Carga
      BY <2>5, <2>6, <2>7, <3>1, <3>2
    <3>4. hilo' = "carga" /\ size' = Len(Carga)
      BY <2>5, <2>9, <3>3 DEF SocketSize
    <3>5. Lleva(Carga)'
      BY <2>3, <3>3 DEF Lleva
    <3>. QED  BY <1>3, <1>11, <2>2, <3>4, <3>5
  <2>10. CASE SocketCarga
    <3>1. hilo = "carga" /\ Recv(size)
      BY <2>10 DEF SocketCarga
    <3>2. size = Len(Carga) /\ Lleva(Carga)
      BY <1>4, <2>1, <2>2, <3>1
    <3>3. PICK c \in Seq(Byte) : c = Carga
      BY <2>6
    <3>4. << >> \in Seq(Byte) /\ c \o << >> = c
      BY VacioMas
    <3>5. Lleva(c \o << >>) /\ size = Len(c)
      BY <3>2, <3>3, <3>4
    <3>6. Completo(size)
      BY <2>7, <3>1, <3>4, <3>5
    <3>7. hilo' = "return"
      BY <2>10, <3>6 DEF SocketCarga
    <3>. QED  BY <1>3, <1>11, <2>2, <3>7
  <2>. QED  BY <1>11, <2>8, <2>9, <2>10
<1>12. CASE ~ParserItera /\ SocketCierre
  <2>1. consola' = consola /\ UNCHANGED <<redVars, size>>
    BY <1>12 DEF SocketCierre
  <2>2. CASE hilo' = hilo
    BY <1>6, <1>12, <2>1, <2>2
  <2>3. CASE hilo' # hilo
    <3>1. hilo \in {"size", "carga"} /\ red = << >> /\ llegado = << >>
      BY <1>12, <2>3 DEF SocketCierre
    <3>2. Analizado /\ consola \notin {"parser", "error"}
      BY <1>5, <3>1, YaAnalizado
    <3>3. Lleva(C) \/ Lleva(Carga)
      BY <1>4, <3>1, <3>2
    <3>4. C # << >>
      BY <3>2, CabeceraTipo DEF C
    <3>5. Carga # << >>
      <4>1. Len(Carga) > 0 /\ Len(<< >>) = 0
        BY <3>2, CargaTipo
      <4>. QED  BY <4>1
    <3>. QED  BY <3>1, <3>3, <3>4, <3>5, LlevaNada
  <2>. QED  BY <2>2, <2>3
<1>13. CASE ~ParserItera /\ (\/ OtraConsolaCierra \/ KernelDespacha \/ CpuRecibe \/ CpuCorte
                             \/ CpuDevuelve \/ KernelTermina \/ KernelVuelve \/ KernelCorte)
  <2>1. consola' = consola /\ UNCHANGED <<redVars, hilo, size>>
    BY <1>13 DEF OtraConsolaCierra, KernelDespacha, CpuRecibe, CpuCorte, CpuDevuelve,
         KernelTermina, KernelVuelve, KernelCorte, kernelVars
  <2>. QED  BY <1>6, <1>13, <2>1
<1>. QED  BY <1>1, <1>7, <1>8, <1>9, <1>10, <1>11, <1>12, <1>13 DEF Next, procesar_socket

\* Until the console sends, nothing travels and the thread waits.
LEMMA AntesSigue ==
  ASSUME Antes, Next
  PROVE  Antes'
<1>1. CASE ParserItera \/ ConsolaNoConecta
  <2>1. consola = "parser" /\ UNCHANGED <<redVars, hilo>>
    BY <1>1 DEF ParserItera, ConsolaNoConecta, kernelVars
  <2>. QED  BY <2>1 DEF Antes, redVars
<1>2. CASE ConsolaEnvia \/ ConsolaRecibe \/ ConsolaMuere
  BY <1>2 DEF ConsolaEnvia, ConsolaRecibe, ConsolaMuere, Antes
<1>3. CASE Entrega \/ procesar_socket
  <2>1. consola' = consola
    BY <1>3 DEF Entrega, procesar_socket, SocketCop, SocketSize, SocketCarga, SocketCierre, Recv
  <2>2. red # << >> \/ llegado # << >> \/ consola \in {"muerta", "exito"}
    BY <1>3 DEF Entrega, procesar_socket, SocketCop, SocketSize, SocketCarga, SocketCierre, Recv
  <2>. QED  BY <2>1, <2>2 DEF Antes
<1>4. CASE \/ OtraConsolaCierra \/ KernelDespacha \/ CpuRecibe \/ CpuCorte
           \/ CpuDevuelve \/ KernelTermina \/ KernelVuelve \/ KernelCorte
  <2>1. UNCHANGED <<consola, redVars, hilo>>
    BY <1>4 DEF OtraConsolaCierra, KernelDespacha, CpuRecibe, CpuCorte, CpuDevuelve,
         KernelTermina, KernelVuelve, KernelCorte, kernelVars
  <2>. QED  BY <2>1 DEF Antes, redVars
<1>. QED  BY <1>1, <1>2, <1>3, <1>4 DEF Next

\* Where the process is the console's, it is the one the file says.
LEMMA SuyoBasta ==
  ASSUME Retirado, Analiza, Antes, Suyo
  PROVE  ListadoFiel /\ PcbFiel
<1>1. Pasado => Analizado
  BY YaAnalizado
<1>2. ASSUME Analizado
      PROVE  /\ HastaExit(codigo) = Programa /\ tamanio \in Nat
             /\ \A j \in DOMAIN archivo.fuente : Correcta(archivo.fuente[j])
  BY <1>2, CodigoFiel, TamaniosAssumption DEF Analiza, Analizado, Correctas
<1>3. ListadoFiel
  <2>1. SUFFICES ASSUME NEW p \in listado
                 PROVE  /\ \A j \in DOMAIN archivo.fuente : Correcta(archivo.fuente[j])
                        /\ HastaExit(p.instrucciones) = Programa
                        /\ tamanio < 65536 => p.tamanio = tamanio
    BY DEF ListadoFiel
  <2>2. Analizado
    BY <1>1, <2>1 DEF Pasado
  <2>3. p = Base
    BY <2>1 DEF Suyo, SuyoDe
  <2>4. p.instrucciones = codigo /\ p.tamanio = tamanio % 65536
    BY <2>3 DEF Base, Pcb
  <2>5. tamanio < 65536 => tamanio % 65536 = tamanio
    BY <1>2, <2>2
  <2>. QED  BY <1>2, <2>2, <2>4, <2>5
<1>4. PcbFiel
  <2>1. SUFFICES ASSUME NEW p \in Pcbs
                 PROVE  /\ enviado = {p} /\ DelArchivo(p)
                        /\ p.pid = 1 /\ p.tabla_paginas = TABLA /\ p.tamanio = tamanio % 65536
    BY DEF PcbFiel
  <2>2. enviado = {p}
    <3>1. p \in cpu \cup devuelto \/ (retorno # << >> /\ p = Proceso(retorno))
      BY <2>1 DEF Pcbs
    <3>. QED  BY <3>1, Llegada DEF Suyo, SuyoDe
  <2>3. Propia(p)
    BY <2>2 DEF Suyo, SuyoDe
  <2>4. Analizado
    BY <1>1, <2>2 DEF Pasado
  <2>5. DelArchivo(p)
    <3>1. codigo \in Seq(Inst) /\ HastaExit(codigo) = Programa
      BY <2>4, CodigoFiel DEF Analiza
    <3>2. PICK c \in Seq(Inst) : c = codigo
      BY <3>1
    <3>l. PICK l : l = p.instrucciones
      OBVIOUS
    <3>3. /\ l \in Seq(Inst) /\ Len(l) = Len(c)
          /\ \A j \in 1 .. Len(c) :
               /\ l[j].operacion = c[j].operacion /\ l[j].arg1 = c[j].arg1
               /\ \/ l[j].arg2 = c[j].arg2
                  \/ j <= p.pc /\ l[j].operacion = 67 /\ l[j].arg2 \in Leibles
      BY <2>3, <3>2, <3>l DEF Propia, Conserva
    <3>4. /\ HastaExit(l) \in Seq(Inst) /\ Len(HastaExit(l)) = Len(HastaExit(c))
          /\ \A j \in 1 .. Len(HastaExit(l)) :
               j \in 1 .. Len(c) /\ HastaExit(l)[j] = l[j] /\ HastaExit(c)[j] = c[j]
      BY <3>3, MismaSalida
    <3>5. PICK h, k : h = HastaExit(l) /\ k = HastaExit(c)
      OBVIOUS
    <3>6. DOMAIN h = 1 .. Len(h) /\ Len(h) = Len(k)
      BY <3>4, <3>5, LenProperties
    <3>7. \A j \in 1 .. Len(h) : j \in 1 .. Len(c) /\ h[j] = l[j] /\ k[j] = c[j]
      BY <3>4, <3>5
    <3>8. Letra(<<"COPY", 0>>) = 67
      BY DEF Letra
    <3>9. h = HastaExit(p.instrucciones) /\ k = Programa
      BY <3>1, <3>2, <3>l, <3>5
    <3>. HIDE DEF Letra
    <3>. QED  BY <3>3, <3>6, <3>7, <3>8, <3>9 DEF DelArchivo
  <2>. QED  BY <2>2, <2>3, <2>5 DEF Propia
<1>. QED  BY <1>3, <1>4

-----------------------------------------------------------------------------
(* The invariant and its theorems                                          *)

Fiel == Retirado /\ Analiza /\ Antes /\ Intacto

LEMMA FielInicial == Init => Fiel
<1>. SUFFICES ASSUME Init PROVE Fiel
  OBVIOUS
<1>1. Antes /\ Senda /\ Suyo
  BY DEF Init, Antes, Senda, Suyo, SuyoDe, Lleno, Uno
<1>. QED  BY <1>1, RetiradoInicial, AnalizaInicial DEF Fiel, Intacto

\* A step taken when nothing has been cut leaves the process the console's, the one
\* that cuts included; and if it does not cut, the thread where it should be.
LEMMA FielPaso ==
  ASSUME Fiel, [Next]_vars
  PROVE  Fiel' /\ (~cortado => Suyo')
<1>1. Retirado' /\ Analiza'
  BY RetiradoSigue, AnalizaSigue DEF Fiel
<1>2. CASE UNCHANGED vars
  <2>1. /\ UNCHANGED <<consola, red, llegado, hilo, size, listado, devuelto, dispatch, retorno, cpu,
                     enviado, cortado>>
        /\ UNCHANGED parserVars
    BY <1>2 DEF vars, redVars, kernelVars, cpuVars, finVars
  <2>2. Antes'
    BY <2>1 DEF Fiel, Antes
  <2>3. ASSUME Senda PROVE Senda'
    <3>1. \A x : Lleva(x) => llegado' \in Seq(Byte) /\ red' \in Seq(Byte) /\ llegado' \o red' = x
      BY <2>1 DEF Lleva
    <3>2. Carga' = Carga /\ serializar_programa(codigo, tamanio)' = serializar_programa(codigo, tamanio)
      BY <2>1, BaseQuieta
    <3>. QED  BY <2>1, <2>3, <3>1, <3>2 DEF Senda, Lleva
  <2>4. ASSUME Suyo PROVE Suyo'
    <3>1. SuyoDe(listado', devuelto', dispatch', retorno', cpu', enviado')
      BY <2>1, <2>4 DEF Suyo
    <3>. QED  BY <2>1, <3>1, BaseQuieta
  <2>. QED  BY <1>1, <2>1, <2>2, <2>3, <2>4 DEF Fiel, Intacto
<1>3. CASE Next
  <2>1. Antes'
    BY <1>3, AntesSigue DEF Fiel
  <2>2. ~cortado' => ~cortado
    BY <1>3 DEF Next, procesar_socket, ParserItera, ConsolaEnvia, ConsolaNoConecta, ConsolaRecibe,
         ConsolaMuere, Entrega, SocketCop, SocketSize, SocketCarga, SocketCierre, Recv,
         OtraConsolaCierra, KernelDespacha, CpuRecibe, CpuCorte, CpuDevuelve, KernelTermina,
         KernelVuelve, KernelCorte, finVars
  <2>3. ~cortado => Suyo'
    BY <1>3, SuyoSigue DEF Fiel, Intacto
  <2>4. ~cortado' => Senda'
    BY <1>3, <2>2, SendaSigue DEF Fiel, Intacto
  <2>. QED  BY <1>1, <2>1, <2>2, <2>3, <2>4 DEF Fiel, Intacto
<1>. QED  BY <1>2, <1>3

\* The inductive invariant.
LEMMA FielSiempre == Spec => []Fiel
<1>1. Fiel /\ [Next]_vars => Fiel'
  BY FielPaso
<1>. QED  BY FielInicial, <1>1, PTL DEF Spec

\* While no recv has been cut short, the process the kernel lists is the one the file
\* says, with the size asked for if it fits, for every file and in however many pieces
\* the message arrives; of a file with a wrong line it lists none.
THEOREM ListadoFielCorrecta == Spec => [](~cortado => ListadoFiel)
<1>1. Fiel => (~cortado => ListadoFiel)
  BY SuyoBasta DEF Fiel, Intacto
<1>. QED  BY FielSiempre, <1>1, PTL

\* While no recv has been cut short, a PCB is received, on each of its trips to the CPU
\* and back, as it was sent, and is the file's program but for the arguments that its
\* executed COPYs have read: for every file, every size and every value memory gives.
THEOREM PcbFielCorrecta == Spec => [](~cortado => PcbFiel)
<1>1. Fiel => (~cortado => PcbFiel)
  BY SuyoBasta DEF Fiel, Intacto
<1>. QED  BY FielSiempre, <1>1, PTL

\* The first recv that is cut short lists no wrong process either: recv_programa
\* compares what it received with the size before it reads the program.
THEOREM CorteFiel == Spec => [][~cortado => ListadoFiel' /\ PcbFiel']_vars
<1>1. Retirado /\ Analiza /\ Antes /\ Suyo => ListadoFiel /\ PcbFiel
  BY SuyoBasta
<1>2. Fiel /\ [Next]_vars => Fiel' /\ (~cortado => Suyo')
  BY FielPaso
<1>3. Fiel' => Retirado' /\ Analiza' /\ Antes'
  BY DEF Fiel
<1>. QED  BY FielSiempre, <1>1, <1>2, <1>3, PTL DEF Spec
=============================================================================
