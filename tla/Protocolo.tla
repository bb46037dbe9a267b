----------------------------- MODULE Protocolo -----------------------------
(***************************************************************************)
(* shared/src/protocol.c, the two messages in use: PROGRAMA (console to    *)
(* kernel) and PROCESO (kernel to CPU and back).  A message is a sequence  *)
(* of bytes: op_code, size of the payload, payload; numbers are little     *)
(* endian and two's complement (x86-64).                                   *)
(***************************************************************************)
EXTENDS Integers, Sequences, FiniteSetsExt, SequencesExt

PROGRAMA == 0
PROCESO == 1
INTERRUPTION == 2
EXIT == 3
BLOCKED == 5

\* sizeof op_code, size_t, int32_t, uint16_t, double, instruccion_t as it is sent
COP == 4
SIZE_T == 8
INT32 == 4
UINT16 == 2
DOUBLE == 8
INST == 1 + 2 * INT32

CONSTANT Enorme  \* bound: TLC's integers are short, a number above it reads as it

\* No uint16_t is above it; list_size, which gives the lengths, is an int.
ASSUME EnormeAssumption == Enorme \in Nat /\ Enorme >= 65536 /\ Enorme <= 2147483647

\* memcpy of a number into n bytes, of n bytes into a number without sign, and of
\* INT32 into one with it.
Bytes(x, n) ==
  LET q[i \in 0 .. n] == IF i = 0 THEN x ELSE q[i - 1] \div 256
  IN [i \in 1 .. n |-> q[i - 1] % 256]
Nro(s) ==
  LET v[i \in 0 .. Len(s)] ==
        IF i = 0 THEN 0 ELSE Min({s[Len(s) + 1 - i] + 256 * v[i - 1], Enorme})
  IN v[Len(s)]
Entero(s) ==
  s[1] + 256 * (s[2] + 256 * (s[3] + 256 * (IF s[4] >= 128 THEN s[4] - 256 ELSE s[4])))

\* n bytes of a stream from its byte d (counted from zero), as acumulador moves
Campo(s, d, n) == SubSeq(s, d + 1, d + n)

SerializaInst(i) == <<i.operacion>> \o Bytes(i.arg1, INT32) \o Bytes(i.arg2, INT32)
DeserializaInst(s, d) ==
  [operacion |-> s[d + 1], arg1 |-> Entero(Campo(s, d + 1, INT32)),
   arg2 |-> Entero(Campo(s, d + 1 + INT32, INT32))]
SerializaLista(l) ==
  LET insts == [j \in DOMAIN l |-> SerializaInst(l[j])]
  IN [k \in 1 .. INST * Len(l) |-> insts[(k - 1) \div INST + 1][((k - 1) % INST) + 1]]
DeserializaLista(s, d, n) == [j \in 1 .. n |-> DeserializaInst(s, d + (j - 1) * INST)]

Mensaje(cop, carga) == Bytes(cop, COP) \o Bytes(Len(carga), SIZE_T) \o carga

serializar_programa(l, tamanio) ==
  Mensaje(PROGRAMA, Bytes(Len(l), SIZE_T) \o SerializaLista(l) \o Bytes(tamanio, UINT16))

deserializar_programa(s) ==
  LET n == Nro(Campo(s, 0, SIZE_T))
  IN [instrucciones |-> DeserializaLista(s, SIZE_T, n),
      tamanio |-> Nro(Campo(s, SIZE_T + n * INST, UINT16))]

serializar_proceso(p, cop) ==
  Mensaje(cop, Bytes(p.pid, UINT16) \o Bytes(p.tamanio, UINT16)
               \o Bytes(Len(p.instrucciones), SIZE_T) \o SerializaLista(p.instrucciones)
               \o Bytes(p.pc, INT32) \o Bytes(p.tabla_paginas, INT32)
               \o Bytes(p.est_rafaga, DOUBLE))

\* Mutated form of deserializar_proceso: tabla_paginas is read before pc.
deserializar_proceso_cambiado(s) ==
  LET n == Nro(Campo(s, 2 * UINT16, SIZE_T))
      d == 2 * UINT16 + SIZE_T + n * INST
  IN [pid |-> Nro(Campo(s, 0, UINT16)), tamanio |-> Nro(Campo(s, UINT16, UINT16)),
      instrucciones |-> DeserializaLista(s, 2 * UINT16 + SIZE_T, n),
      pc |-> Nro(Campo(s, d + INT32, INT32)), tabla_paginas |-> Nro(Campo(s, d, INT32)),
      est_rafaga |-> Nro(Campo(s, d + 2 * INT32, DOUBLE))]

deserializar_proceso(s) ==
  LET n == Nro(Campo(s, 2 * UINT16, SIZE_T))
      d == 2 * UINT16 + SIZE_T + n * INST
  IN [pid |-> Nro(Campo(s, 0, UINT16)), tamanio |-> Nro(Campo(s, UINT16, UINT16)),
      instrucciones |-> DeserializaLista(s, 2 * UINT16 + SIZE_T, n),
      pc |-> Nro(Campo(s, d, INT32)), tabla_paginas |-> Nro(Campo(s, d + INT32, INT32)),
      est_rafaga |-> Nro(Campo(s, d + 2 * INT32, DOUBLE))]
=============================================================================
