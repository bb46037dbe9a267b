-------------------------------- MODULE Mmu --------------------------------
(***************************************************************************)
(* How the CPU (cpu/src/cpu_main.c) reaches memory: READ, WRITE and COPY   *)
(* of one process after another, each access translated by the TLB or by   *)
(* two requests to the memory process, then made by a third.  A step is a  *)
(* request with its answer: the CPU waits for each one.                    *)
(***************************************************************************)
EXTENDS Memoria

CONSTANTS
  EntradasTlb,   \* ENTRADAS_TLB
  ReemplazoTlb   \* REEMPLAZO_TLB

ASSUME TlbAssumption ==
  /\ EntradasTlb \in Nat \ {0}
  /\ ReemplazoTlb \in {"FIFO", "LRU"}

VARIABLES
  tlb,          \* the list of TLB_t; ultima_referencia is the entry's place in
                \* the order of references, the last one the highest
  pcb,          \* the process main() is running, or Nadie
  fase,         \* where its instruction is: "ciclo", "tabla", "marco", "acceso"
  instruccion,  \* the instruction, or Nada between two
  nro,          \* what the last answer said: a second-level table or a frame
  leido         \* the last value ejecutarRead returned, of which process and page, if
                \* memory read where it was asked to; or Nada

mmuVars == <<tlb, pcb, fase, instruccion, nro, leido>>

Nada == << >>
TlbVacia == [i \in 1 .. EntradasTlb |-> [pagina |-> -1, marco |-> -1, ultima_referencia |-> i]]

\* decode: what an instruction that reaches memory asks for.
Instrucciones(p) ==
  [op : {"R"}, pag : Paginas(p)] \cup [op : {"W"}, pag : Paginas(p), dato : Datos]
  \cup [op : {"C"}, pag : Paginas(p), destino : Paginas(p)]

InitMmu ==
  /\ tlb = TlbVacia /\ pcb = Nadie /\ fase = "ciclo"
  /\ instruccion = Nada /\ nro = -1 /\ leido = Nada

TypeMmu ==
  /\ tlb \in [1 .. EntradasTlb -> [pagina : Int, marco : -1 .. Marcos - 1,
                                   ultima_referencia : 1 .. EntradasTlb]]
  /\ fase \in {"ciclo", "tabla", "marco", "acceso"}
  /\ fase # "ciclo" => pcb \in Pids /\ instruccion \in Instrucciones(pcb)
  /\ fase = "marco" => nro \in 0 .. Len(tablas2) - 1
  /\ fase = "acceso" => nro \in NrosMarco
  /\ leido = Nada \/ \E p \in Pids : leido \in {p} \X Paginas(p) \X Datos

-----------------------------------------------------------------------------
(* The TLB                                                                 *)

\* ultima_referencia = clock(): entry i becomes the last one referred to.
Referida(s, i) ==
  [j \in DOMAIN s |-> [s[j] EXCEPT !.ultima_referencia =
     IF j = i THEN Len(s) ELSE IF @ > s[i].ultima_referencia THEN @ - 1 ELSE @]]

\* An entry leaves its place in the list for the end, for another page.
Renueva(s, i, pag, marco) ==
  LET r == Referida(s, i)
  IN Append(RemoveAt(r, i), [r[i] EXCEPT !.pagina = pag, !.marco = marco])

reemplazo_tlb_FIFO(pag, marco) == Renueva(tlb, 1, pag, marco)

\* list_sort by ultima_referencia, the entry referred to longest ago first.
PorReferencia ==
  [k \in DOMAIN tlb |-> CHOOSE e \in ToSet(tlb) : e.ultima_referencia = k]
reemplazo_tlb_LRU(pag, marco) == Renueva(PorReferencia, 1, pag, marco)

\* Mutated form of AnotaMarco: it does not look for the frame first.
AnotaSinMirar(pag, marco) ==
  IF ReemplazoTlb = "LRU" THEN reemplazo_tlb_LRU(pag, marco)
  ELSE reemplazo_tlb_FIFO(pag, marco)

\* The TLB after a miss: the entry of the frame, if there is one (marco_en_tlb),
\* changes its page; otherwise one is replaced.
AnotaMarco(pag, marco) ==
  IF \E i \in DOMAIN tlb : tlb[i].marco = marco
  THEN Renueva(tlb, SelectInSeq(tlb, LAMBDA e : e.marco = marco), pag, marco)
  ELSE IF ReemplazoTlb = "LRU" THEN reemplazo_tlb_LRU(pag, marco)
  ELSE reemplazo_tlb_FIFO(pag, marco)

-----------------------------------------------------------------------------
(* The cycle                                                               *)

\* Mutated form of Despacha: limpiar_tlb is missing.
DespachaSinLimpiar(p) ==
  /\ pcb' = p
  /\ UNCHANGED <<tlb, fase, instruccion, nro, leido>>

\* main: recv_proceso, limpiar_tlb, pid_actual = pcb->pid
Despacha(p) ==
  /\ pcb' = p /\ tlb' = TlbVacia
  /\ UNCHANGED <<fase, instruccion, nro, leido>>

\* main: the burst is over, send_proceso and pcb_destroy
Devuelve(p) ==
  /\ pcb = p /\ fase = "ciclo"
  /\ pcb' = Nadie /\ leido' = Nada
  /\ UNCHANGED <<tlb, fase, instruccion, nro>>

\* Mutated form of Traduce: a hit answers the frame of the first entry.
TraducePrimera(ins) ==
  LET i == SelectInSeq(tlb, LAMBDA e : e.pagina = ins.pag)
  IN /\ instruccion' = ins
     /\ IF i # 0
        THEN fase' = "acceso" /\ nro' = tlb[1].marco /\ tlb' = Referida(tlb, i)
        ELSE fase' = "tabla" /\ nro' = -1 /\ tlb' = tlb

\* traducir_direccion, up to its first request: presente_en_tlb
Traduce(ins) ==
  LET i == SelectInSeq(tlb, LAMBDA e : e.pagina = ins.pag)
  IN /\ instruccion' = ins
     /\ IF i # 0
        THEN fase' = "acceso" /\ nro' = tlb[i].marco /\ tlb' = Referida(tlb, i)
        ELSE fase' = "tabla" /\ nro' = -1 /\ tlb' = tlb

\* fetch and decode; the operands are translated
CpuCiclo ==
  /\ fase = "ciclo" /\ pcb \in Pids
  /\ \E ins \in Instrucciones(pcb) : Traduce(ins)
  /\ leido' = Nada
  /\ UNCHANGED <<pcb, memoriaVars>>

entrada_tabla_1 == instruccion.pag \div EntradasPorTabla
entrada_tabla_2 == instruccion.pag % EntradasPorTabla

\* SOLICITUD_NRO_TABLA_2DO_NIVEL
CpuTabla ==
  /\ fase = "tabla"
  /\ obtener_nro_tabla_2do_nivel(pcb)
  /\ nro' = nro_tabla_2do_nivel(pcb, entrada_tabla_1)
  /\ fase' = "marco"
  /\ UNCHANGED <<tlb, pcb, instruccion, leido>>

\* SOLICITUD_NRO_MARCO, and the frame it answers goes to the TLB
CpuMarco ==
  /\ fase = "marco"
  /\ obtener_nro_marco_memoria(pcb, nro, entrada_tabla_2, entrada_tabla_1)
  /\ nro' = tablas2'[nro + 1][entrada_tabla_2].nro_marco
  /\ tlb' = AnotaMarco(instruccion.pag, nro')
  /\ fase' = "acceso"
  /\ UNCHANGED <<pcb, instruccion, leido>>

Termina == fase' = "ciclo" /\ instruccion' = Nada /\ nro' = -1 /\ tlb' = tlb

\* ejecutarRead: READ, and COPY's fetch_operands, after which COPY is a write of
\* the value read.  Only the low half of the offset is sent: memory reads where it
\* was asked to if the other half of its variable, not initialised, was zero
\* (entero), and elsewhere in its frames if it was not.
CpuLee ==
  /\ fase = "acceso" /\ instruccion.op \in {"R", "C"}
  /\ read_en_memoria(nro)
  /\ \E entero \in BOOLEAN : \E v \in IF entero THEN {memoria[nro]} ELSE Datos :
       /\ leido' = IF entero THEN <<pcb, instruccion.pag, v>> ELSE Nada
       /\ IF instruccion.op = "C"
          THEN Traduce([op |-> "W", pag |-> instruccion.destino, dato |-> v])
          ELSE Termina
  /\ UNCHANGED pcb

\* ejecutarWrite: WRITE
CpuEscribe ==
  /\ fase = "acceso" /\ instruccion.op = "W"
  /\ write_en_memoria(nro, instruccion.dato)
  /\ Termina /\ leido' = Nada
  /\ UNCHANGED pcb
=============================================================================
