------------------------------ MODULE Memoria ------------------------------
(***************************************************************************)
(* The memory process (memoria_utils.c, memoria_swap.c): the frames and    *)
(* their bitmap, the two levels of page tables, one swap file and one      *)
(* clock structure per process, and the operations of its two threads --   *)
(* the kernel's (create tables, suspend, eliminate) and the CPU's (walk    *)
(* the tables, bring a page in, read, write).  A page holds one datum: the *)
(* offset inside the page is the CPU's and memory adds it unseen.          *)
(***************************************************************************)
EXTENDS Clock, Integers, Sequences, SequencesExt

CONSTANTS
  Pids,
  Datos,               \* what a page may hold
  Cero,                \* what ftruncate leaves in a new swap file
  Basura,              \* an entry malloc left uninitialised
  Nadie,               \* pid 0, which no process has (pid_sig starts at 1)
  Marcos,              \* TAM_MEMORIA / TAM_PAGINA
  EntradasPorTabla,    \* ENTRADAS_POR_TABLA
  Reemplazo,           \* ALGORITMO_REEMPLAZO
  Tamanio              \* by pid: the process's size, in pages

ASSUME MemoriaAssumption ==
  /\ Cero \in Datos /\ Nadie \notin Pids
  /\ Marcos \in Nat /\ EntradasPorTabla \in Nat \ {0}
  /\ Reemplazo \in {"CLOCK", "CLOCK-M"}
  /\ Tamanio \in [Pids -> 1 .. EntradasPorTabla * EntradasPorTabla]

NrosMarco == 0 .. Marcos - 1
Entradas == 0 .. EntradasPorTabla - 1
Paginas(p) == 0 .. Tamanio[p] - 1

VARIABLES
  memoria,            \* by frame: what it holds
  ocupado,            \* bitarray_marcos_ocupados
  tablas1, tablas2,   \* lista_tablas_1er_nivel, lista_tablas_2do_nivel
  swap,               \* by pid: its file, by page; << >> if it has none
  estructuras,        \* estructuras_clock, by pid: marcos_en_memoria and puntero
  tabla,              \* PCB_t.tabla_paginas, by pid
  pid_actual,         \* the process the CPU last walked the tables for
  copiando            \* a process suspender_proceso has freed a frame of and
                      \* not yet copied it, or Nadie

tablasVars == <<tablas1, tabla>>
memoriaVars == <<memoria, ocupado, tablas1, tablas2, swap, estructuras, tabla,
                 pid_actual, copiando>>

Fila == [nro_marco : -1 .. Marcos - 1, presencia : BOOLEAN, uso : BOOLEAN,
         modificado : BOOLEAN]
SinMarcos == [marcos_en_memoria |-> << >>, puntero |-> 0]

InitMemoria ==
  /\ memoria = [m \in NrosMarco |-> Cero]
  /\ ocupado = [m \in NrosMarco |-> FALSE]
  /\ tablas1 = << >> /\ tablas2 = << >>
  /\ swap = [p \in Pids |-> << >>]
  /\ estructuras = [p \in Pids |-> SinMarcos]
  /\ tabla = [p \in Pids |-> 0]
  /\ pid_actual = Nadie
  /\ copiando = Nadie

TypeMemoria ==
  /\ memoria \in [NrosMarco -> Datos]
  /\ ocupado \in [NrosMarco -> BOOLEAN]
  /\ tablas1 \in Seq([Entradas -> -1 .. Len(tablas2) - 1])
  /\ tablas2 \in Seq([Entradas -> Fila \cup {Basura}])
  /\ \A p \in Pids : swap[p] \in [Paginas(p) -> Datos] \cup {<< >>}
  /\ \A p \in Pids :
       /\ estructuras[p].marcos_en_memoria \in
            Seq([nro_marco : NrosMarco, t : Nat, i : Entradas, nro_swap : Paginas(p)])
       /\ Len(estructuras[p].marcos_en_memoria) <= MarcosPorProceso
       /\ estructuras[p].puntero \in Posiciones
  /\ tabla \in [Pids -> Nat]
  /\ pid_actual \in Pids \cup {Nadie} /\ copiando \in Pids \cup {Nadie}

-----------------------------------------------------------------------------
(* The tables, numbered from 0 as lists are                                *)

\* marcos_actuales: the number of the page at entry j of the i-th table.
marcos_actuales(i, j) == i * EntradasPorTabla + j

fila(t, i) == tablas2[t + 1][i]
lista(p) == estructuras[p].marcos_en_memoria

\* The number of second-level tables a process needs, and each of them: a page
\* of the process is absent and points nowhere yet ({nro_pagina,0,0,0}; the
\* number is overwritten before it is read), an entry past its size keeps
\* what malloc left, but for nro_marco.
CantTablas(p) == (Tamanio[p] + EntradasPorTabla - 1) \div EntradasPorTabla
FilaNueva == [nro_marco |-> -1, presencia |-> FALSE, uso |-> FALSE, modificado |-> FALSE]
TablaNueva(p, i) ==
  [j \in Entradas |-> IF marcos_actuales(i, j) < Tamanio[p] THEN FilaNueva ELSE Basura]

\* CREAR_TABLA: crear_tablas, crear_archivo_swap, crear_estructura_clock
crear_tablas(p) ==
  /\ tablas2' = tablas2 \o [i \in 1 .. CantTablas(p) |-> TablaNueva(p, i - 1)]
  /\ tablas1' = Append(tablas1,
       [i \in Entradas |-> IF i < CantTablas(p) THEN Len(tablas2) + i ELSE -1])
  /\ tabla' = [tabla EXCEPT ![p] = Len(tablas1)]
  /\ swap' = [swap EXCEPT ![p] = [g \in Paginas(p) |-> Cero]]
  /\ estructuras' = [estructuras EXCEPT ![p] = SinMarcos]
  /\ UNCHANGED <<memoria, ocupado, pid_actual, copiando>>

-----------------------------------------------------------------------------
(* suspender_proceso and eliminar_estructuras: the thread of the kernel    *)

\* The first frame of the list is given back...
suspender_libera(p) ==
  /\ lista(p) # << >> /\ copiando = Nadie
  /\ ocupado' = [ocupado EXCEPT ![Head(lista(p)).nro_marco] = FALSE]
  /\ copiando' = p
  /\ UNCHANGED <<memoria, tablas2, swap, estructuras, tablasVars, pid_actual>>

\* Mutated form of suspender_copia: the page stays marked present.
suspender_copia_presente(p) ==
  /\ copiando = p
  /\ copiando' = Nadie
  /\ LET f == Head(lista(p))
     IN /\ swap' = [swap EXCEPT ![p][f.nro_swap] = memoria[f.nro_marco]]
        /\ tablas2' = [tablas2 EXCEPT ![f.t + 1][f.i].modificado = FALSE]
        /\ estructuras' = [estructuras EXCEPT ![p] =
             [marcos_en_memoria |-> Tail(@.marcos_en_memoria), puntero |-> 0]]
  /\ UNCHANGED <<memoria, ocupado, tablasVars, pid_actual>>

\* Mutated form of suspender_copia: the bits are cleared before they are looked at.
suspender_copia_limpia(p) ==
  /\ copiando = p
  /\ copiando' = Nadie
  /\ LET f == Head(lista(p))
     IN /\ tablas2' = [tablas2 EXCEPT ![f.t + 1][f.i] =
             [@ EXCEPT !.presencia = FALSE, !.uso = FALSE, !.modificado = FALSE]]
        /\ estructuras' = [estructuras EXCEPT ![p] =
             [marcos_en_memoria |-> Tail(@.marcos_en_memoria), puntero |-> 0]]
  /\ UNCHANGED <<memoria, ocupado, swap, tablasVars, pid_actual>>

\* ... and then copied to swap if it was modified, and forgotten.
suspender_copia(p) ==
  /\ copiando = p
  /\ copiando' = Nadie
  /\ LET f == Head(lista(p))
     IN /\ swap' = IF fila(f.t, f.i).modificado
                   THEN [swap EXCEPT ![p][f.nro_swap] = memoria[f.nro_marco]] ELSE swap
        /\ tablas2' = [tablas2 EXCEPT ![f.t + 1][f.i] =
             [@ EXCEPT !.presencia = FALSE, !.uso = FALSE, !.modificado = FALSE]]
        /\ estructuras' = [estructuras EXCEPT ![p] =
             [marcos_en_memoria |-> Tail(@.marcos_en_memoria), puntero |-> 0]]
  /\ UNCHANGED <<memoria, ocupado, tablasVars, pid_actual>>

\* Mutated form of eliminar_estructuras: the bitmap is left as it was.
eliminar_sin_liberar(p) ==
  /\ swap' = [swap EXCEPT ![p] = << >>]
  /\ estructuras' = [estructuras EXCEPT ![p] = SinMarcos]
  /\ UNCHANGED <<memoria, ocupado, tablas2, copiando, tablasVars, pid_actual>>

\* ELIMINAR_ESTRUCTURAS: the bits of its frames, the swap file and the clock
\* structure; the page tables stay.
eliminar_estructuras(p) ==
  /\ ocupado' = [m \in NrosMarco |->
       ocupado[m] /\ \A i \in DOMAIN lista(p) : lista(p)[i].nro_marco # m]
  /\ swap' = [swap EXCEPT ![p] = << >>]
  /\ estructuras' = [estructuras EXCEPT ![p] = SinMarcos]
  /\ UNCHANGED <<memoria, tablas2, copiando, tablasVars, pid_actual>>

-----------------------------------------------------------------------------
(* The thread of the CPU                                                   *)

\* obtener_nro_tabla_2do_nivel, of entry i; -1 would be a segmentation fault.
nro_tabla_2do_nivel(p, i) == tablas1[tabla[p] + 1][i]

obtener_nro_tabla_2do_nivel(p) ==
  /\ pid_actual' = p
  /\ UNCHANGED <<memoria, ocupado, tablas1, tablas2, swap, estructuras, tabla, copiando>>

\* The bits of the frames of a process, in the order of its list.
BitsDe(p) ==
  [k \in Posiciones |-> LET f == lista(p)[k + 1]
                        IN [uso |-> fila(f.t, f.i).uso, modificado |-> fila(f.t, f.i).modificado]]

usar_algoritmo(p) ==
  IF Reemplazo = "CLOCK" THEN clock_simple(BitsDe(p), estructuras[p].puntero)
  ELSE clock_modificado(BitsDe(p), estructuras[p].puntero)

\* pagina->presencia == 1: only its use is recorded.
MarcoPresente(t, i) ==
  /\ fila(t, i).presencia
  /\ tablas2' = [tablas2 EXCEPT ![t + 1][i].uso = TRUE]
  /\ UNCHANGED <<memoria, ocupado, swap, estructuras, copiando, tablasVars>>

\* The page brought in: its entry of the tables, and its frame's content.
FilaCargada(m) == [nro_marco |-> m, presencia |-> TRUE, uso |-> TRUE, modificado |-> FALSE]

\* Mutated form of agregar_pagina: the frame is not looked for in the list.
agregar_al_final(l, f) == Append(l, f)

\* agregar_pagina_a_estructura_clock: a frame already in the list changes its
\* page where it is, another goes last.
agregar_pagina(l, f) ==
  IF \E k \in DOMAIN l : l[k].nro_marco = f.nro_marco
  THEN [k \in DOMAIN l |-> IF l[k].nro_marco = f.nro_marco THEN f ELSE l[k]]
  ELSE Append(l, f)

\* PAGE FAULT of a process with frames to spare: buscar_marco_libre, the page
\* comes from swap and its frame joins the clock structure.
MarcoLibre(p, t, i, pag) ==
  /\ ~fila(t, i).presencia
  /\ Len(lista(p)) # MarcosPorProceso
  /\ \E m \in NrosMarco :
       /\ ~ocupado[m] /\ \A k \in 0 .. m - 1 : ocupado[k]
       /\ ocupado' = [ocupado EXCEPT ![m] = TRUE]
       /\ memoria' = [memoria EXCEPT ![m] = swap[p][pag]]
       /\ tablas2' = [tablas2 EXCEPT ![t + 1][i] = FilaCargada(m)]
       /\ estructuras' = [estructuras EXCEPT ![p].marcos_en_memoria =
            agregar_pagina(@, [nro_marco |-> m, t |-> t, i |-> i, nro_swap |-> pag])]
  /\ UNCHANGED <<swap, copiando, tablasVars>>

\* Mutated form of SwapTras: the modified bit is not looked at.
SwapSinTras(p, f) == swap

\* reemplazo_por_clock: what the victim f leaves in the swap file.
SwapTras(p, f) ==
  IF fila(f.t, f.i).modificado
  THEN [swap EXCEPT ![p][f.nro_swap] = memoria[f.nro_marco]] ELSE swap

\* The entries <<table, index>> the search took the use bit from.
Despojados(p, bits) ==
  {<<lista(p)[k + 1].t, lista(p)[k + 1].i>> : k \in {j \in Posiciones : ~bits[j].uso}}
TablasSin(S) ==
  [n \in DOMAIN tablas2 |-> [j \in Entradas |->
     IF <<n - 1, j>> \in S THEN [tablas2[n][j] EXCEPT !.uso = FALSE] ELSE tablas2[n][j]]]

\* PAGE FAULT of a process with all its frames: the algorithm chooses a victim,
\* its page goes to swap if it was modified, and the new page takes its frame and
\* its place in the clock structure.  The page is read from swap before.
MarcoReemplazado(p, t, i, pag) ==
  /\ ~fila(t, i).presencia
  /\ Len(lista(p)) = MarcosPorProceso
  /\ LET r == usar_algoritmo(p)
         f == lista(p)[r.victima + 1]
     IN /\ swap' = SwapTras(p, f)
        /\ memoria' = [memoria EXCEPT ![f.nro_marco] = swap[p][pag]]
        /\ tablas2' = [TablasSin(Despojados(p, r.bits)) EXCEPT
             ![f.t + 1][f.i].presencia = FALSE, ![f.t + 1][f.i].modificado = FALSE,
             ![t + 1][i] = FilaCargada(f.nro_marco)]
        /\ estructuras' = [estructuras EXCEPT ![p] =
             [marcos_en_memoria |-> agregar_pagina(@.marcos_en_memoria,
                [nro_marco |-> f.nro_marco, t |-> t, i |-> i, nro_swap |-> pag]),
              puntero |-> r.puntero]]
  /\ UNCHANGED <<ocupado, copiando, tablasVars>>

\* SOLICITUD_NRO_MARCO: obtener_nro_marco_memoria, with index_tabla_1er_nivel i1
obtener_nro_marco_memoria(p, t, i, i1) ==
  /\ pid_actual' = p
  /\ LET pag == marcos_actuales(i1, i)
     IN MarcoPresente(t, i) \/ MarcoLibre(p, t, i, pag) \/ MarcoReemplazado(p, t, i, pag)

\* obtener_pagina: the page pid_actual has in a frame
obtener_pagina(m) ==
  CHOOSE f \in ToSet(lista(pid_actual)) : f.nro_marco = m

\* read_en_memoria and write_en_memoria
read_en_memoria(m) ==
  /\ LET f == obtener_pagina(m) IN tablas2' = [tablas2 EXCEPT ![f.t + 1][f.i].uso = TRUE]
  /\ UNCHANGED <<memoria, ocupado, swap, estructuras, copiando, tablasVars, pid_actual>>

\* Mutated form of write_en_memoria: the page is not marked modified.
write_sin_marcar(m, dato) ==
  /\ memoria' = [memoria EXCEPT ![m] = dato]
  /\ LET f == obtener_pagina(m) IN tablas2' = [tablas2 EXCEPT ![f.t + 1][f.i].uso = TRUE]
  /\ UNCHANGED <<ocupado, swap, estructuras, copiando, tablasVars, pid_actual>>

write_en_memoria(m, dato) ==
  /\ memoria' = [memoria EXCEPT ![m] = dato]
  /\ LET f == obtener_pagina(m)
     IN tablas2' = [tablas2 EXCEPT ![f.t + 1][f.i] = [@ EXCEPT !.uso = TRUE, !.modificado = TRUE]]
  /\ UNCHANGED <<ocupado, swap, estructuras, copiando, tablasVars, pid_actual>>
=============================================================================
