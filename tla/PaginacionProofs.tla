-------------------------- MODULE PaginacionProofs --------------------------
(***************************************************************************)
(* Proofs about Paginacion, for every number of processes, frames, pages,  *)
(* table and TLB entries, either algorithm of each replacement: what the   *)
(* page tables, the clock structures, the bitmap and the TLB say of each   *)
(* other, and that together they give each process an address space.       *)
(***************************************************************************)
EXTENDS Paginacion, ClockProofs, Listas

-----------------------------------------------------------------------------
(* The inductive invariant                                                 *)

\* An element of marcos_en_memoria, and one of the TLB.
MarcoEnLista == [nro_marco : NrosMarco, t : Nat, i : Entradas, nro_swap : Nat]
EntradaTlb == [pagina : Int, marco : -1 .. Marcos - 1, ultima_referencia : 1 .. EntradasTlb]

\* The type of each of memory's variables, and of the rest.
Tipos ==
  /\ memoria \in [NrosMarco -> Datos] /\ ocupado \in [NrosMarco -> BOOLEAN]
  /\ tablas1 \in Seq([Entradas -> -1 .. Len(tablas2) - 1])
  /\ tablas2 \in Seq([Entradas -> Fila \cup {Basura}])
  /\ swap = [p \in Pids |-> swap[p]]
  /\ \A p \in Pids : swap[p] \in [Paginas(p) -> Datos] \cup {<< >>}
  /\ estructuras \in [Pids -> [marcos_en_memoria : Seq(MarcoEnLista), puntero : Posiciones]]
  /\ \A p \in Pids : Len(lista(p)) <= MarcosPorProceso
  /\ tabla \in [Pids -> Nat]
  /\ pid_actual \in Pids \cup {Nadie} /\ copiando \in Pids \cup {Nadie}
TiposResto ==
  /\ pcb \in Pids \cup {Nadie}
  /\ leido = Nada \/ \E p \in Pids : leido \in {p} \X Paginas(p) \X Datos
  /\ estado \in [Pids -> K!Valores] /\ suspende \in Pids \cup {Nadie}

\* Memory has the structures of p.
Vivo(p) == swap[p] # << >>

\* Where the entry of a page is: its second-level table and the index there.
Donde(p, g) == <<nro_tabla_2do_nivel(p, g \div EntradasPorTabla), g % EntradasPorTabla>>

\* Each page of a process with structures has an entry, of its own.
Tablas ==
  /\ \A p \in Pids : Vivo(p) =>
       /\ tabla[p] + 1 \in DOMAIN tablas1
       /\ \A g \in Paginas(p) : /\ Donde(p, g)[1] + 1 \in DOMAIN tablas2
                                /\ Entrada(p, g) \in Fila
  /\ \A p, q \in Pids : \A g \in Paginas(p) : \A h \in Paginas(q) :
       Vivo(p) /\ Vivo(q) /\ Donde(p, g) = Donde(q, h) => p = q /\ g = h

\* The frame suspender_proceso has freed and is yet to copy is no longer p's
\* for good.
Firme(p, i) == ~(copiando = p /\ i = 1)

\* The clock structures and the tables say the same, and the bitmap says which
\* frames are taken for good, once each.
EnListaDe(p) ==
  /\ ~Vivo(p) => lista(p) = << >>
  /\ \A i \in DOMAIN lista(p) :
       LET f == lista(p)[i]
       IN /\ f.nro_swap \in Paginas(p) /\ <<f.t, f.i>> = Donde(p, f.nro_swap)
          /\ Entrada(p, f.nro_swap).presencia
          /\ Entrada(p, f.nro_swap).nro_marco = f.nro_marco
  /\ \A i, j \in DOMAIN lista(p) : lista(p)[i].nro_marco = lista(p)[j].nro_marco => i = j
  /\ Vivo(p) => \A g \in Paginas(p) : Entrada(p, g).presencia =>
       \E i \in DOMAIN lista(p) : lista(p)[i].nro_swap = g
EnLista == \A p \in Pids : EnListaDe(p)
Repartidos ==
  /\ \A p, q \in Pids : \A i \in DOMAIN lista(p) : \A j \in DOMAIN lista(q) :
       /\ lista(p)[i].nro_marco = lista(q)[j].nro_marco
       /\ Firme(p, i) /\ Firme(q, j)
       => p = q
  /\ \A p \in Pids : \A i \in DOMAIN lista(p) : Firme(p, i) => ocupado[lista(p)[i].nro_marco]
  /\ \A m \in NrosMarco : ocupado[m] =>
       \E p \in Pids : \E i \in DOMAIN lista(p) : Firme(p, i) /\ lista(p)[i].nro_marco = m

IMem == Tipos /\ Tablas /\ EnLista /\ Repartidos

\* The kernel: who has structures, who is running, who is being suspended.
Nucleo ==
  /\ \A p \in Pids :
       /\ estado[p] \in {"ready", "exec", "blocked", "susp_blocked", "susp_ready"} => Vivo(p)
       /\ estado[p] \in {"llega", "new"} => ~Vivo(p)
       /\ estado[p] = "exec" <=> pcb = p
  /\ suspende # Nadie => estado[suspende] = "blocked"
  /\ copiando # Nadie => copiando = suspende /\ lista(copiando) # << >>

\* A TLB in its place: references in order, no page twice, none without a frame.
TlbBien(s) ==
  /\ s \in [1 .. EntradasTlb -> EntradaTlb]
  /\ \A i, j \in 1 .. EntradasTlb : s[i].ultima_referencia = s[j].ultima_referencia => i = j
  /\ \A k \in 1 .. EntradasTlb : \E i \in 1 .. EntradasTlb : s[i].ultima_referencia = k
  /\ \A i \in 1 .. EntradasTlb : s[i].pagina = -1 => s[i].marco = -1
  /\ \A i, j \in 1 .. EntradasTlb : s[i].pagina # -1 /\ s[i].pagina = s[j].pagina => i = j

\* Of the running process, an entry of the TLB is right, and memory knows whose
\* frames the TLB may answer.
TlbDelPcb ==
  pcb # Nadie =>
    \A i \in 1 .. EntradasTlb : tlb[i].pagina # -1 =>
      /\ pid_actual = pcb /\ tlb[i].pagina \in Paginas(pcb)
      /\ Entrada(pcb, tlb[i].pagina).presencia
      /\ Entrada(pcb, tlb[i].pagina).nro_marco = tlb[i].marco

\* Between the requests of an instruction.
Ciclo ==
  /\ fase \in {"ciclo", "tabla", "marco", "acceso"}
  /\ fase # "ciclo" => pcb \in Pids /\ instruccion \in Instrucciones(pcb)
  /\ fase \in {"tabla", "marco"} => \A i \in 1 .. EntradasTlb : tlb[i].pagina # instruccion.pag
  /\ fase = "marco" => /\ pid_actual = pcb /\ nro = nro_tabla_2do_nivel(pcb, entrada_tabla_1)
  /\ fase = "acceso" =>
       /\ pid_actual = pcb
       /\ \E i \in DOMAIN lista(pcb) : /\ lista(pcb)[i].nro_marco = nro
                                       /\ lista(pcb)[i].nro_swap = instruccion.pag

IInv == IMem /\ TiposResto /\ Nucleo /\ TlbBien(tlb) /\ TlbDelPcb /\ Ciclo

\* Until a page fault takes a frame that is being copied, a frame has one owner even
\* while it is copied.
UnDueno ==
  \A p, q \in Pids : \A i \in DOMAIN lista(p) : \A j \in DOMAIN lista(q) :
    lista(p)[i].nro_marco = lista(q)[j].nro_marco => p = q

-----------------------------------------------------------------------------
(* Pages and entries                                                       *)

\* A page number is a table and an index in it.
LEMMA Division ==
  ASSUME NEW p \in Pids, NEW g \in Paginas(p)
  PROVE  /\ g \in Nat /\ g \div EntradasPorTabla \in Entradas /\ g % EntradasPorTabla \in Entradas
         /\ marcos_actuales(g \div EntradasPorTabla, g % EntradasPorTabla) = g
         /\ g \div EntradasPorTabla < CantTablas(p)
         /\ CantTablas(p) \in 1 .. EntradasPorTabla
<1>. DEFINE E == EntradasPorTabla
            n == Tamanio[p]
<1>1. E \in Nat \ {0} /\ n \in 1 .. E * E /\ g \in Nat /\ g < n
  BY MemoriaAssumption DEF Paginas
<1>2. g % E \in 0 .. E - 1 /\ g \div E \in Nat /\ (g \div E) * E + (g % E) = g
  BY <1>1
<1>3. CantTablas(p) \in 1 .. E
  BY <1>1 DEF CantTablas
<1>4. g \div E < CantTablas(p)
  BY <1>1 DEF CantTablas
<1>. QED  BY <1>1, <1>2, <1>3, <1>4 DEF Entradas, marcos_actuales

LEMMA DivisionUnica ==
  ASSUME NEW p \in Pids, NEW q \in Pids, NEW g \in Paginas(p), NEW h \in Paginas(q),
         g \div EntradasPorTabla = h \div EntradasPorTabla,
         g % EntradasPorTabla = h % EntradasPorTabla
  PROVE  g = h
<1>1. g \in Nat /\ h \in Nat /\ EntradasPorTabla \in Nat \ {0}
  BY Division, MemoriaAssumption
<1>. QED  BY <1>1

\* The second-level tables as a whole: the places in them and what each holds.
TablasTipo == Seq([Entradas -> Fila \cup {Basura}])
Sitios(s) == {d \in Int \X Entradas : d[1] + 1 \in 1 .. Len(s)}
FilaEn(s, d) == s[d[1] + 1][d[2]]
Escrita(s, d, x) == [s EXCEPT ![d[1] + 1][d[2]] = x]

LEMMA EscribeSitio ==
  ASSUME NEW s \in TablasTipo, NEW d \in Sitios(s), NEW x \in Fila
  PROVE  /\ Escrita(s, d, x) \in TablasTipo /\ Len(Escrita(s, d, x)) = Len(s)
         /\ Sitios(Escrita(s, d, x)) = Sitios(s)
         /\ \A e \in Sitios(s) :
              FilaEn(Escrita(s, d, x), e) = IF e = d THEN x ELSE FilaEn(s, e)
<1>. DEFINE z == Escrita(s, d, x)
            T == [Entradas -> Fila \cup {Basura}]
            t == d[1] + 1
            i == d[2]
<1>1. s \in Seq(T) /\ t \in 1 .. Len(s) /\ i \in Entradas /\ s[t] \in T
  <2>1. s \in Seq(T) /\ t \in 1 .. Len(s) /\ i \in Entradas
    BY DEF TablasTipo, Sitios
  <2>. HIDE DEF T, t
  <2>. QED  BY <2>1
<1>. DEFINE y == [s[t] EXCEPT ![i] = x]
<1>2. y \in T /\ z = [s EXCEPT ![t] = y] /\ y[i] = x /\ \A j \in Entradas : j # i => y[j] = s[t][j]
  <2>. HIDE DEF t, i
  <2>. QED  BY <1>1 DEF t, i, Escrita
<1>. HIDE DEF T, t, i, y, z
<1>3. /\ z \in Seq(T) /\ Len(z) = Len(s)
      /\ \A j \in 1 .. Len(s) : z[j] = IF j = t THEN y ELSE s[j]
  <2>1. s \in Seq(T) /\ t \in 1 .. Len(s) /\ y \in T
    BY <1>1, <1>2
  <2>2. /\ [s EXCEPT ![t] = y] \in Seq(T) /\ Len([s EXCEPT ![t] = y]) = Len(s)
        /\ \A j \in 1 .. Len(s) : [s EXCEPT ![t] = y][j] = IF j = t THEN y ELSE s[j]
    BY <2>1, ExceptSeq
  <2>. QED  BY <1>2, <2>2
<1>4. ASSUME NEW e \in Sitios(s) PROVE FilaEn(z, e) = IF e = d THEN x ELSE FilaEn(s, e)
  <2>1. /\ e[1] + 1 \in 1 .. Len(s) /\ e[2] \in Entradas /\ e[1] \in Int /\ d[1] \in Int
        /\ e = <<e[1], e[2]>> /\ d = <<d[1], d[2]>>
    BY DEF Sitios
  <2>2. e = d <=> (e[1] + 1 = t /\ e[2] = i)
    BY <2>1 DEF t, i
  <2>3. CASE e = d
    BY <1>2, <1>3, <2>1, <2>2, <2>3 DEF FilaEn
  <2>4. CASE e # d /\ e[1] + 1 = t
    BY <1>2, <1>3, <2>1, <2>2, <2>4 DEF FilaEn
  <2>5. CASE e # d /\ e[1] + 1 # t
    BY <1>3, <2>1, <2>5 DEF FilaEn
  <2>. QED  BY <2>3, <2>4, <2>5
<1>6. Sitios(z) = Sitios(s)
  BY <1>3 DEF Sitios
<1>. QED  BY <1>3, <1>4, <1>6 DEF TablasTipo, T, z

\* Each page has a place.
LEMMA SitioDe ==
  ASSUME Tipos, Tablas
  PROVE  /\ tablas2 \in TablasTipo
         /\ \A p \in Pids : Vivo(p) => \A g \in Paginas(p) :
              Donde(p, g) \in Sitios(tablas2) /\ Entrada(p, g) \in Fila
         /\ \A p, g : Entrada(p, g) = FilaEn(tablas2, Donde(p, g))
<1>1. tablas2 \in TablasTipo
  BY DEF Tipos, TablasTipo
<1>2. ASSUME NEW p \in Pids, Vivo(p), NEW g \in Paginas(p)
      PROVE  Donde(p, g) \in Sitios(tablas2)
  <2>1. tablas1 \in Seq([Entradas -> -1 .. Len(tablas2) - 1]) /\ Len(tablas2) \in Nat
    BY DEF Tipos
  <2>2. /\ tabla[p] + 1 \in DOMAIN tablas1 /\ g \div EntradasPorTabla \in Entradas
        /\ g % EntradasPorTabla \in Entradas /\ Donde(p, g)[1] + 1 \in DOMAIN tablas2
    BY <1>2, Division DEF Tablas
  <2>3. tablas1[tabla[p] + 1] \in [Entradas -> -1 .. Len(tablas2) - 1]
    BY <2>1, <2>2
  <2>4. nro_tabla_2do_nivel(p, g \div EntradasPorTabla) \in Int
    BY <2>1, <2>2, <2>3 DEF nro_tabla_2do_nivel
  <2>5. DOMAIN tablas2 = 1 .. Len(tablas2)
    BY <1>1 DEF TablasTipo
  <2>. QED  BY <2>2, <2>4, <2>5 DEF Sitios, Donde
<1>3. \A p, g : Entrada(p, g) = FilaEn(tablas2, Donde(p, g))
  BY DEF Entrada, FilaEn, fila, Donde
<1>. QED  BY <1>1, <1>2, <1>3 DEF Tablas

\* The directory of tables stays.
LEMMA DondeSigue ==
  ASSUME UNCHANGED <<tablas1, tabla>>
  PROVE  /\ \A p, g : Donde(p, g)' = Donde(p, g)
         /\ \A p, g : Entrada(p, g)' = FilaEn(tablas2', Donde(p, g))
BY DEF Donde, nro_tabla_2do_nivel, Entrada, FilaEn, fila

LEMMA EsEscrita ==
  ASSUME NEW s, NEW t, NEW i, NEW d, NEW x, <<t, i>> = d
  PROVE  [s EXCEPT ![t + 1][i] = x] = Escrita(s, d, x)
BY DEF Escrita

\* A page's entry is written: the others stay.
LEMMA CambiaFila ==
  ASSUME Tipos, Tablas, NEW p \in Pids, Vivo(p), NEW g \in Paginas(p), NEW x \in Fila,
         tablas2' = Escrita(tablas2, Donde(p, g), x), UNCHANGED <<tablas1, tabla>>
  PROVE  /\ tablas2' \in TablasTipo /\ Len(tablas2') = Len(tablas2)
         /\ Entrada(p, g)' = x
         /\ \A q \in Pids : \A h \in Paginas(q) :
              Vivo(q) /\ ~(q = p /\ h = g) => Entrada(q, h)' = Entrada(q, h)
<1>. DEFINE d == Donde(p, g)
            z == tablas2'
<1>1. z = Escrita(tablas2, d, x)
  OBVIOUS
<1>2. tablas2 \in TablasTipo /\ d \in Sitios(tablas2)
  BY SitioDe
<1>. HIDE DEF d, z
<1>3. /\ z \in TablasTipo /\ Len(z) = Len(tablas2)
      /\ \A e \in Sitios(tablas2) : FilaEn(z, e) = IF e = d THEN x ELSE FilaEn(tablas2, e)
  BY <1>1, <1>2, EscribeSitio
<1>4. ASSUME NEW q \in Pids, NEW h \in Paginas(q), Vivo(q), ~(q = p /\ h = g)
      PROVE  Entrada(q, h)' = Entrada(q, h)
  <2>1. Donde(q, h) \in Sitios(tablas2) /\ Donde(q, h) # d
    BY <1>4, SitioDe DEF d, Tablas
  <2>2. /\ Entrada(q, h)' = FilaEn(z, Donde(q, h))
        /\ Entrada(q, h) = FilaEn(tablas2, Donde(q, h))
    BY SitioDe, DondeSigue DEF z
  <2>. QED  BY <1>3, <2>1, <2>2
<1>5. Entrada(p, g)' = x
  BY <1>2, <1>3, DondeSigue DEF z, d
<1>. QED  BY <1>3, <1>4, <1>5 DEF z

\* Other entries may change hands, but nobody moves.
LEMMA TablasSigue ==
  ASSUME Tipos, Tablas, UNCHANGED <<tablas1, tabla>>,
         tablas2' \in TablasTipo, Len(tablas2') = Len(tablas2),
         \A p \in Pids : Vivo(p)' => Vivo(p),
         \A p \in Pids : \A g \in Paginas(p) : Vivo(p) => Entrada(p, g)' \in Fila
  PROVE  Tablas'
<1>1. DOMAIN tablas2' = DOMAIN tablas2
  BY DEF Tipos, TablasTipo
<1>2. /\ \A p \in Pids : Vivo(p)' =>
           /\ tabla'[p] + 1 \in DOMAIN tablas1'
           /\ \A g \in Paginas(p) : /\ Donde(p, g)'[1] + 1 \in DOMAIN tablas2'
                                    /\ Entrada(p, g)' \in Fila
  BY <1>1, DondeSigue DEF Tablas
<1>3. \A p, q \in Pids : \A g \in Paginas(p) : \A h \in Paginas(q) :
        Vivo(p)' /\ Vivo(q)' /\ Donde(p, g)' = Donde(q, h)' => p = q /\ g = h
  BY DondeSigue DEF Tablas
<1>. QED  BY <1>2, <1>3 DEF Tablas

-----------------------------------------------------------------------------
(* What a step leaves alone                                                *)

\* Of q a step changes no more than use and modified bits, and what its pages
\* hold.
Quieta(q) ==
  /\ Vivo(q)' = Vivo(q) /\ lista(q)' = lista(q)
  /\ Vivo(q) => \A g \in Paginas(q) :
       /\ Donde(q, g)' = Donde(q, g) /\ Entrada(q, g)' \in Fila
       /\ Entrada(q, g)'.presencia = Entrada(q, g).presencia
       /\ Entrada(q, g)'.nro_marco = Entrada(q, g).nro_marco

LEMMA QuietaLista ==
  ASSUME NEW q \in Pids, Quieta(q), EnListaDe(q)
  PROVE  EnListaDe(q)'
<1>1. CASE ~Vivo(q)
  BY <1>1 DEF Quieta, EnListaDe
<1>2. CASE Vivo(q)
  <2>1. \A g \in Paginas(q) :
          /\ Donde(q, g)' = Donde(q, g)
          /\ Entrada(q, g)'.presencia = Entrada(q, g).presencia
          /\ Entrada(q, g)'.nro_marco = Entrada(q, g).nro_marco
    BY <1>2 DEF Quieta
  <2>2. Vivo(q)' /\ lista(q)' = lista(q)
    BY <1>2 DEF Quieta
  <2>. QED  BY <1>2, <2>1, <2>2 DEF EnListaDe
<1>. QED  BY <1>1, <1>2

\* The CPU's view is of the running process alone.
LEMMA QuietaCpu ==
  ASSUME pcb # Nadie => pcb \in Pids /\ Vivo(pcb) /\ Quieta(pcb), TlbDelPcb, Ciclo,
         UNCHANGED <<mmuVars, pid_actual>>, Nadie \notin Pids
  PROVE  TlbDelPcb' /\ Ciclo'
<1>1. UNCHANGED <<tlb, pcb, fase, instruccion, nro, leido>>
  BY DEF mmuVars
<1>2. CASE pcb = Nadie
  <2>1. fase = "ciclo"
    BY <1>2 DEF Ciclo
  <2>. QED  BY <1>1, <1>2, <2>1 DEF TlbDelPcb, Ciclo
<1>3. CASE pcb # Nadie
  <2>1. \A g \in Paginas(pcb) :
          /\ Donde(pcb, g)' = Donde(pcb, g)
          /\ Entrada(pcb, g)'.presencia = Entrada(pcb, g).presencia
          /\ Entrada(pcb, g)'.nro_marco = Entrada(pcb, g).nro_marco
    BY <1>3 DEF Quieta
  <2>2. TlbDelPcb'
    BY <1>1, <2>1 DEF TlbDelPcb
  <2>3. fase # "ciclo" => instruccion.pag \in Paginas(pcb) /\ instruccion \in Instrucciones(pcb)
    <3>1. \A p : \A x \in Instrucciones(p) : x.pag \in Paginas(p)
      BY DEF Instrucciones
    <3>. QED  BY <3>1 DEF Ciclo
  <2>4. fase = "marco" => nro = nro_tabla_2do_nivel(pcb, entrada_tabla_1)'
    <3>. SUFFICES ASSUME fase = "marco" PROVE nro = nro_tabla_2do_nivel(pcb, entrada_tabla_1)'
      OBVIOUS
    <3>1. instruccion.pag \in Paginas(pcb)
      BY <2>3
    <3>2. nro = nro_tabla_2do_nivel(pcb, entrada_tabla_1)
      BY DEF Ciclo
    <3>. DEFINE g == instruccion.pag
    <3>3. g' = g /\ pcb' = pcb
      BY <1>1
    <3>. HIDE DEF g
    <3>4. Donde(pcb, g)' = Donde(pcb, g)
      BY <1>1, <2>1, <3>1, <3>3 DEF g
    <3>. QED  BY <1>1, <3>2, <3>3, <3>4 DEF Donde, entrada_tabla_1, g
  <2>5. lista(pcb)' = lista(pcb)
    BY <1>3 DEF Quieta
  <2>6. Ciclo'
    BY <1>1, <2>3, <2>4, <2>5 DEF Ciclo, Instrucciones
  <2>. QED  BY <2>2, <2>6
<1>. QED  BY <1>2, <1>3

\* When nobody's frames change hands.
LEMMA RepartidosSigue ==
  ASSUME Repartidos, UNCHANGED <<ocupado, copiando>>,
         \A q \in Pids : /\ DOMAIN lista(q)' = DOMAIN lista(q)
                         /\ \A i \in DOMAIN lista(q) : lista(q)'[i].nro_marco = lista(q)[i].nro_marco
  PROVE  Repartidos'
<1>1. \A q, i : Firme(q, i)' = Firme(q, i)
  BY DEF Firme
<1>2. /\ \A p, q \in Pids : \A i \in DOMAIN lista(p)' : \A j \in DOMAIN lista(q)' :
           /\ lista(p)'[i].nro_marco = lista(q)'[j].nro_marco
           /\ Firme(p, i)' /\ Firme(q, j)'
           => p = q
  BY <1>1 DEF Repartidos
<1>3. \A p \in Pids : \A i \in DOMAIN lista(p)' : Firme(p, i)' => ocupado'[lista(p)'[i].nro_marco]
  BY <1>1 DEF Repartidos
<1>4. \A m \in NrosMarco : ocupado'[m] =>
        \E p \in Pids : \E i \in DOMAIN lista(p)' : Firme(p, i)' /\ lista(p)'[i].nro_marco = m
  BY <1>1 DEF Repartidos
<1>. QED  BY <1>2, <1>3, <1>4 DEF Repartidos

-----------------------------------------------------------------------------
(* Swap files                                                              *)

\* A file is a file: a process has at least a page.
LEMMA HaySwap ==
  ASSUME NEW p \in Pids, NEW f \in [Paginas(p) -> Datos]
  PROVE  f # << >>
<1>1. 0 \in Paginas(p)
  BY MemoriaAssumption DEF Paginas
<1>2. DOMAIN f = Paginas(p) /\ DOMAIN << >> = {}
  OBVIOUS
<1>. QED  BY <1>1, <1>2

ConEnSwap(s, p, g, v) == [s EXCEPT ![p][g] = v]

LEMMA EscribeSwap ==
  ASSUME Tipos, NEW p \in Pids, Vivo(p), NEW g \in Paginas(p), NEW v \in Datos,
         swap' = ConEnSwap(swap, p, g, v)
  PROVE  /\ swap' = [q \in Pids |-> swap'[q]]
         /\ \A q \in Pids : swap'[q] \in [Paginas(q) -> Datos] \cup {<< >>}
         /\ \A q \in Pids : Vivo(q)' = Vivo(q)
         /\ \A q \in Pids : \A h \in Paginas(q) :
              swap'[q][h] = IF q = p /\ h = g THEN v ELSE swap[q][h]
<1>1. /\ swap = [q \in Pids |-> swap[q]] /\ swap[p] \in [Paginas(p) -> Datos]
      /\ \A q \in Pids : swap[q] \in [Paginas(q) -> Datos] \cup {<< >>}
  BY DEF Tipos, Vivo
<1>. DEFINE s == [swap[p] EXCEPT ![g] = v]
<1>2. /\ s \in [Paginas(p) -> Datos]
      /\ \A h \in Paginas(p) : s[h] = IF h = g THEN v ELSE swap[p][h]
  BY <1>1
<1>3. s # << >>
  BY <1>2, HaySwap
<1>. HIDE DEF s
<1>4. swap' = [swap EXCEPT ![p] = s]
  BY DEF s, ConEnSwap
<1>5. swap' = [q \in Pids |-> swap'[q]] /\ \A q \in Pids : swap'[q] = IF q = p THEN s ELSE swap[q]
  BY <1>1, <1>4
<1>6. \A q \in Pids : Vivo(q)' = Vivo(q)
  BY <1>3, <1>5 DEF Vivo
<1>. QED  BY <1>1, <1>2, <1>5, <1>6

-----------------------------------------------------------------------------
(* The clock structures                                                    *)

\* agregar_pagina_a_estructura_clock, of a frame that is not in the list...
LEMMA AgregaNuevo ==
  ASSUME NEW l \in Seq(MarcoEnLista), NEW f \in MarcoEnLista,
         \A k \in DOMAIN l : l[k].nro_marco # f.nro_marco
  PROVE  /\ agregar_pagina(l, f) \in Seq(MarcoEnLista)
         /\ Len(agregar_pagina(l, f)) = Len(l) + 1
         /\ \A k \in 1 .. Len(l) + 1 :
              agregar_pagina(l, f)[k] = IF k = Len(l) + 1 THEN f ELSE l[k]
<1>1. agregar_pagina(l, f) = Append(l, f)
  BY DEF agregar_pagina
<1>. HIDE DEF MarcoEnLista
<1>. QED  BY <1>1

\* ... and of one that is.
LEMMA AgregaEnLugar ==
  ASSUME NEW l \in Seq(MarcoEnLista), NEW f \in MarcoEnLista, NEW v \in DOMAIN l,
         l[v].nro_marco = f.nro_marco,
         \A i, j \in DOMAIN l : l[i].nro_marco = l[j].nro_marco => i = j
  PROVE  /\ agregar_pagina(l, f) \in Seq(MarcoEnLista)
         /\ Len(agregar_pagina(l, f)) = Len(l)
         /\ \A k \in 1 .. Len(l) : agregar_pagina(l, f)[k] = IF k = v THEN f ELSE l[k]
<1>. DEFINE z == [k \in DOMAIN l |-> IF l[k].nro_marco = f.nro_marco THEN f ELSE l[k]]
<1>1. agregar_pagina(l, f) = z
  BY DEF agregar_pagina
<1>2. DOMAIN l = 1 .. Len(l) /\ Len(l) \in Nat /\ \A k \in 1 .. Len(l) : l[k] \in MarcoEnLista
  OBVIOUS
<1>3. z = [k \in 1 .. Len(l) |-> IF k = v THEN f ELSE l[k]]
  BY <1>2
<1>4. /\ z \in [1 .. Len(l) -> MarcoEnLista]
      /\ \A k \in 1 .. Len(l) : z[k] = IF k = v THEN f ELSE l[k]
  BY <1>2, <1>3
<1>. HIDE DEF z, MarcoEnLista
<1>5. z \in Seq(MarcoEnLista) /\ Len(z) = Len(l)
  BY <1>2, <1>4
<1>. QED  BY <1>1, <1>4, <1>5

\* obtener_pagina finds the one page of the list in the frame.
LEMMA ObtenerPagina ==
  ASSUME NEW p \in Pids, pid_actual = p, lista(p) \in Seq(MarcoEnLista),
         NEW i \in DOMAIN lista(p), EnListaDe(p)
  PROVE  obtener_pagina(lista(p)[i].nro_marco) = lista(p)[i]
<1>. DEFINE l == lista(p)
<1>1. /\ l \in Seq(MarcoEnLista) /\ i \in DOMAIN l
      /\ \A k, j \in DOMAIN l : l[k].nro_marco = l[j].nro_marco => k = j
  BY DEF EnListaDe
<1>2. obtener_pagina(lista(p)[i].nro_marco) = CHOOSE f \in ToSet(l) : f.nro_marco = l[i].nro_marco
  BY DEF obtener_pagina
<1>. HIDE DEF l
<1>3. l[i] \in ToSet(l) /\ \A f \in ToSet(l) : f.nro_marco = l[i].nro_marco => f = l[i]
  BY <1>1 DEF ToSet
<1>. QED  BY <1>2, <1>3 DEF l

LEMMA ListaSeq ==
  ASSUME Tipos, NEW p \in Pids
  PROVE  /\ lista(p) \in Seq(MarcoEnLista)
         /\ DOMAIN lista(p) = 1 .. Len(lista(p)) /\ Len(lista(p)) \in Nat
<1>1. estructuras[p] \in [marcos_en_memoria : Seq(MarcoEnLista), puntero : Posiciones]
  BY DEF Tipos
<1>. HIDE DEF MarcoEnLista
<1>2. lista(p) \in Seq(MarcoEnLista)
  BY <1>1 DEF lista
<1>. QED  BY <1>2

\* What the invariants say of each element of a list.
LEMMA DeLista ==
  ASSUME Tipos, Tablas, NEW p \in Pids, EnListaDe(p), NEW i \in DOMAIN lista(p)
  PROVE  /\ Vivo(p) /\ lista(p) \in Seq(MarcoEnLista) /\ i \in 1 .. Len(lista(p))
         /\ lista(p)[i] \in MarcoEnLista
         /\ lista(p)[i].nro_marco \in NrosMarco /\ lista(p)[i].nro_swap \in Paginas(p)
         /\ <<lista(p)[i].t, lista(p)[i].i>> = Donde(p, lista(p)[i].nro_swap)
         /\ fila(lista(p)[i].t, lista(p)[i].i) = Entrada(p, lista(p)[i].nro_swap)
         /\ Entrada(p, lista(p)[i].nro_swap) \in Fila
         /\ Entrada(p, lista(p)[i].nro_swap).presencia
         /\ Entrada(p, lista(p)[i].nro_swap).nro_marco = lista(p)[i].nro_marco
<1>1. lista(p) \in Seq(MarcoEnLista)
  <2>1. estructuras[p] \in [marcos_en_memoria : Seq(MarcoEnLista), puntero : Posiciones]
    BY DEF Tipos
  <2>. HIDE DEF MarcoEnLista
  <2>. QED  BY <2>1 DEF lista
<1>2. Vivo(p)
  <2>. SUFFICES ASSUME ~Vivo(p) PROVE FALSE
    OBVIOUS
  <2>1. DOMAIN lista(p) = {}
    BY DEF EnListaDe
  <2>. QED  BY <2>1
<1>3. i \in 1 .. Len(lista(p)) /\ lista(p)[i] \in MarcoEnLista
  <2>. HIDE DEF MarcoEnLista
  <2>. QED  BY <1>1
<1>4. /\ lista(p)[i].nro_swap \in Paginas(p)
      /\ <<lista(p)[i].t, lista(p)[i].i>> = Donde(p, lista(p)[i].nro_swap)
      /\ Entrada(p, lista(p)[i].nro_swap).presencia
      /\ Entrada(p, lista(p)[i].nro_swap).nro_marco = lista(p)[i].nro_marco
  BY DEF EnListaDe
<1>5. fila(lista(p)[i].t, lista(p)[i].i) = Entrada(p, lista(p)[i].nro_swap)
  BY <1>4 DEF Donde, Entrada
<1>6. Entrada(p, lista(p)[i].nro_swap) \in Fila
  BY <1>2, <1>4 DEF Tablas
<1>7. lista(p)[i].nro_marco \in NrosMarco
  BY <1>3 DEF MarcoEnLista
<1>. QED  BY <1>1, <1>2, <1>3, <1>4, <1>5, <1>6, <1>7

\* Two elements of a list are of different pages.
LEMMA PaginasDeLista ==
  ASSUME NEW p \in Pids, EnListaDe(p), NEW i \in DOMAIN lista(p), NEW j \in DOMAIN lista(p),
         lista(p)[i].nro_swap = lista(p)[j].nro_swap
  PROVE  i = j
BY DEF EnListaDe

-----------------------------------------------------------------------------
(* Each operation of memory: what it does to the pages of each process, and *)
(* that the structures keep saying the same                                 *)

\* Only the use and modified bits of a page change.
LEMMA MarcaFila ==
  ASSUME IMem, NEW p \in Pids, Vivo(p), NEW g \in Paginas(p), NEW x \in Fila,
         x.presencia = Entrada(p, g).presencia, x.nro_marco = Entrada(p, g).nro_marco,
         tablas2' = Escrita(tablas2, Donde(p, g), x),
         UNCHANGED <<ocupado, swap, estructuras, copiando, tablas1, tabla>>,
         memoria' \in [NrosMarco -> Datos], pid_actual' \in Pids \cup {Nadie}
  PROVE  /\ IMem' /\ \A q \in Pids : Quieta(q)
         /\ Entrada(p, g)' = x
         /\ \A q \in Pids : \A h \in Paginas(q) :
              Vivo(q) /\ ~(q = p /\ h = g) => Entrada(q, h)' = Entrada(q, h)
<1>0. Tipos /\ Tablas /\ EnLista /\ Repartidos
  BY DEF IMem
<1>1. /\ tablas2' \in TablasTipo /\ Len(tablas2') = Len(tablas2) /\ Entrada(p, g)' = x
      /\ \A q \in Pids : \A h \in Paginas(q) :
           Vivo(q) /\ ~(q = p /\ h = g) => Entrada(q, h)' = Entrada(q, h)
  <2>1. /\ Tipos /\ Tablas /\ Vivo(p) /\ UNCHANGED <<tablas1, tabla>>
        /\ tablas2' = Escrita(tablas2, Donde(p, g), x)
    BY <1>0
  <2>. QED  BY ONLY <2>1, p \in Pids, g \in Paginas(p), x \in Fila, CambiaFila
<1>2. /\ \A q \in Pids : Vivo(q)' = Vivo(q) /\ lista(q)' = lista(q)
      /\ \A q, h : Donde(q, h)' = Donde(q, h)
  BY DondeSigue DEF Vivo, lista
<1>3. ASSUME NEW q \in Pids PROVE Quieta(q)
  <2>1. ASSUME Vivo(q), NEW h \in Paginas(q)
        PROVE  /\ Entrada(q, h)' \in Fila
               /\ Entrada(q, h)'.presencia = Entrada(q, h).presencia
               /\ Entrada(q, h)'.nro_marco = Entrada(q, h).nro_marco
    <3>1. Entrada(q, h) \in Fila
      BY <1>0, <2>1 DEF Tablas
    <3>. QED  BY <1>1, <2>1, <3>1
  <2>. QED  BY <1>2, <2>1 DEF Quieta
<1>4. EnLista'
  BY <1>0, <1>3, QuietaLista DEF EnLista
<1>5. Repartidos'
  BY <1>0, <1>2, RepartidosSigue
<1>6. Tablas'
  <2>1. \A q \in Pids : \A h \in Paginas(q) : Vivo(q) => Entrada(q, h)' \in Fila
    BY <1>3 DEF Quieta
  <2>. QED  BY <1>0, <1>1, <1>2, <2>1, TablasSigue
<1>7. Tipos'
  BY <1>0, <1>1, <1>2 DEF Tipos, TablasTipo
<1>. QED  BY <1>1, <1>3, <1>4, <1>5, <1>6, <1>7 DEF IMem

\* suspender_proceso gives back the first frame: no page changes.
LEMMA LiberaBien ==
  ASSUME IMem, NEW p \in Pids, suspender_libera(p)
  PROVE  IMem' /\ \A q \in Pids : Quieta(q)
<1>0. Tipos /\ Tablas /\ EnLista /\ Repartidos
  BY DEF IMem
<1>1. /\ \A q : Vivo(q)' = Vivo(q) /\ lista(q)' = lista(q)
      /\ \A q, h : Donde(q, h)' = Donde(q, h) /\ Entrada(q, h)' = Entrada(q, h)
      /\ UNCHANGED <<memoria, tablas1, tablas2, swap, estructuras, tabla, pid_actual>>
  BY DEF suspender_libera, tablasVars, Vivo, lista, Donde, Entrada, fila, nro_tabla_2do_nivel
<1>2. ASSUME NEW q \in Pids PROVE Quieta(q)
  <2>1. Vivo(q) => \A h \in Paginas(q) : Entrada(q, h) \in Fila
    BY <1>0 DEF Tablas
  <2>. QED  BY <1>1, <2>1 DEF Quieta
<1>3. EnLista'
  BY <1>0, <1>2, QuietaLista DEF EnLista
<1>4. Tablas'
  BY <1>0, <1>1 DEF Tablas
<1>5. lista(p) # << >> /\ copiando = Nadie /\ copiando' = p /\ 1 \in DOMAIN lista(p)
  <2>1. lista(p) \in Seq(MarcoEnLista) /\ lista(p) # << >>
    <3>1. estructuras[p] \in [marcos_en_memoria : Seq(MarcoEnLista), puntero : Posiciones]
      BY <1>0 DEF Tipos
    <3>. HIDE DEF MarcoEnLista
    <3>. QED  BY <3>1 DEF lista, suspender_libera
  <2>. HIDE DEF MarcoEnLista
  <2>. QED  BY <2>1 DEF suspender_libera
<1>. DEFINE m1 == lista(p)[1].nro_marco
<1>6. m1 \in NrosMarco /\ ocupado' = [ocupado EXCEPT ![m1] = FALSE]
  <2>1. m1 \in NrosMarco
    BY <1>0, <1>5, DeLista DEF EnLista
  <2>2. Head(lista(p)) = lista(p)[1]
    BY <1>0, <1>5, DeLista DEF EnLista
  <2>. QED  BY <2>1, <2>2 DEF suspender_libera
<1>. HIDE DEF m1
<1>7. Tipos'
  BY <1>0, <1>1, <1>5, <1>6 DEF Tipos
<1>8. /\ \A q \in Pids : \A i : Firme(q, i)
      /\ \A q \in Pids : \A i : Firme(q, i)' <=> ~(q = p /\ i = 1)
  BY <1>5, MemoriaAssumption DEF Firme
<1>9. ASSUME NEW q \in Pids, NEW i \in DOMAIN lista(q), Firme(q, i)'
      PROVE  lista(q)[i].nro_marco # m1
  <2>1. CASE q = p
    BY <1>0, <1>5, <1>8, <1>9, <2>1 DEF EnLista, EnListaDe, m1
  <2>2. CASE q # p
    BY <1>0, <1>5, <1>8, <2>2 DEF Repartidos, m1
  <2>. QED  BY <2>1, <2>2
<1>10. Repartidos'
  <2>1. /\ \A a, b \in Pids : \A i \in DOMAIN lista(a)' : \A j \in DOMAIN lista(b)' :
           /\ lista(a)'[i].nro_marco = lista(b)'[j].nro_marco
           /\ Firme(a, i)' /\ Firme(b, j)'
           => a = b
    BY <1>0, <1>1, <1>8 DEF Repartidos
  <2>2. \A q \in Pids : \A i \in DOMAIN lista(q)' : Firme(q, i)' => ocupado'[lista(q)'[i].nro_marco]
    <3>. SUFFICES ASSUME NEW q \in Pids, NEW i \in DOMAIN lista(q), Firme(q, i)'
                  PROVE  ocupado'[lista(q)[i].nro_marco]
      BY <1>1
    <3>1. lista(q)[i].nro_marco \in NrosMarco /\ lista(q)[i].nro_marco # m1
      BY <1>0, <1>9, DeLista DEF EnLista
    <3>2. ocupado[lista(q)[i].nro_marco]
      BY <1>0, <1>8 DEF Repartidos
    <3>3. ocupado \in [NrosMarco -> BOOLEAN]
      BY <1>0 DEF Tipos
    <3>. QED  BY <1>6, <3>1, <3>2, <3>3
  <2>3. \A m \in NrosMarco : ocupado'[m] =>
          \E q \in Pids : \E i \in DOMAIN lista(q)' : Firme(q, i)' /\ lista(q)'[i].nro_marco = m
    <3>. SUFFICES ASSUME NEW m \in NrosMarco, ocupado'[m]
                  PROVE  \E q \in Pids : \E i \in DOMAIN lista(q) : Firme(q, i)' /\ lista(q)[i].nro_marco = m
      BY <1>1
    <3>1. ocupado \in [NrosMarco -> BOOLEAN]
      BY <1>0 DEF Tipos
    <3>2. m # m1 /\ ocupado[m]
      BY <1>6, <3>1
    <3>3. PICK q \in Pids : \E i \in DOMAIN lista(q) : Firme(q, i) /\ lista(q)[i].nro_marco = m
      BY <1>0, <3>2 DEF Repartidos
    <3>4. PICK i \in DOMAIN lista(q) : lista(q)[i].nro_marco = m
      BY <3>3
    <3>5. Firme(q, i)'
      BY <1>8, <3>2, <3>4 DEF m1
    <3>. QED  BY <3>4, <3>5
  <2>. QED  BY <2>1, <2>2, <2>3 DEF Repartidos
<1>. QED  BY <1>2, <1>3, <1>4, <1>7, <1>10 DEF IMem

\* What the copy does: page g, of the first element f of the list, leaves memory.
Sacada(p, f, g) ==
  /\ 1 \in DOMAIN lista(p) /\ Vivo(p)
  /\ Entrada(p, g)' =
       [Entrada(p, g) EXCEPT !.presencia = FALSE, !.uso = FALSE, !.modificado = FALSE]
  /\ \A q \in Pids : \A h \in Paginas(q) :
       Vivo(q) /\ ~(q = p /\ h = g) => Entrada(q, h)' = Entrada(q, h)
  /\ \A q \in Pids : \A h \in Paginas(q) : Vivo(q) => swap'[q][h] =
       IF q = p /\ h = g /\ Entrada(p, h).modificado
       THEN memoria[f.nro_marco] ELSE swap[q][h]

\* suspender_proceso copies and forgets the page of the first frame.
LEMMA CopiaBien ==
  ASSUME IMem, NEW p \in Pids, suspender_copia(p), lista(p) # << >>,
         NEW f, f = lista(p)[1], NEW g, g = f.nro_swap
  PROVE  /\ IMem' /\ \A q \in Pids : q # p => Quieta(q)
         /\ \A q \in Pids : Vivo(q)' = Vivo(q)
         /\ Sacada(p, f, g)
<1>. DEFINE l == lista(p)
            x == [Entrada(p, g) EXCEPT !.presencia = FALSE, !.uso = FALSE, !.modificado = FALSE]
<1>0. Tipos /\ Tablas /\ EnLista /\ Repartidos
  BY DEF IMem
<1>1. /\ l \in Seq(MarcoEnLista) /\ estructuras[p] = [marcos_en_memoria |-> l, puntero |-> estructuras[p].puntero]
      /\ Len(l) \in 1 .. MarcosPorProceso /\ DOMAIN l = 1 .. Len(l) /\ 1 \in DOMAIN l /\ Head(l) = f
  <2>1. estructuras[p] \in [marcos_en_memoria : Seq(MarcoEnLista), puntero : Posiciones]
    BY <1>0 DEF Tipos
  <2>2. l \in Seq(MarcoEnLista) /\ l # << >> /\ Len(l) <= MarcosPorProceso
    BY <1>0, <2>1 DEF lista, Tipos
  <2>. HIDE DEF MarcoEnLista, l
  <2>3. Len(l) \in Nat \ {0} /\ DOMAIN l = 1 .. Len(l) /\ Head(l) = l[1]
    BY <2>2
  <2>4. MarcosPorProceso \in Nat
    BY MarcosAssumption
  <2>. QED  BY <2>1, <2>2, <2>3, <2>4 DEF l, lista
<1>2. /\ Vivo(p) /\ g \in Paginas(p) /\ <<f.t, f.i>> = Donde(p, g) /\ f.nro_marco \in NrosMarco
      /\ fila(f.t, f.i) = Entrada(p, g) /\ Entrada(p, g) \in Fila /\ Entrada(p, g).presencia
  BY <1>0, <1>1, DeLista DEF EnLista
<1>3. /\ copiando = p /\ copiando' = Nadie
      /\ UNCHANGED <<memoria, ocupado, tablas1, tabla, pid_actual>>
      /\ swap' = IF Entrada(p, g).modificado THEN [swap EXCEPT ![p][g] = memoria[f.nro_marco]] ELSE swap
      /\ estructuras' = [estructuras EXCEPT ![p] = [marcos_en_memoria |-> Tail(l), puntero |-> 0]]
      /\ tablas2' = [tablas2 EXCEPT ![f.t + 1][f.i] = x]
  BY <1>1, <1>2 DEF suspender_copia, tablasVars, fila, lista
<1>4. x \in Fila /\ ~x.presencia
  BY <1>2 DEF Fila
<1>. HIDE DEF l, x
<1>5. tablas2' = Escrita(tablas2, Donde(p, g), x)
  <2>1. <<f.t, f.i>> = Donde(p, g) /\ tablas2' = [tablas2 EXCEPT ![f.t + 1][f.i] = x]
    BY <1>2, <1>3
  <2>2. Donde(p, g)[1] = f.t /\ Donde(p, g)[2] = f.i
    BY ONLY <2>1
  <2>. QED  BY ONLY <2>1, <2>2 DEF Escrita
<1>6. /\ tablas2' \in TablasTipo /\ Len(tablas2') = Len(tablas2) /\ Entrada(p, g)' = x
      /\ \A q \in Pids : \A h \in Paginas(q) :
           Vivo(q) /\ ~(q = p /\ h = g) => Entrada(q, h)' = Entrada(q, h)
  <2>1. Tipos /\ Tablas /\ Vivo(p) /\ UNCHANGED <<tablas1, tabla>>
    BY <1>0, <1>2, <1>3
  <2>. QED  BY ONLY <2>1, <1>2, <1>4, <1>5, p \in Pids, CambiaFila
<1>7. /\ swap' = [q \in Pids |-> swap'[q]]
      /\ \A q \in Pids : swap'[q] \in [Paginas(q) -> Datos] \cup {<< >>}
      /\ \A q \in Pids : Vivo(q)' = Vivo(q)
      /\ \A q \in Pids : \A h \in Paginas(q) : Vivo(q) => swap'[q][h] =
           IF q = p /\ h = g /\ Entrada(p, h).modificado THEN memoria[f.nro_marco] ELSE swap[q][h]
  <2>1. CASE Entrada(p, g).modificado
    <3>1. memoria[f.nro_marco] \in Datos /\ swap' = [swap EXCEPT ![p][g] = memoria[f.nro_marco]]
      BY <1>0, <1>2, <1>3, <2>1 DEF Tipos
    <3>2. /\ swap' = [q \in Pids |-> swap'[q]]
          /\ \A q \in Pids : swap'[q] \in [Paginas(q) -> Datos] \cup {<< >>}
          /\ \A q \in Pids : Vivo(q)' = Vivo(q)
          /\ \A q \in Pids : \A h \in Paginas(q) :
               swap'[q][h] = IF q = p /\ h = g THEN memoria[f.nro_marco] ELSE swap[q][h]
      <4>1. Tipos /\ Vivo(p)
        BY <1>0, <1>2
      <4>2. /\ memoria[f.nro_marco] \in Datos /\ g \in Paginas(p)
            /\ swap' = ConEnSwap(swap, p, g, memoria[f.nro_marco])
        BY <1>2, <3>1 DEF ConEnSwap
      <4>. QED  BY ONLY <4>1, <4>2, p \in Pids, EscribeSwap
    <3>. QED  BY <2>1, <3>2
  <2>2. CASE ~Entrada(p, g).modificado
    <3>1. swap' = swap
      BY <1>3, <2>2
    <3>. QED  BY <1>0, <2>2, <3>1 DEF Tipos, Vivo
  <2>. QED  BY <2>1, <2>2
<1>8. /\ Tail(l) \in Seq(MarcoEnLista) /\ Len(Tail(l)) = Len(l) - 1 /\ DOMAIN Tail(l) = 1 .. Len(l) - 1
      /\ \A i \in 1 .. Len(l) - 1 : Tail(l)[i] = l[i + 1]
  <2>. HIDE DEF MarcoEnLista
  <2>1. l \in Seq(MarcoEnLista) /\ l # << >>
    BY <1>1 DEF l
  <2>. QED  BY <2>1
<1>9. /\ lista(p)' = Tail(l) /\ \A q \in Pids : q # p => lista(q)' = lista(q)
      /\ estructuras' \in [Pids -> [marcos_en_memoria : Seq(MarcoEnLista), puntero : Posiciones]]
  <2>1. 0 \in Posiciones
    BY MarcosAssumption DEF Posiciones
  <2>2. estructuras \in [Pids -> [marcos_en_memoria : Seq(MarcoEnLista), puntero : Posiciones]]
    BY <1>0 DEF Tipos
  <2>. HIDE DEF MarcoEnLista
  <2>. QED  BY <1>3, <1>8, <2>1, <2>2 DEF lista
<1>10. \A q, h : Donde(q, h)' = Donde(q, h)
  BY <1>3, DondeSigue
<1>11. ASSUME NEW q \in Pids, q # p PROVE Quieta(q)
  <2>1. Vivo(q) => \A h \in Paginas(q) : Entrada(q, h) \in Fila /\ Entrada(q, h)' = Entrada(q, h)
    BY <1>0, <1>6, <1>11 DEF Tablas
  <2>. QED  BY <1>7, <1>9, <1>10, <1>11, <2>1 DEF Quieta
<1>12. Tablas'
  <2>1. \A q \in Pids : \A h \in Paginas(q) : Vivo(q) => Entrada(q, h)' \in Fila
    BY <1>0, <1>4, <1>6 DEF Tablas
  <2>. QED  BY <1>0, <1>3, <1>6, <1>7, <2>1, TablasSigue
<1>13. EnListaDe(p)'
  <2>1. EnListaDe(p) /\ Vivo(p)'
    BY <1>0, <1>2, <1>7 DEF EnLista
  <2>2. ASSUME NEW i \in DOMAIN lista(p)', NEW e, e = lista(p)'[i]
        PROVE  /\ i \in 1 .. Len(l) - 1 /\ i + 1 \in DOMAIN lista(p) /\ e = lista(p)[i + 1]
               /\ e.nro_swap \in Paginas(p) /\ <<e.t, e.i>> = Donde(p, e.nro_swap)'
               /\ Entrada(p, e.nro_swap)'.presencia /\ Entrada(p, e.nro_swap)'.nro_marco = e.nro_marco
    <3>1. i \in 1 .. Len(l) - 1 /\ i + 1 \in DOMAIN lista(p) /\ i + 1 # 1 /\ e = lista(p)[i + 1]
      BY <1>1, <1>8, <1>9, <2>2 DEF l
    <3>2. /\ e.nro_swap \in Paginas(p) /\ <<e.t, e.i>> = Donde(p, e.nro_swap)
          /\ Entrada(p, e.nro_swap).presencia /\ Entrada(p, e.nro_swap).nro_marco = e.nro_marco
      BY <2>1, <3>1 DEF EnListaDe
    <3>3. e.nro_swap # g
      BY <1>1, <2>1, <3>1, PaginasDeLista DEF l
    <3>4. Entrada(p, e.nro_swap)' = Entrada(p, e.nro_swap)
      BY <1>2, <1>6, <3>2, <3>3
    <3>. QED  BY <1>10, <3>1, <3>2, <3>4
  <2>3. \A i \in DOMAIN lista(p)' :
         LET e == lista(p)'[i]
         IN /\ e.nro_swap \in Paginas(p) /\ <<e.t, e.i>> = (Donde(p, lista(p)[i].nro_swap))'
            /\ (Entrada(p, lista(p)[i].nro_swap).presencia)'
            /\ (Entrada(p, lista(p)[i].nro_swap).nro_marco)' = e.nro_marco
    BY <2>2
  <2>4. \A i, j \in DOMAIN lista(p)' : lista(p)'[i].nro_marco = lista(p)'[j].nro_marco => i = j
    <3>. SUFFICES ASSUME NEW i \in DOMAIN lista(p)', NEW j \in DOMAIN lista(p)',
                         lista(p)'[i].nro_marco = lista(p)'[j].nro_marco
                  PROVE  i = j
      OBVIOUS
    <3>1. i + 1 = j + 1 /\ i \in 1 .. Len(l) - 1 /\ j \in 1 .. Len(l) - 1
      BY <2>1, <2>2 DEF EnListaDe
    <3>. QED  BY <1>1, <3>1
  <2>5. ASSUME NEW h \in Paginas(p), Entrada(p, h)'.presencia
        PROVE  \E i \in DOMAIN lista(p)' : lista(p)'[i].nro_swap = h
    <3>1. h # g /\ Entrada(p, h).presencia
      BY <1>2, <1>4, <1>6, <2>5
    <3>2. PICK i \in DOMAIN lista(p) : lista(p)[i].nro_swap = h
      BY <1>2, <2>1, <3>1 DEF EnListaDe
    <3>3. i # 1
      BY <3>1, <3>2
    <3>4. i \in 1 .. Len(l)
      BY <1>1 DEF l
    <3>5. i - 1 \in 1 .. Len(l) - 1 /\ i - 1 + 1 = i
      BY <1>1, <3>3, <3>4 DEF l
    <3>6. i - 1 \in DOMAIN lista(p)' /\ lista(p)'[i - 1] = lista(p)[i]
      BY <1>8, <1>9, <3>5 DEF l
    <3>. QED  BY <3>2, <3>6
  <2>. QED  BY <2>1, <2>3, <2>4, <2>5 DEF EnListaDe
<1>14. EnLista'
  BY <1>0, <1>11, <1>13, QuietaLista DEF EnLista
<1>15. Repartidos'
  <2>1. /\ \A q \in Pids : \A i : Firme(q, i)'
        /\ \A q \in Pids : \A i : q # p \/ i # 1 => Firme(q, i)
    BY <1>3, MemoriaAssumption DEF Firme
  <2>2. ASSUME NEW q \in Pids, NEW i \in DOMAIN lista(q)'
        PROVE  \E j \in DOMAIN lista(q) : /\ Firme(q, j) /\ lista(q)'[i] = lista(q)[j]
    <3>1. CASE q = p
      <4>1. i \in 1 .. Len(l) - 1 /\ lista(p)'[i] = lista(p)[i + 1]
        BY <1>8, <1>9, <3>1 DEF l
      <4>2. i + 1 \in DOMAIN lista(p) /\ i + 1 # 1
        BY <1>1, <4>1 DEF l
      <4>. QED  BY <2>1, <3>1, <4>1, <4>2
    <3>2. CASE q # p
      BY <1>9, <2>1, <3>2
    <3>. QED  BY <3>1, <3>2
  <2>3. /\ \A a, b \in Pids : \A i \in DOMAIN lista(a)' : \A j \in DOMAIN lista(b)' :
           /\ lista(a)'[i].nro_marco = lista(b)'[j].nro_marco
           /\ Firme(a, i)' /\ Firme(b, j)'
           => a = b
    <3>. SUFFICES ASSUME NEW a \in Pids, NEW b \in Pids, NEW i \in DOMAIN lista(a)', NEW j \in DOMAIN lista(b)',
                         lista(a)'[i].nro_marco = lista(b)'[j].nro_marco
                  PROVE  a = b
      OBVIOUS
    <3>1. PICK i2 \in DOMAIN lista(a) : Firme(a, i2) /\ lista(a)'[i] = lista(a)[i2]
      BY <2>2
    <3>2. PICK j2 \in DOMAIN lista(b) : Firme(b, j2) /\ lista(b)'[j] = lista(b)[j2]
      BY <2>2
    <3>. QED  BY <1>0, <3>1, <3>2 DEF Repartidos
  <2>4. \A q \in Pids : \A i \in DOMAIN lista(q)' : Firme(q, i)' => ocupado'[lista(q)'[i].nro_marco]
    <3>. SUFFICES ASSUME NEW q \in Pids, NEW i \in DOMAIN lista(q)'
                  PROVE  ocupado[lista(q)'[i].nro_marco]
      BY <1>3
    <3>1. PICK j \in DOMAIN lista(q) : Firme(q, j) /\ lista(q)'[i] = lista(q)[j]
      BY <2>2
    <3>. QED  BY <1>0, <3>1 DEF Repartidos
  <2>5. \A m \in NrosMarco : ocupado'[m] =>
          \E q \in Pids : \E i \in DOMAIN lista(q)' : Firme(q, i)' /\ lista(q)'[i].nro_marco = m
    <3>. SUFFICES ASSUME NEW m \in NrosMarco, ocupado[m]
                  PROVE  \E q \in Pids : \E i \in DOMAIN lista(q)' : lista(q)'[i].nro_marco = m
      BY <1>3, <2>1
    <3>3. PICK q \in Pids : \E i \in DOMAIN lista(q) : Firme(q, i) /\ lista(q)[i].nro_marco = m
      BY <1>0 DEF Repartidos
    <3>4. PICK i \in DOMAIN lista(q) : Firme(q, i) /\ lista(q)[i].nro_marco = m
      BY <3>3
    <3>5. CASE q = p
      <4>1. i # 1 /\ i \in 1 .. Len(l)
        BY <1>1, <1>3, <3>4, <3>5 DEF Firme, l
      <4>2. i - 1 \in 1 .. Len(l) - 1 /\ i - 1 + 1 = i
        BY <1>1, <4>1 DEF l
      <4>3. i - 1 \in DOMAIN lista(p)' /\ lista(p)'[i - 1] = lista(p)[i]
        BY <1>8, <1>9, <4>2 DEF l
      <4>. QED  BY <3>4, <3>5, <4>3
    <3>6. CASE q # p
      BY <1>9, <3>4, <3>6
    <3>. QED  BY <3>5, <3>6
  <2>. QED  BY <2>3, <2>4, <2>5 DEF Repartidos
<1>16. Tipos'
  <2>1. ASSUME NEW q \in Pids PROVE Len(lista(q)') <= MarcosPorProceso
    <3>1. CASE q = p
      BY <1>1, <1>8, <1>9, <3>1, MarcosAssumption DEF l
    <3>2. CASE q # p
      BY <1>0, <1>9, <3>2 DEF Tipos
    <3>. QED  BY <3>1, <3>2
  <2>2. /\ tablas1' \in Seq([Entradas -> -1 .. Len(tablas2') - 1])
        /\ tablas2' \in Seq([Entradas -> Fila \cup {Basura}])
    BY <1>0, <1>3, <1>6 DEF Tipos, TablasTipo
  <2>. QED  BY <1>0, <1>3, <1>7, <1>9, <2>1, <2>2 DEF Tipos
<1>17. IMem'
  BY <1>12, <1>14, <1>15, <1>16 DEF IMem
<1>18. Sacada(p, f, g)
  BY <1>1, <1>2, <1>6, <1>7 DEF l, x, Sacada
<1>. QED  BY <1>7, <1>9, <1>11, <1>17, <1>18

\* A page fault: a page is brought in, to the frame of element f of the list, in
\* a place of its own or that of the page it evicts.
LEMMA TraeLista ==
  ASSUME NEW p \in Pids, EnListaDe(p), Vivo(p), Vivo(p)',
         NEW f, NEW g \in Paginas(p), ~Entrada(p, g).presencia,
         f.nro_swap = g, <<f.t, f.i>> = Donde(p, g),
         NEW v, DOMAIN lista(p)' = DOMAIN lista(p) \cup {v},
         \A k \in DOMAIN lista(p)' : lista(p)'[k] = IF k = v THEN f ELSE lista(p)[k],
         \A k \in DOMAIN lista(p) : k # v => lista(p)[k].nro_marco # f.nro_marco,
         Entrada(p, g)'.presencia, Entrada(p, g)'.nro_marco = f.nro_marco,
         \A h \in Paginas(p) : h # g =>
           /\ Entrada(p, h)'.nro_marco = Entrada(p, h).nro_marco
           /\ Entrada(p, h)'.presencia <=>
                Entrada(p, h).presencia /\ ~(v \in DOMAIN lista(p) /\ lista(p)[v].nro_swap = h),
         \A h : Donde(p, h)' = Donde(p, h)
  PROVE  EnListaDe(p)'
<1>1. ASSUME NEW k \in DOMAIN lista(p)', k # v, NEW e, e = lista(p)'[k]
      PROVE  /\ k \in DOMAIN lista(p) /\ e = lista(p)[k]
             /\ e.nro_swap \in Paginas(p) /\ <<e.t, e.i>> = Donde(p, e.nro_swap)'
             /\ Entrada(p, e.nro_swap)'.presencia /\ Entrada(p, e.nro_swap)'.nro_marco = e.nro_marco
  <2>1. k \in DOMAIN lista(p) /\ e = lista(p)[k]
    BY <1>1
  <2>2. /\ e.nro_swap \in Paginas(p) /\ <<e.t, e.i>> = Donde(p, e.nro_swap)
        /\ Entrada(p, e.nro_swap).presencia /\ Entrada(p, e.nro_swap).nro_marco = e.nro_marco
    BY <2>1 DEF EnListaDe
  <2>3. e.nro_swap # g
    BY <2>2
  <2>4. ~(v \in DOMAIN lista(p) /\ lista(p)[v].nro_swap = e.nro_swap)
    BY <1>1, <2>1, PaginasDeLista
  <2>. QED  BY <2>1, <2>2, <2>3, <2>4
<1>2. \A k \in DOMAIN lista(p)' :
       LET e == lista(p)'[k]
       IN /\ e.nro_swap \in Paginas(p) /\ <<e.t, e.i>> = (Donde(p, lista(p)[k].nro_swap))'
          /\ (Entrada(p, lista(p)[k].nro_swap).presencia)'
          /\ (Entrada(p, lista(p)[k].nro_swap).nro_marco)' = e.nro_marco
  <2>. SUFFICES ASSUME NEW k \in DOMAIN lista(p)', NEW e, e = lista(p)'[k]
                PROVE  /\ e.nro_swap \in Paginas(p) /\ <<e.t, e.i>> = Donde(p, e.nro_swap)'
                       /\ Entrada(p, e.nro_swap)'.presencia /\ Entrada(p, e.nro_swap)'.nro_marco = e.nro_marco
    OBVIOUS
  <2>1. CASE k = v
    <3>1. e = f
      BY <2>1
    <3>. QED  BY <3>1
  <2>2. CASE k # v
    BY <1>1, <2>2
  <2>. QED  BY <2>1, <2>2
<1>3. \A i, j \in DOMAIN lista(p)' : lista(p)'[i].nro_marco = lista(p)'[j].nro_marco => i = j
  <2>1. \A i, j \in DOMAIN lista(p) : lista(p)[i].nro_marco = lista(p)[j].nro_marco => i = j
    BY DEF EnListaDe
  <2>. QED  BY <2>1
<1>4. ASSUME NEW h \in Paginas(p), Entrada(p, h)'.presencia
      PROVE  \E k \in DOMAIN lista(p)' : lista(p)'[k].nro_swap = h
  <2>1. CASE h = g
    <3>1. v \in DOMAIN lista(p)' /\ lista(p)'[v] = f
      OBVIOUS
    <3>. QED  BY <2>1, <3>1
  <2>2. CASE h # g
    <3>1. Entrada(p, h).presencia /\ ~(v \in DOMAIN lista(p) /\ lista(p)[v].nro_swap = h)
      BY <1>4, <2>2
    <3>2. PICK k \in DOMAIN lista(p) : lista(p)[k].nro_swap = h
      BY <3>1 DEF EnListaDe
    <3>3. k # v /\ k \in DOMAIN lista(p)' /\ lista(p)'[k] = lista(p)[k]
      BY <3>1, <3>2
    <3>. QED  BY <3>2, <3>3
  <2>. QED  BY <2>1, <2>2
<1>. QED  BY <1>2, <1>3, <1>4 DEF EnListaDe

\* buscar_marco_libre found m, and the page is brought to it.
TraeA(p, t, i, g, m) ==
  /\ ~fila(t, i).presencia /\ Len(lista(p)) # MarcosPorProceso
  /\ ~ocupado[m]
  /\ ocupado' = [ocupado EXCEPT ![m] = TRUE]
  /\ memoria' = [memoria EXCEPT ![m] = swap[p][g]]
  /\ tablas2' = [tablas2 EXCEPT ![t + 1][i] = FilaCargada(m)]
  /\ estructuras' = [estructuras EXCEPT ![p].marcos_en_memoria =
       agregar_pagina(@, [nro_marco |-> m, t |-> t, i |-> i, nro_swap |-> g])]
  /\ UNCHANGED <<swap, copiando, tablas1, tabla>>

LEMMA TraeAlguno ==
  ASSUME NEW p, NEW t, NEW i, NEW g, MarcoLibre(p, t, i, g)
  PROVE  \E m \in NrosMarco : TraeA(p, t, i, g, m)
BY DEF MarcoLibre, TraeA, tablasVars

LEMMA LibreBien ==
  ASSUME IMem, NEW p \in Pids, Vivo(p), copiando # p, pid_actual' = p,
         NEW g \in Paginas(p), NEW t, NEW i, <<t, i>> = Donde(p, g),
         NEW m \in NrosMarco, TraeA(p, t, i, g, m)
  PROVE  /\ IMem' /\ \A q \in Pids : q # p => Quieta(q)
         /\ ~Entrada(p, g).presencia /\ Entrada(p, g)' = FilaCargada(m)
         /\ \A q \in Pids : \A h \in Paginas(q) :
              Vivo(q) /\ ~(q = p /\ h = g) => Entrada(q, h)' = Entrada(q, h)
         /\ DOMAIN lista(p)' = 1 .. Len(lista(p)) + 1
         /\ \A k \in 1 .. Len(lista(p)) + 1 : lista(p)'[k] =
              IF k = Len(lista(p)) + 1 THEN [nro_marco |-> m, t |-> t, i |-> i, nro_swap |-> g] ELSE lista(p)[k]
         /\ \A k \in NrosMarco : memoria'[k] = IF k = m THEN swap[p][g] ELSE memoria[k]
         /\ Donde(p, g)' = <<t, i>> /\ Vivo(p)'
<1>. DEFINE l == lista(p)
            f == [nro_marco |-> m, t |-> t, i |-> i, nro_swap |-> g]
            v == Len(l) + 1
<1>0. Tipos /\ Tablas /\ EnLista /\ Repartidos
  BY DEF IMem
<1>1. l \in Seq(MarcoEnLista) /\ Len(l) \in Nat /\ DOMAIN l = 1 .. Len(l) /\ Len(l) <= MarcosPorProceso
  <2>1. estructuras[p] \in [marcos_en_memoria : Seq(MarcoEnLista), puntero : Posiciones]
    BY <1>0 DEF Tipos
  <2>2. l \in Seq(MarcoEnLista) /\ Len(l) <= MarcosPorProceso
    <3>. HIDE DEF MarcoEnLista
    <3>. QED  BY <1>0, <2>1 DEF lista, Tipos
  <2>. HIDE DEF MarcoEnLista, l
  <2>. QED  BY <2>2
<1>2. /\ Entrada(p, g) \in Fila /\ fila(t, i) = Entrada(p, g) /\ ~Entrada(p, g).presencia
      /\ Len(l) # MarcosPorProceso /\ FilaCargada(m) \in Fila /\ t \in Nat /\ i \in Entradas
  <2>1. Entrada(p, g) \in Fila /\ Donde(p, g) \in Sitios(tablas2)
    BY <1>0, SitioDe
  <2>2. t = Donde(p, g)[1] /\ i = Donde(p, g)[2]
    <3>. HIDE DEF Donde
    <3>1. \A d : <<t, i>> = d => t = d[1] /\ i = d[2]
      OBVIOUS
    <3>. QED  BY <3>1
  <2>3. fila(t, i) = Entrada(p, g)
    BY <2>2 DEF Entrada, Donde
  <2>4. t \in Nat /\ i \in Entradas
    BY <2>1, <2>2 DEF Sitios
  <2>5. FilaCargada(m) \in Fila
    BY DEF FilaCargada, Fila, NrosMarco
  <2>. QED  BY <2>1, <2>3, <2>4, <2>5 DEF TraeA
<1>3. f \in MarcoEnLista
  BY <1>2 DEF MarcoEnLista, Paginas
<1>4. \A k \in DOMAIN l : l[k].nro_marco # m
  <2>1. \A k : Firme(p, k)
    BY DEF Firme
  <2>. QED  BY <1>0, <2>1 DEF Repartidos, TraeA
<1>. HIDE DEF f
<1>5. f.nro_marco = m /\ f.t = t /\ f.i = i /\ f.nro_swap = g
  BY DEF f
<1>. HIDE DEF l
<1>6. /\ agregar_pagina(l, f) \in Seq(MarcoEnLista) /\ Len(agregar_pagina(l, f)) = Len(l) + 1
      /\ \A k \in 1 .. Len(l) + 1 : agregar_pagina(l, f)[k] = IF k = Len(l) + 1 THEN f ELSE l[k]
  BY <1>1, <1>3, <1>4, <1>5, AgregaNuevo
<1>7. /\ lista(p)' = agregar_pagina(l, f) /\ \A q \in Pids : q # p => lista(q)' = lista(q)
      /\ estructuras' \in [Pids -> [marcos_en_memoria : Seq(MarcoEnLista), puntero : Posiciones]]
  <2>1. estructuras' = [estructuras EXCEPT ![p].marcos_en_memoria = agregar_pagina(@, f)]
    BY DEF TraeA, f
  <2>2. estructuras \in [Pids -> [marcos_en_memoria : Seq(MarcoEnLista), puntero : Posiciones]]
    BY <1>0 DEF Tipos
  <2>3. estructuras' = [estructuras EXCEPT ![p].marcos_en_memoria = agregar_pagina(l, f)]
    BY <2>1, <2>2 DEF l, lista
  <2>. HIDE DEF MarcoEnLista
  <2>. QED  BY <1>6, <2>2, <2>3 DEF lista
<1>8. DOMAIN lista(p)' = 1 .. Len(l) + 1 /\ Len(lista(p)') = Len(l) + 1
  <2>. HIDE DEF MarcoEnLista
  <2>. QED  BY <1>6, <1>7
<1>9. /\ UNCHANGED <<swap, copiando, tablas1, tabla>>
      /\ memoria' = [memoria EXCEPT ![m] = swap[p][g]] /\ ocupado' = [ocupado EXCEPT ![m] = TRUE]
      /\ ~ocupado[m]
      /\ tablas2' = Escrita(tablas2, Donde(p, g), FilaCargada(m))
  BY EsEscrita, SMTT(60) DEF TraeA
<1>10. /\ tablas2' \in TablasTipo /\ Len(tablas2') = Len(tablas2) /\ Entrada(p, g)' = FilaCargada(m)
       /\ \A q \in Pids : \A h \in Paginas(q) :
            Vivo(q) /\ ~(q = p /\ h = g) => Entrada(q, h)' = Entrada(q, h)
  <2>1. Tipos /\ Tablas /\ Vivo(p) /\ UNCHANGED <<tablas1, tabla>>
    BY <1>0, <1>9
  <2>. QED  BY ONLY <2>1, <1>2, <1>9, p \in Pids, g \in Paginas(p), CambiaFila
<1>11. /\ \A q : Vivo(q)' = Vivo(q)
       /\ \A q, h : Donde(q, h)' = Donde(q, h)
  BY <1>9, DondeSigue DEF Vivo
<1>12. ASSUME NEW q \in Pids, q # p PROVE Quieta(q)
  <2>1. Vivo(q) => \A h \in Paginas(q) : Entrada(q, h) \in Fila /\ Entrada(q, h)' = Entrada(q, h)
    BY <1>0, <1>10, <1>12 DEF Tablas
  <2>. QED  BY <1>7, <1>11, <1>12, <2>1 DEF Quieta
<1>13. Tablas'
  <2>1. \A q \in Pids : \A h \in Paginas(q) : Vivo(q) => Entrada(q, h)' \in Fila
    BY <1>0, <1>2, <1>10 DEF Tablas
  <2>. QED  BY <1>0, <1>9, <1>10, <1>11, <2>1, TablasSigue
<1>14. EnListaDe(p)'
  <2>1. /\ DOMAIN lista(p)' = DOMAIN lista(p) \cup {v} /\ v \notin DOMAIN lista(p)
    BY <1>1, <1>8 DEF l
  <2>2. \A k \in DOMAIN lista(p)' : lista(p)'[k] = IF k = v THEN f ELSE lista(p)[k]
    BY <1>6, <1>7, <1>8 DEF l
  <2>3. \A k \in DOMAIN lista(p) : k # v => lista(p)[k].nro_marco # f.nro_marco
    BY <1>4, <1>5 DEF l
  <2>4. Entrada(p, g)'.presencia /\ Entrada(p, g)'.nro_marco = f.nro_marco
    BY <1>5, <1>10 DEF FilaCargada
  <2>5. EnListaDe(p) /\ Vivo(p)' /\ f.nro_swap = g /\ <<f.t, f.i>> = Donde(p, g)
    BY <1>0, <1>5, <1>11 DEF EnLista
  <2>. HIDE DEF v
  <2>. QED  BY <1>2, <1>10, <1>11, <2>1, <2>2, <2>3, <2>4, <2>5, TraeLista
<1>15. EnLista'
  BY <1>0, <1>12, <1>14, QuietaLista DEF EnLista
<1>16. Repartidos'
  <2>1. /\ \A q \in Pids : \A k : Firme(q, k)' = Firme(q, k)
        /\ \A k : Firme(p, k)
    BY <1>9 DEF Firme
  <2>2. ASSUME NEW q \in Pids, NEW k \in DOMAIN lista(q)', Firme(q, k)'
        PROVE  \/ q = p /\ k = v /\ lista(q)'[k] = f
               \/ k \in DOMAIN lista(q) /\ Firme(q, k) /\ lista(q)'[k] = lista(q)[k]
    <3>1. CASE q = p
      <4>1. /\ k \in 1 .. Len(l) + 1 /\ lista(q)'[k] = IF k = v THEN f ELSE l[k]
        BY <1>6, <1>7, <1>8, <3>1
      <4>2. k = v \/ k \in DOMAIN l
        BY <1>1, <4>1
      <4>. QED  BY <2>1, <3>1, <4>1, <4>2 DEF l
    <3>2. CASE q # p
      BY <1>7, <2>1, <2>2, <3>2
    <3>. QED  BY <3>1, <3>2
  <2>3. ASSUME NEW q \in Pids, NEW k \in DOMAIN lista(q), Firme(q, k)
        PROVE  /\ k \in DOMAIN lista(q)' /\ Firme(q, k)' /\ lista(q)'[k] = lista(q)[k]
               /\ lista(q)[k].nro_marco # m /\ ocupado[lista(q)[k].nro_marco]
               /\ lista(q)[k].nro_marco \in NrosMarco
    <3>1. ocupado[lista(q)[k].nro_marco]
      BY <1>0, <2>3 DEF Repartidos
    <3>2. k \in DOMAIN lista(q)' /\ lista(q)'[k] = lista(q)[k]
      <4>1. CASE q = p
        <5>1. k \in 1 .. Len(l) /\ k \in 1 .. Len(l) + 1 /\ k # Len(l) + 1
          BY <1>1, <4>1 DEF l
        <5>. QED  BY <1>6, <1>7, <1>8, <4>1, <5>1 DEF l
      <4>2. CASE q # p
        BY <1>7, <4>2
      <4>. QED  BY <4>1, <4>2
    <3>3. lista(q)[k].nro_marco \in NrosMarco
      BY <1>0, DeLista DEF EnLista
    <3>. QED  BY <1>9, <2>1, <2>3, <3>1, <3>2, <3>3
  <2>4. /\ \A a, b \in Pids : \A k \in DOMAIN lista(a)' : \A j \in DOMAIN lista(b)' :
           /\ lista(a)'[k].nro_marco = lista(b)'[j].nro_marco
           /\ Firme(a, k)' /\ Firme(b, j)'
           => a = b
    <3>. SUFFICES ASSUME NEW a \in Pids, NEW b \in Pids, NEW k \in DOMAIN lista(a)', NEW j \in DOMAIN lista(b)',
                         lista(a)'[k].nro_marco = lista(b)'[j].nro_marco, Firme(a, k)', Firme(b, j)'
                  PROVE  a = b
      OBVIOUS
    <3>1. \/ a = p /\ k = v /\ lista(a)'[k] = f
          \/ k \in DOMAIN lista(a) /\ Firme(a, k) /\ lista(a)'[k] = lista(a)[k] /\ lista(a)[k].nro_marco # m
      BY <2>2, <2>3
    <3>2. \/ b = p /\ j = v /\ lista(b)'[j] = f
          \/ j \in DOMAIN lista(b) /\ Firme(b, j) /\ lista(b)'[j] = lista(b)[j] /\ lista(b)[j].nro_marco # m
      BY <2>2, <2>3
    <3>. QED  BY <1>0, <1>5, <3>1, <3>2 DEF Repartidos
  <2>5. ocupado \in [NrosMarco -> BOOLEAN]
    BY <1>0 DEF Tipos
  <2>6. \A q \in Pids : \A k \in DOMAIN lista(q)' : Firme(q, k)' => ocupado'[lista(q)'[k].nro_marco]
    <3>. SUFFICES ASSUME NEW q \in Pids, NEW k \in DOMAIN lista(q)', Firme(q, k)'
                  PROVE  ocupado'[lista(q)'[k].nro_marco]
      OBVIOUS
    <3>1. CASE lista(q)'[k] = f
      BY <1>5, <1>9, <2>5, <3>1
    <3>2. CASE k \in DOMAIN lista(q) /\ Firme(q, k) /\ lista(q)'[k] = lista(q)[k]
      BY <1>9, <2>3, <2>5, <3>2
    <3>. QED  BY <2>2, <3>1, <3>2
  <2>7. \A n \in NrosMarco : ocupado'[n] =>
          \E q \in Pids : \E k \in DOMAIN lista(q)' : Firme(q, k)' /\ lista(q)'[k].nro_marco = n
    <3>. SUFFICES ASSUME NEW n \in NrosMarco, ocupado'[n]
                  PROVE  \E q \in Pids : \E k \in DOMAIN lista(q)' : Firme(q, k)' /\ lista(q)'[k].nro_marco = n
      OBVIOUS
    <3>1. CASE n = m
      <4>1. v \in DOMAIN lista(p)' /\ lista(p)'[v] = f /\ \A k : Firme(p, k)'
        BY <1>1, <1>6, <1>7, <1>8, <2>1
      <4>. HIDE DEF v
      <4>. QED  BY <1>5, <3>1, <4>1
    <3>2. CASE n # m
      <4>1. ocupado[n]
        BY <1>9, <2>5, <3>2
      <4>2. PICK q \in Pids : \E k \in DOMAIN lista(q) : Firme(q, k) /\ lista(q)[k].nro_marco = n
        BY <1>0, <4>1 DEF Repartidos
      <4>3. PICK k \in DOMAIN lista(q) : Firme(q, k) /\ lista(q)[k].nro_marco = n
        BY <4>2
      <4>. QED  BY <2>3, <4>3
    <3>. QED  BY <3>1, <3>2
  <2>. QED  BY <2>4, <2>6, <2>7 DEF Repartidos
<1>17. memoria' \in [NrosMarco -> Datos] /\ \A k \in NrosMarco : memoria'[k] = IF k = m THEN swap[p][g] ELSE memoria[k]
  <2>1. memoria \in [NrosMarco -> Datos] /\ swap[p] \in [Paginas(p) -> Datos]
    BY <1>0 DEF Tipos, Vivo
  <2>. QED  BY <1>9, <2>1
<1>18. Tipos'
  <2>1. ASSUME NEW q \in Pids PROVE Len(lista(q)') <= MarcosPorProceso
    <3>1. CASE q = p
      <4>1. Len(l) + 1 <= MarcosPorProceso
        <5>. DEFINE n == Len(l)
        <5>1. n \in Nat /\ n <= MarcosPorProceso /\ n # MarcosPorProceso /\ MarcosPorProceso \in Nat
          BY <1>1, <1>2, MarcosAssumption
        <5>. HIDE DEF n
        <5>2. n + 1 <= MarcosPorProceso
          BY ONLY <5>1
        <5>. QED  BY <5>2 DEF n
      <4>. QED  BY <1>8, <3>1, <4>1
    <3>2. CASE q # p
      BY <1>0, <1>7, <3>2 DEF Tipos
    <3>. QED  BY <3>1, <3>2
  <2>2. /\ tablas1' \in Seq([Entradas -> -1 .. Len(tablas2') - 1])
        /\ tablas2' \in Seq([Entradas -> Fila \cup {Basura}])
    BY <1>0, <1>9, <1>10 DEF Tipos, TablasTipo
  <2>. QED  BY <1>0, <1>7, <1>9, <1>17, <2>1, <2>2 DEF Tipos
<1>19. IMem'
  BY <1>13, <1>15, <1>16, <1>18 DEF IMem
<1>20. /\ DOMAIN lista(p)' = 1 .. Len(l) + 1
       /\ \A k \in 1 .. Len(l) + 1 : lista(p)'[k] = IF k = Len(l) + 1 THEN f ELSE l[k]
  BY <1>6, <1>7, <1>8
<1>. QED  BY <1>2, <1>10, <1>11, <1>12, <1>17, <1>19, <1>20 DEF l, f

-----------------------------------------------------------------------------
(* A page fault that evicts a page                                         *)

\* The pages the search passes over lose their use bit.
LEMMA TablasSinBien ==
  ASSUME tablas2 \in TablasTipo, NEW S, \A d \in S : FilaEn(tablas2, d) \in Fila
  PROVE  /\ TablasSin(S) \in TablasTipo /\ Len(TablasSin(S)) = Len(tablas2)
         /\ Sitios(TablasSin(S)) = Sitios(tablas2)
         /\ \A e \in Sitios(tablas2) : FilaEn(TablasSin(S), e) =
              IF e \in S THEN [FilaEn(tablas2, e) EXCEPT !.uso = FALSE] ELSE FilaEn(tablas2, e)
<1>. DEFINE z == TablasSin(S)
            T == [Entradas -> Fila \cup {Basura}]
            Largo == Len(tablas2)
<1>1. /\ tablas2 \in Seq(T) /\ Largo \in Nat /\ DOMAIN tablas2 = 1 .. Largo
      /\ \A n \in 1 .. Largo : tablas2[n] \in T
  <2>1. tablas2 \in Seq(T)
    BY DEF TablasTipo
  <2>. HIDE DEF T
  <2>. QED  BY <2>1
<1>2. ASSUME NEW n \in 1 .. Largo, NEW j \in Entradas
      PROVE  /\ z[n][j] = IF <<n - 1, j>> \in S THEN [tablas2[n][j] EXCEPT !.uso = FALSE] ELSE tablas2[n][j]
             /\ z[n][j] \in Fila \cup {Basura}
  <2>1. z[n][j] = IF <<n - 1, j>> \in S THEN [tablas2[n][j] EXCEPT !.uso = FALSE] ELSE tablas2[n][j]
    BY <1>1 DEF TablasSin
  <2>2. tablas2[n][j] \in Fila \cup {Basura}
    BY <1>1
  <2>3. CASE <<n - 1, j>> \in S
    <3>1. FilaEn(tablas2, <<n - 1, j>>) = tablas2[n][j]
      <4>1. (n - 1) + 1 = n
        OBVIOUS
      <4>. QED  BY <4>1 DEF FilaEn
    <3>2. tablas2[n][j] \in Fila
      BY <2>3, <3>1
    <3>3. [tablas2[n][j] EXCEPT !.uso = FALSE] \in Fila
      BY <3>2 DEF Fila
    <3>. QED  BY <2>1, <2>3, <3>3
  <2>4. CASE <<n - 1, j>> \notin S
    BY <2>1, <2>2, <2>4
  <2>. QED  BY <2>1, <2>3, <2>4
<1>3. z \in [1 .. Largo -> T]
  <2>1. z = [n \in 1 .. Largo |-> [j \in Entradas |-> z[n][j]]]
    BY <1>1 DEF TablasSin
  <2>2. ASSUME NEW n \in 1 .. Largo PROVE [j \in Entradas |-> z[n][j]] \in T
    BY <1>2
  <2>. HIDE DEF z, T
  <2>. QED  BY <2>1, <2>2
<1>4. z \in Seq(T) /\ Len(z) = Largo
  <2>. HIDE DEF z, T, Largo
  <2>. QED  BY <1>1, <1>3
<1>5. Sitios(z) = Sitios(tablas2)
  BY <1>4 DEF Sitios
<1>6. ASSUME NEW e \in Sitios(tablas2)
      PROVE  FilaEn(z, e) = IF e \in S THEN [FilaEn(tablas2, e) EXCEPT !.uso = FALSE] ELSE FilaEn(tablas2, e)
  <2>1. e = <<e[1], e[2]>> /\ e[1] \in Int /\ e[1] + 1 \in 1 .. Largo /\ e[2] \in Entradas
    BY DEF Sitios
  <2>2. <<(e[1] + 1) - 1, e[2]>> = e
    <3>1. (e[1] + 1) - 1 = e[1]
      BY <2>1
    <3>. QED  BY <2>1, <3>1
  <2>. QED  BY <1>2, <2>1, <2>2 DEF FilaEn
<1>. QED  BY <1>4, <1>5, <1>6 DEF TablasTipo

\* The victim's entry and then the new page's are written.
Cambiada(s, d, e, x) ==
  [s EXCEPT ![d[1] + 1][d[2]].presencia = FALSE, ![d[1] + 1][d[2]].modificado = FALSE,
            ![e[1] + 1][e[2]] = x]

Desalojada(r) == [r EXCEPT !.presencia = FALSE, !.modificado = FALSE]

LEMMA EscribeDos ==
  ASSUME NEW s \in TablasTipo, NEW d \in Sitios(s), FilaEn(s, d) \in Fila, NEW e \in Sitios(s), d # e,
         NEW x \in Fila
  PROVE  /\ Cambiada(s, d, e, x) \in TablasTipo /\ Len(Cambiada(s, d, e, x)) = Len(s)
         /\ \A c \in Sitios(s) : FilaEn(Cambiada(s, d, e, x), c) =
              IF c = e THEN x
              ELSE IF c = d THEN Desalojada(FilaEn(s, d))
              ELSE FilaEn(s, c)
<1>. DEFINE u == [FilaEn(s, d) EXCEPT !.presencia = FALSE]
            y == Escrita(s, d, u)
            w == [FilaEn(y, d) EXCEPT !.modificado = FALSE]
            v == Escrita(y, d, w)
            z == Cambiada(s, d, e, x)
<1>1. z = Escrita(v, e, x)
  BY DEF Escrita, FilaEn, Cambiada
<1>2. u \in Fila
  BY DEF Fila
<1>. HIDE DEF u, y, w, v, z
<1>3. y \in TablasTipo /\ Len(y) = Len(s) /\ Sitios(y) = Sitios(s)
      /\ \A c \in Sitios(s) : FilaEn(y, c) = IF c = d THEN u ELSE FilaEn(s, c)
  BY <1>2, EscribeSitio DEF y
<1>4. w = [u EXCEPT !.modificado = FALSE] /\ w \in Fila
  BY <1>2, <1>3 DEF w, Fila
<1>5. v \in TablasTipo /\ Len(v) = Len(s) /\ Sitios(v) = Sitios(s)
      /\ \A c \in Sitios(s) : FilaEn(v, c) = IF c = d THEN w ELSE FilaEn(y, c)
  <2>1. y \in TablasTipo /\ d \in Sitios(y) /\ w \in Fila
    BY <1>3, <1>4
  <2>. QED  BY ONLY <1>3, <2>1, EscribeSitio DEF v
<1>6. z \in TablasTipo /\ Len(z) = Len(s)
      /\ \A c \in Sitios(s) : FilaEn(z, c) = IF c = e THEN x ELSE FilaEn(v, c)
  <2>1. v \in TablasTipo /\ e \in Sitios(v) /\ x \in Fila
    BY <1>5
  <2>. QED  BY ONLY <1>1, <1>5, <2>1, EscribeSitio
<1>7. w = Desalojada(FilaEn(s, d))
  BY <1>4 DEF u, Fila, Desalojada
<1>. QED  BY <1>3, <1>5, <1>6, <1>7 DEF z

\* reemplazo_por_clock chose the frame of element v, f, of p's list and took
\* the use bit of the entries D.
CedeA(p, t, i, g, v, f, D, ptr) ==
  /\ v \in DOMAIN lista(p) /\ f = lista(p)[v] /\ ptr \in Posiciones
  /\ \A d \in D : \E k \in DOMAIN lista(p) : d = <<lista(p)[k].t, lista(p)[k].i>>
  /\ ~fila(t, i).presencia
  /\ swap' = SwapTras(p, f)
  /\ memoria' = [memoria EXCEPT ![f.nro_marco] = swap[p][g]]
  /\ tablas2' = [TablasSin(D) EXCEPT
       ![f.t + 1][f.i].presencia = FALSE, ![f.t + 1][f.i].modificado = FALSE,
       ![t + 1][i] = FilaCargada(f.nro_marco)]
  /\ estructuras' = [estructuras EXCEPT ![p] =
       [marcos_en_memoria |-> agregar_pagina(lista(p),
          [nro_marco |-> f.nro_marco, t |-> t, i |-> i, nro_swap |-> g]),
        puntero |-> ptr]]
  /\ UNCHANGED <<ocupado, copiando, tablas1, tabla>>

LEMMA CedeAlguno ==
  ASSUME IMem, NEW p \in Pids, NEW t, NEW i, NEW g, MarcoReemplazado(p, t, i, g)
  PROVE  \E v, f, D, ptr : CedeA(p, t, i, g, v, f, D, ptr)
<1>. DEFINE r == usar_algoritmo(p)
            v == r.victima + 1
            D == Despojados(p, r.bits)
<1>0. Tipos /\ Tablas /\ EnLista
  BY DEF IMem
<1>1. /\ lista(p) \in Seq(MarcoEnLista) /\ Len(lista(p)) = MarcosPorProceso
      /\ estructuras[p].puntero \in Posiciones /\ DOMAIN lista(p) = 1 .. MarcosPorProceso
  <2>1. estructuras[p] \in [marcos_en_memoria : Seq(MarcoEnLista), puntero : Posiciones]
    BY <1>0 DEF Tipos
  <2>2. lista(p) \in Seq(MarcoEnLista) /\ Len(lista(p)) = MarcosPorProceso /\ estructuras[p].puntero \in Posiciones
    <3>. HIDE DEF MarcoEnLista
    <3>. QED  BY <2>1 DEF lista, MarcoReemplazado
  <2>. HIDE DEF MarcoEnLista
  <2>. QED  BY <2>2
<1>2. \A k \in Posiciones : k + 1 \in DOMAIN lista(p)
  BY <1>1, MarcosAssumption DEF Posiciones
<1>3. BitsDe(p) \in Bits
  <2>1. ASSUME NEW k \in Posiciones
        PROVE  fila(lista(p)[k + 1].t, lista(p)[k + 1].i) \in Fila
    BY <1>0, <1>2, DeLista DEF EnLista
  <2>. QED  BY <2>1 DEF BitsDe, Bits, Fila
<1>4. r.victima \in Posiciones /\ r.puntero \in Posiciones /\ r.bits \in Bits
  <2>1. r \in {clock_simple(BitsDe(p), estructuras[p].puntero), clock_modificado(BitsDe(p), estructuras[p].puntero)}
    BY DEF usar_algoritmo
  <2>. HIDE DEF r
  <2>. QED  BY <1>1, <1>3, <2>1, ElegidaPosicion
<1>5. \A d \in D : \E k \in DOMAIN lista(p) : d = <<lista(p)[k].t, lista(p)[k].i>>
  <2>. HIDE DEF r
  <2>. QED  BY <1>2 DEF Despojados
<1>6. v \in DOMAIN lista(p)
  <2>. HIDE DEF r
  <2>. QED  BY <1>2, <1>4
<1>7. CedeA(p, t, i, g, v, lista(p)[v], D, r.puntero)
  <2>1. /\ ~fila(t, i).presencia
        /\ swap' = SwapTras(p, lista(p)[v])
        /\ memoria' = [memoria EXCEPT ![lista(p)[v].nro_marco] = swap[p][g]]
        /\ tablas2' = [TablasSin(D) EXCEPT
             ![lista(p)[v].t + 1][lista(p)[v].i].presencia = FALSE,
             ![lista(p)[v].t + 1][lista(p)[v].i].modificado = FALSE,
             ![t + 1][i] = FilaCargada(lista(p)[v].nro_marco)]
        /\ UNCHANGED <<ocupado, copiando, tablas1, tabla>>
    <3>. HIDE DEF r
    <3>. QED  BY DEF MarcoReemplazado, tablasVars, r
  <2>2. estructuras' = [estructuras EXCEPT ![p] =
          [marcos_en_memoria |-> agregar_pagina(lista(p),
             [nro_marco |-> lista(p)[v].nro_marco, t |-> t, i |-> i, nro_swap |-> g]),
           puntero |-> r.puntero]]
    <3>1. p \in DOMAIN estructuras
      BY <1>0 DEF Tipos
    <3>2. \A w : [estructuras EXCEPT ![p] = [marcos_en_memoria |-> agregar_pagina(@.marcos_en_memoria, w), puntero |-> r.puntero]]
                 = [estructuras EXCEPT ![p] = [marcos_en_memoria |-> agregar_pagina(lista(p), w), puntero |-> r.puntero]]
      <4>. HIDE DEF r
      <4>. QED  BY <3>1 DEF lista
    <3>3. estructuras' = [estructuras EXCEPT ![p] =
             [marcos_en_memoria |-> agregar_pagina(@.marcos_en_memoria,
                [nro_marco |-> lista(p)[v].nro_marco, t |-> t, i |-> i, nro_swap |-> g]),
              puntero |-> r.puntero]]
      BY DEF MarcoReemplazado
    <3>. HIDE DEF r, v
    <3>. QED  BY <3>2, <3>3
  <2>. HIDE DEF r, v, D
  <2>. QED  BY <1>4, <1>5, <1>6, <2>1, <2>2 DEF CedeA
<1>. HIDE DEF r, v, D
<1>. QED  BY <1>7

\* What the replacement does: f's page leaves, g takes its frame and its place.
Desaloja(p, g, v, f) ==
  /\ v \in DOMAIN lista(p) /\ f = lista(p)[v] /\ f.nro_swap # g /\ ~Entrada(p, g).presencia
  /\ Entrada(p, g)' = FilaCargada(f.nro_marco)
  /\ \A q \in Pids : \A h \in Paginas(q) : Vivo(q) /\ ~(q = p /\ h = g) =>
       /\ Entrada(q, h)' \in Fila
       /\ Entrada(q, h)'.nro_marco = Entrada(q, h).nro_marco
       /\ Entrada(q, h)'.presencia <=> Entrada(q, h).presencia /\ ~(q = p /\ h = f.nro_swap)
       /\ Entrada(q, h)'.modificado <=> Entrada(q, h).modificado /\ ~(q = p /\ h = f.nro_swap)
  /\ DOMAIN lista(p)' = DOMAIN lista(p)
  /\ \A k \in DOMAIN lista(p) :
       /\ lista(p)'[k].nro_marco = lista(p)[k].nro_marco
       /\ lista(p)'[k].nro_swap = IF k = v THEN g ELSE lista(p)[k].nro_swap
  /\ \A k \in NrosMarco : memoria'[k] = IF k = f.nro_marco THEN swap[p][g] ELSE memoria[k]
  /\ \A q \in Pids : \A h \in Paginas(q) : Vivo(q) => swap'[q][h] =
       IF q = p /\ h = f.nro_swap /\ Entrada(p, h).modificado THEN memoria[f.nro_marco] ELSE swap[q][h]

LEMMA ReemplazoBien ==
  ASSUME IMem, NEW p \in Pids, Vivo(p), pid_actual' = p,
         NEW g \in Paginas(p), NEW t, NEW i, <<t, i>> = Donde(p, g),
         NEW v, NEW f, NEW D, NEW ptr, CedeA(p, t, i, g, v, f, D, ptr)
  PROVE  /\ IMem' /\ (\A q \in Pids : q # p => Quieta(q))
         /\ \A q \in Pids : Vivo(q)' = Vivo(q)
         /\ Desaloja(p, g, v, f)
         /\ Donde(p, g)' = <<t, i>>
<1>. DEFINE l == lista(p)
            n == [nro_marco |-> f.nro_marco, t |-> t, i |-> i, nro_swap |-> g]
            o == f.nro_swap
            m == f.nro_marco
<1>0. Tipos /\ Tablas /\ EnLista /\ Repartidos
  BY DEF IMem
<1>1. /\ l \in Seq(MarcoEnLista) /\ DOMAIN l = 1 .. Len(l) /\ Len(l) \in Nat /\ Len(l) <= MarcosPorProceso
      /\ v \in 1 .. Len(l) /\ v \in DOMAIN lista(p) /\ f = lista(p)[v]
  <2>1. v \in DOMAIN lista(p) /\ f = lista(p)[v]
    BY DEF CedeA
  <2>2. lista(p) \in Seq(MarcoEnLista) /\ v \in 1 .. Len(lista(p))
    BY <1>0, <2>1, DeLista DEF EnLista
  <2>3. Len(l) <= MarcosPorProceso
    BY <1>0 DEF Tipos
  <2>. HIDE DEF MarcoEnLista
  <2>. QED  BY <2>1, <2>2, <2>3
<1>2. /\ f \in MarcoEnLista /\ m \in NrosMarco /\ o \in Paginas(p) /\ <<f.t, f.i>> = Donde(p, o)
      /\ fila(f.t, f.i) = Entrada(p, o) /\ Entrada(p, o) \in Fila /\ Entrada(p, o).presencia
      /\ Entrada(p, o).nro_marco = m
  BY <1>0, <1>1, DeLista DEF EnLista
<1>3. /\ Entrada(p, g) \in Fila /\ ~Entrada(p, g).presencia /\ FilaCargada(m) \in Fila
      /\ t \in Nat /\ i \in Entradas /\ o # g
  <2>1. Entrada(p, g) \in Fila /\ Donde(p, g) \in Sitios(tablas2)
    BY <1>0, SitioDe
  <2>2. t = Donde(p, g)[1] /\ i = Donde(p, g)[2]
    <3>. HIDE DEF Donde
    <3>1. \A d : <<t, i>> = d => t = d[1] /\ i = d[2]
      OBVIOUS
    <3>. QED  BY <3>1
  <2>3. fila(t, i) = Entrada(p, g)
    BY <2>2 DEF Entrada, Donde
  <2>4. t \in Nat /\ i \in Entradas
    BY <2>1, <2>2 DEF Sitios
  <2>5. FilaCargada(m) \in Fila
    BY <1>2 DEF FilaCargada, Fila, NrosMarco
  <2>. QED  BY <1>2, <2>1, <2>3, <2>4, <2>5 DEF CedeA
<1>4. n \in MarcoEnLista
  BY <1>2, <1>3 DEF MarcoEnLista, Paginas
<1>5. n.nro_marco = m /\ n.t = t /\ n.i = i /\ n.nro_swap = g
  OBVIOUS
<1>6. /\ UNCHANGED <<ocupado, copiando, tablas1, tabla>>
      /\ memoria' = [memoria EXCEPT ![m] = swap[p][g]]
      /\ swap' = IF Entrada(p, o).modificado THEN ConEnSwap(swap, p, o, memoria[m]) ELSE swap
      /\ estructuras' = [estructuras EXCEPT ![p] = [marcos_en_memoria |-> agregar_pagina(l, n), puntero |-> ptr]]
      /\ tablas2' = [TablasSin(D) EXCEPT
           ![f.t + 1][f.i].presencia = FALSE, ![f.t + 1][f.i].modificado = FALSE, ![t + 1][i] = FilaCargada(m)]
      /\ ptr \in Posiciones
  <2>1. SwapTras(p, f) = IF Entrada(p, o).modificado THEN ConEnSwap(swap, p, o, memoria[m]) ELSE swap
    BY <1>2 DEF SwapTras, ConEnSwap
  <2>. QED  BY <2>1 DEF CedeA
<1>7. EnListaDe(p)
  BY <1>0 DEF EnLista
<1>8. \A k, j \in DOMAIN l : l[k].nro_marco = l[j].nro_marco => k = j
  BY <1>7 DEF EnListaDe
<1>. HIDE DEF l, n
<1>9. /\ agregar_pagina(l, n) \in Seq(MarcoEnLista) /\ Len(agregar_pagina(l, n)) = Len(l)
      /\ \A k \in 1 .. Len(l) : agregar_pagina(l, n)[k] = IF k = v THEN n ELSE l[k]
  <2>1. l \in Seq(MarcoEnLista) /\ n \in MarcoEnLista /\ v \in DOMAIN l /\ l[v].nro_marco = n.nro_marco
    BY <1>1, <1>4, <1>5 DEF l
  <2>. QED  BY ONLY <1>8, <2>1, AgregaEnLugar
<1>10. /\ lista(p)' = agregar_pagina(l, n) /\ \A q \in Pids : q # p => lista(q)' = lista(q)
       /\ estructuras' \in [Pids -> [marcos_en_memoria : Seq(MarcoEnLista), puntero : Posiciones]]
  <2>2. estructuras \in [Pids -> [marcos_en_memoria : Seq(MarcoEnLista), puntero : Posiciones]]
    BY <1>0 DEF Tipos
  <2>. HIDE DEF MarcoEnLista
  <2>. QED  BY <1>6, <1>9, <2>2 DEF lista
<1>11. /\ DOMAIN lista(p)' = 1 .. Len(l) /\ Len(lista(p)') = Len(l)
       /\ DOMAIN lista(p) = 1 .. Len(l) /\ l = lista(p)
       /\ \A k \in 1 .. Len(l) : lista(p)'[k] = IF k = v THEN n ELSE lista(p)[k]
  <2>. HIDE DEF MarcoEnLista
  <2>. QED  BY <1>1, <1>9, <1>10 DEF l
<1>12. /\ tablas2' \in TablasTipo /\ Len(tablas2') = Len(tablas2)
       /\ Entrada(p, g)' = FilaCargada(m)
       /\ \A q \in Pids : \A h \in Paginas(q) : Vivo(q) /\ ~(q = p /\ h = g) =>
            /\ Entrada(q, h)' \in Fila
            /\ Entrada(q, h)'.nro_marco = Entrada(q, h).nro_marco
            /\ Entrada(q, h)'.presencia <=> Entrada(q, h).presencia /\ ~(q = p /\ h = o)
            /\ Entrada(q, h)'.modificado <=> Entrada(q, h).modificado /\ ~(q = p /\ h = o)
  <2>. DEFINE s == TablasSin(D)
  <2>1. /\ tablas2 \in TablasTipo
        /\ \A q \in Pids : Vivo(q) => \A h \in Paginas(q) :
             Donde(q, h) \in Sitios(tablas2) /\ Entrada(q, h) \in Fila
        /\ \A q, h : Entrada(q, h) = FilaEn(tablas2, Donde(q, h))
    BY <1>0, SitioDe
  <2>2. \A d \in D : FilaEn(tablas2, d) \in Fila
    <3>. SUFFICES ASSUME NEW d \in D PROVE FilaEn(tablas2, d) \in Fila
      OBVIOUS
    <3>1. PICK k \in DOMAIN lista(p) : d = <<lista(p)[k].t, lista(p)[k].i>>
      BY DEF CedeA
    <3>2. d = Donde(p, lista(p)[k].nro_swap) /\ lista(p)[k].nro_swap \in Paginas(p)
      BY <1>0, <1>7, <3>1, DeLista
    <3>. QED  BY <2>1, <3>2
  <2>3. /\ s \in TablasTipo /\ Len(s) = Len(tablas2) /\ Sitios(s) = Sitios(tablas2)
        /\ \A e \in Sitios(tablas2) : FilaEn(s, e) =
              IF e \in D THEN [FilaEn(tablas2, e) EXCEPT !.uso = FALSE] ELSE FilaEn(tablas2, e)
    BY ONLY <2>1, <2>2, TablasSinBien
  <2>. HIDE DEF s
  <2>4. \A x \in Fila : /\ [x EXCEPT !.uso = FALSE] \in Fila
                        /\ [x EXCEPT !.uso = FALSE].presencia = x.presencia
                        /\ [x EXCEPT !.uso = FALSE].modificado = x.modificado
                        /\ [x EXCEPT !.uso = FALSE].nro_marco = x.nro_marco
    BY DEF Fila
  <2>5. \A x \in Fila : LET y == Desalojada(x)
                        IN y \in Fila /\ ~y.presencia /\ ~y.modificado /\ y.nro_marco = x.nro_marco
    BY DEF Fila, Desalojada
  <2>6. \A q \in Pids : \A h \in Paginas(q) : Vivo(q) =>
          /\ FilaEn(s, Donde(q, h)) \in Fila
          /\ FilaEn(s, Donde(q, h)).presencia = Entrada(q, h).presencia
          /\ FilaEn(s, Donde(q, h)).modificado = Entrada(q, h).modificado
          /\ FilaEn(s, Donde(q, h)).nro_marco = Entrada(q, h).nro_marco
    BY <2>1, <2>3, <2>4
  <2>. DEFINE d1 == Donde(p, o)
              d2 == Donde(p, g)
  <2>7. /\ d1 \in Sitios(s) /\ d2 \in Sitios(s) /\ d1 # d2 /\ FilaEn(s, d1) \in Fila
        /\ <<f.t, f.i>> = d1 /\ <<t, i>> = d2
    <3>1. d1 # d2
      BY <1>0, <1>2, <1>3 DEF Tablas
    <3>. QED  BY <1>2, <2>1, <2>3, <2>6, <3>1
  <2>8. tablas2' = [s EXCEPT ![f.t + 1][f.i].presencia = FALSE, ![f.t + 1][f.i].modificado = FALSE, ![t + 1][i] = FilaCargada(m)]
    BY <1>6 DEF s
  <2>. HIDE DEF d1, d2
  <2>. DEFINE z == tablas2'
  <2>9. z \in TablasTipo /\ Len(z) = Len(s)
        /\ \A c \in Sitios(s) : FilaEn(z, c) =
              IF c = d2 THEN FilaCargada(m)
              ELSE IF c = d1 THEN Desalojada(FilaEn(s, d1))
              ELSE FilaEn(s, c)
    <3>1. z = Cambiada(s, d1, d2, FilaCargada(m))
      <4>1. \A a, b, d : <<a, b>> = d => d[1] = a /\ d[2] = b
        OBVIOUS
      <4>2. d1[1] = f.t /\ d1[2] = f.i /\ d2[1] = t /\ d2[2] = i
        BY ONLY <2>7, <4>1
      <4>. QED  BY ONLY <2>8, <4>2 DEF Cambiada, z
    <3>2. s \in TablasTipo /\ FilaCargada(m) \in Fila
      BY <1>3, <2>3
    <3>. DEFINE x == FilaCargada(m)
                c3 == Cambiada(s, d1, d2, x)
    <3>. HIDE DEF z, x
    <3>3. s \in TablasTipo /\ d1 \in Sitios(s) /\ FilaEn(s, d1) \in Fila /\ d2 \in Sitios(s) /\ d1 # d2 /\ x \in Fila
      BY <2>7, <3>2 DEF x
    <3>4. /\ c3 \in TablasTipo /\ Len(c3) = Len(s)
          /\ \A c \in Sitios(s) : FilaEn(c3, c) =
              IF c = d2 THEN x
              ELSE IF c = d1 THEN Desalojada(FilaEn(s, d1))
              ELSE FilaEn(s, c)
      BY ONLY <3>3, EscribeDos
    <3>. QED  BY ONLY <3>1, <3>4 DEF x
  <2>10. \A q, h : Entrada(q, h)' = FilaEn(z, Donde(q, h))
    BY <1>6, DondeSigue
  <2>. HIDE DEF z
  <2>11. ASSUME NEW q \in Pids, NEW h \in Paginas(q), Vivo(q), ~(q = p /\ h = g)
         PROVE  /\ Entrada(q, h)' \in Fila
                /\ Entrada(q, h)'.nro_marco = Entrada(q, h).nro_marco
                /\ Entrada(q, h)'.presencia <=> Entrada(q, h).presencia /\ ~(q = p /\ h = o)
                /\ Entrada(q, h)'.modificado <=> Entrada(q, h).modificado /\ ~(q = p /\ h = o)
    <3>1. Donde(q, h) \in Sitios(s) /\ Donde(q, h) # d2 /\ (Donde(q, h) = d1 <=> q = p /\ h = o)
      BY <1>0, <1>2, <2>1, <2>3, <2>11 DEF Tablas, d1, d2
    <3>2. CASE Donde(q, h) = d1
      <4>1. Entrada(q, h)' = Desalojada(FilaEn(s, d1))
        BY <2>9, <2>10, <3>1, <3>2
      <4>2. FilaEn(s, d1) \in Fila /\ FilaEn(s, d1).nro_marco = Entrada(q, h).nro_marco
        BY <2>6, <2>11, <3>2
      <4>. QED  BY <2>5, <3>1, <3>2, <4>1, <4>2
    <3>3. CASE Donde(q, h) # d1
      <4>1. Entrada(q, h)' = FilaEn(s, Donde(q, h))
        BY <2>9, <2>10, <3>1, <3>3
      <4>. QED  BY <2>6, <2>11, <3>1, <3>3, <4>1
    <3>. QED  BY <3>2, <3>3
  <2>12. Entrada(p, g)' = FilaCargada(m)
    BY <2>7, <2>9, <2>10 DEF d2
  <2>. QED  BY <2>3, <2>9, <2>11, <2>12 DEF z
<1>13. /\ swap' = [q \in Pids |-> swap'[q]]
       /\ \A q \in Pids : swap'[q] \in [Paginas(q) -> Datos] \cup {<< >>}
       /\ \A q \in Pids : Vivo(q)' = Vivo(q)
       /\ \A q \in Pids : \A h \in Paginas(q) : Vivo(q) => swap'[q][h] =
            IF q = p /\ h = o /\ Entrada(p, h).modificado THEN memoria[m] ELSE swap[q][h]
  <2>1. CASE Entrada(p, o).modificado
    <3>1. Tipos /\ Vivo(p)
      BY <1>0
    <3>2. memoria[m] \in Datos /\ o \in Paginas(p) /\ swap' = ConEnSwap(swap, p, o, memoria[m])
      BY <1>0, <1>2, <1>6, <2>1 DEF Tipos
    <3>3. /\ swap' = [q \in Pids |-> swap'[q]]
          /\ \A q \in Pids : swap'[q] \in [Paginas(q) -> Datos] \cup {<< >>}
          /\ \A q \in Pids : Vivo(q)' = Vivo(q)
          /\ \A q \in Pids : \A h \in Paginas(q) :
               swap'[q][h] = IF q = p /\ h = o THEN memoria[m] ELSE swap[q][h]
      BY ONLY <3>1, <3>2, p \in Pids, EscribeSwap
    <3>. QED  BY <2>1, <3>3
  <2>2. CASE ~Entrada(p, o).modificado
    <3>1. swap' = swap
      BY <1>6, <2>2
    <3>. QED  BY <1>0, <2>2, <3>1 DEF Tipos, Vivo
  <2>. QED  BY <2>1, <2>2
<1>14. \A q, h : Donde(q, h)' = Donde(q, h)
  BY <1>6, DondeSigue
<1>15. ASSUME NEW q \in Pids, q # p PROVE Quieta(q)
  <2>1. Vivo(q) => \A h \in Paginas(q) :
          /\ Entrada(q, h)' \in Fila
          /\ Entrada(q, h)'.presencia = Entrada(q, h).presencia
          /\ Entrada(q, h)'.nro_marco = Entrada(q, h).nro_marco
    <3>. SUFFICES ASSUME Vivo(q), NEW h \in Paginas(q)
                  PROVE  /\ Entrada(q, h)' \in Fila
                         /\ Entrada(q, h)'.presencia = Entrada(q, h).presencia
                         /\ Entrada(q, h)'.nro_marco = Entrada(q, h).nro_marco
      OBVIOUS
    <3>1. /\ Entrada(q, h)' \in Fila /\ Entrada(q, h)'.nro_marco = Entrada(q, h).nro_marco
          /\ Entrada(q, h)'.presencia <=> Entrada(q, h).presencia
      BY <1>12, <1>15
    <3>2. Entrada(q, h) \in Fila
      BY <1>0 DEF Tablas
    <3>3. \A x \in Fila : x.presencia \in BOOLEAN
      BY DEF Fila
    <3>. QED  BY <3>1, <3>2, <3>3
  <2>. QED  BY <1>10, <1>13, <1>14, <1>15, <2>1 DEF Quieta
<1>16. Tablas'
  <2>1. \A q \in Pids : \A h \in Paginas(q) : Vivo(q) => Entrada(q, h)' \in Fila
    BY <1>3, <1>12
  <2>. QED  BY <1>0, <1>6, <1>12, <1>13, <2>1, TablasSigue
<1>17. EnListaDe(p)'
  <2>1. DOMAIN lista(p)' = DOMAIN lista(p) \cup {v} /\ v \in DOMAIN lista(p) /\ lista(p)[v].nro_swap = o
    BY <1>1, <1>11
  <2>2. \A k \in DOMAIN lista(p)' : lista(p)'[k] = IF k = v THEN n ELSE lista(p)[k]
    BY <1>11
  <2>3. \A k \in DOMAIN lista(p) : k # v => lista(p)[k].nro_marco # n.nro_marco
    BY <1>1, <1>5, <1>8, <1>11
  <2>4. Entrada(p, g)'.presencia /\ Entrada(p, g)'.nro_marco = n.nro_marco
    BY <1>5, <1>12 DEF FilaCargada
  <2>5. Vivo(p)' /\ n.nro_swap = g /\ <<n.t, n.i>> = Donde(p, g)
    BY <1>5, <1>13
  <2>6. \A h \in Paginas(p) : h # g =>
           /\ Entrada(p, h)'.nro_marco = Entrada(p, h).nro_marco
           /\ Entrada(p, h)'.presencia <=>
                Entrada(p, h).presencia /\ ~(v \in DOMAIN lista(p) /\ lista(p)[v].nro_swap = h)
    BY <1>12, <2>1
  <2>. HIDE DEF o, m
  <2>. QED  BY <1>3, <1>7, <1>14, <2>1, <2>2, <2>3, <2>4, <2>5, <2>6, TraeLista
<1>18. EnLista'
  BY <1>0, <1>15, <1>17, QuietaLista DEF EnLista
<1>19. Repartidos'
  <2>1. ASSUME NEW q \in Pids
        PROVE  /\ DOMAIN lista(q)' = DOMAIN lista(q)
               /\ \A k \in DOMAIN lista(q) : lista(q)'[k].nro_marco = lista(q)[k].nro_marco
    <3>1. CASE q = p
      BY <1>1, <1>5, <1>11, <3>1
    <3>2. CASE q # p
      BY <1>10, <3>2
    <3>. QED  BY <3>1, <3>2
  <2>. QED  BY <1>0, <1>6, <2>1, RepartidosSigue
<1>20. memoria' \in [NrosMarco -> Datos] /\ \A k \in NrosMarco : memoria'[k] = IF k = m THEN swap[p][g] ELSE memoria[k]
  <2>1. memoria \in [NrosMarco -> Datos] /\ swap[p] \in [Paginas(p) -> Datos]
    BY <1>0 DEF Tipos, Vivo
  <2>. QED  BY <1>2, <1>6, <2>1
<1>21. Tipos'
  <2>1. ASSUME NEW q \in Pids PROVE Len(lista(q)') <= MarcosPorProceso
    <3>1. CASE q = p
      BY <1>1, <1>11, <3>1
    <3>2. CASE q # p
      BY <1>0, <1>10, <3>2 DEF Tipos
    <3>. QED  BY <3>1, <3>2
  <2>2. /\ tablas1' \in Seq([Entradas -> -1 .. Len(tablas2') - 1])
        /\ tablas2' \in Seq([Entradas -> Fila \cup {Basura}])
    BY <1>0, <1>6, <1>12 DEF Tipos, TablasTipo
  <2>. QED  BY <1>0, <1>6, <1>10, <1>13, <1>20, <2>1, <2>2 DEF Tipos
<1>22. IMem'
  BY <1>16, <1>18, <1>19, <1>21 DEF IMem
<1>23. Desaloja(p, g, v, f)
  <2>1. /\ DOMAIN lista(p)' = DOMAIN lista(p)
        /\ \A k \in DOMAIN lista(p) :
             /\ lista(p)'[k].nro_marco = lista(p)[k].nro_marco
             /\ lista(p)'[k].nro_swap = IF k = v THEN g ELSE lista(p)[k].nro_swap
    BY <1>1, <1>5, <1>11
  <2>. QED  BY <1>1, <1>3, <1>12, <1>13, <1>20, <2>1 DEF Desaloja
<1>. QED  BY <1>13, <1>14, <1>15, <1>22, <1>23

-----------------------------------------------------------------------------
(* Tables created and structures eliminated                                *)

LEMMA CreaBien ==
  ASSUME IMem, NEW p \in Pids, ~Vivo(p), crear_tablas(p)
  PROVE  /\ IMem' /\ \A q \in Pids : q # p => Quieta(q)
         /\ Vivo(p)' /\ \A q \in Pids : q # p => swap'[q] = swap[q]
         /\ \A g \in Paginas(p) : Entrada(p, g)' = FilaNueva /\ swap'[p][g] = Cero
         /\ \A q \in Pids : q # p /\ Vivo(q) => \A g \in Paginas(q) : Entrada(q, g)' = Entrada(q, g)
<1>. DEFINE E == EntradasPorTabla
            n == CantTablas(p)
            Largo == Len(tablas2)
            T == [Entradas -> Fila \cup {Basura}]
            ts == [i \in 1 .. n |-> TablaNueva(p, i - 1)]
            dir == [i \in Entradas |-> IF i < n THEN Largo + i ELSE -1]
            D == [Entradas -> -1 .. (Largo + n) - 1]
            nuevo == [g \in Paginas(p) |-> Cero]
<1>0. Tipos /\ Tablas /\ EnLista /\ Repartidos
  BY DEF IMem
<1>1. n \in Nat \ {0} /\ 0 \in Paginas(p)
  <2>1. 0 \in Paginas(p)
    BY MemoriaAssumption DEF Paginas
  <2>2. EntradasPorTabla \in Nat
    BY MemoriaAssumption
  <2>. QED  BY <2>1, <2>2, Division
<1>2. tablas2 \in Seq(T) /\ Largo \in Nat /\ DOMAIN tablas2 = 1 .. Largo
  <2>1. tablas2 \in Seq(T)
    BY <1>0 DEF Tipos
  <2>. HIDE DEF T
  <2>. QED  BY <2>1
<1>3. /\ tablas2' = tablas2 \o ts /\ tablas1' = Append(tablas1, dir)
      /\ tabla' = [tabla EXCEPT ![p] = Len(tablas1)]
      /\ swap' = [swap EXCEPT ![p] = nuevo]
      /\ estructuras' = [estructuras EXCEPT ![p] = SinMarcos]
      /\ UNCHANGED <<memoria, ocupado, pid_actual, copiando>>
  BY DEF crear_tablas
<1>4. \A i \in Int : TablaNueva(p, i) \in T
  <2>1. FilaNueva \in Fila
    BY MemoriaAssumption DEF FilaNueva, Fila
  <2>. QED  BY <2>1 DEF TablaNueva
<1>5. ts \in Seq(T) /\ Len(ts) = n /\ \A k \in 1 .. n : ts[k] = TablaNueva(p, k - 1)
  <2>1. ts \in [1 .. n -> T] /\ n \in Nat
    BY <1>1, <1>4
  <2>2. \A k \in 1 .. n : ts[k] = TablaNueva(p, k - 1)
    OBVIOUS
  <2>. HIDE DEF T, n, ts
  <2>. QED  BY <2>1, <2>2
<1>6. /\ tablas2' \in Seq(T) /\ Len(tablas2') = Largo + n /\ DOMAIN tablas2' = 1 .. Largo + n
      /\ \A k \in 1 .. Largo : tablas2'[k] = tablas2[k]
      /\ \A k \in 1 .. n : tablas2'[Largo + k] = TablaNueva(p, k - 1)
  <2>. HIDE DEF T, n, ts, Largo
  <2>. DEFINE c == tablas2 \o ts
  <2>1. /\ tablas2 \in Seq(T) /\ ts \in Seq(T) /\ Len(tablas2) = Largo /\ Len(ts) = n /\ Largo \in Nat /\ n \in Nat
    BY <1>1, <1>2, <1>5 DEF Largo
  <2>2. /\ c \in Seq(T) /\ Len(c) = Largo + n
        /\ \A k \in 1 .. Largo + n : c[k] = IF k <= Largo THEN tablas2[k] ELSE ts[k - Largo]
    BY ONLY <2>1, ConcatProperties
  <2>. HIDE DEF c
  <2>3. \A k \in 1 .. Largo : c[k] = tablas2[k]
    <3>1. \A k \in 1 .. Largo : k \in 1 .. Largo + n /\ k <= Largo
      BY ONLY <2>1
    <3>. QED  BY ONLY <2>2, <3>1
  <2>4. \A k \in 1 .. n : c[Largo + k] = ts[k]
    <3>1. \A k \in 1 .. n : Largo + k \in 1 .. Largo + n /\ ~(Largo + k <= Largo) /\ (Largo + k) - Largo = k
      BY ONLY <2>1
    <3>. QED  BY ONLY <2>2, <3>1
  <2>5. DOMAIN c = 1 .. Largo + n
    BY ONLY <2>2
  <2>. QED  BY <1>3, <1>5, <2>2, <2>3, <2>4, <2>5 DEF c
<1>7. /\ tablas1 \in Seq(D) /\ dir \in D /\ Len(tablas1) \in Nat /\ DOMAIN tablas1 = 1 .. Len(tablas1)
  <2>1. tablas1 \in Seq([Entradas -> -1 .. Largo - 1])
    BY <1>0 DEF Tipos
  <2>2. [Entradas -> -1 .. Largo - 1] \subseteq D
    BY <1>1, <1>2
  <2>3. dir \in D
    BY <1>1, <1>2 DEF Entradas
  <2>. DEFINE A == [Entradas -> -1 .. Largo - 1]
  <2>. HIDE DEF D, A, dir
  <2>4. tablas1 \in Seq(A) /\ A \subseteq D
    BY <2>1, <2>2 DEF A
  <2>. QED  BY <2>3, <2>4
<1>8. /\ tablas1' \in Seq(D) /\ Len(tablas1') = Len(tablas1) + 1 /\ DOMAIN tablas1' = 1 .. Len(tablas1) + 1
      /\ \A k \in 1 .. Len(tablas1) : tablas1'[k] = tablas1[k]
      /\ tablas1'[Len(tablas1) + 1] = dir
  <2>. HIDE DEF D, dir
  <2>. QED  BY <1>3, <1>7
<1>9. /\ tabla \in [Pids -> Nat] /\ tabla' \in [Pids -> Nat] /\ tabla'[p] = Len(tablas1)
      /\ \A q \in Pids : q # p => tabla'[q] = tabla[q]
  <2>1. tabla \in [Pids -> Nat]
    BY <1>0 DEF Tipos
  <2>. QED  BY <1>3, <1>7, <2>1
<1>10. /\ nuevo \in [Paginas(p) -> Datos] /\ nuevo # << >> /\ swap'[p] = nuevo
       /\ \A q \in Pids : q # p => swap'[q] = swap[q]
       /\ swap' = [q \in Pids |-> swap'[q]]
       /\ \A q \in Pids : swap'[q] \in [Paginas(q) -> Datos] \cup {<< >>}
  <2>1. nuevo \in [Paginas(p) -> Datos]
    BY MemoriaAssumption
  <2>2. nuevo # << >>
    BY <2>1, HaySwap
  <2>3. swap = [q \in Pids |-> swap[q]] /\ \A q \in Pids : swap[q] \in [Paginas(q) -> Datos] \cup {<< >>}
    BY <1>0 DEF Tipos
  <2>. HIDE DEF nuevo
  <2>. QED  BY <1>3, <2>1, <2>2, <2>3
<1>11. Vivo(p)' /\ \A q \in Pids : q # p => Vivo(q)' = Vivo(q)
  BY <1>10 DEF Vivo
<1>12. /\ \A q \in Pids : lista(q)' = lista(q)
       /\ estructuras' \in [Pids -> [marcos_en_memoria : Seq(MarcoEnLista), puntero : Posiciones]]
       /\ lista(p) = << >>
  <2>1. estructuras \in [Pids -> [marcos_en_memoria : Seq(MarcoEnLista), puntero : Posiciones]]
    BY <1>0 DEF Tipos
  <2>2. lista(p) = << >>
    BY <1>0 DEF EnLista, EnListaDe
  <2>3. SinMarcos \in [marcos_en_memoria : Seq(MarcoEnLista), puntero : Posiciones] /\ SinMarcos.marcos_en_memoria = << >>
    <3>1. 0 \in Posiciones
      BY MarcosAssumption DEF Posiciones
    <3>. HIDE DEF MarcoEnLista
    <3>. QED  BY <3>1 DEF SinMarcos
  <2>. HIDE DEF MarcoEnLista
  <2>. QED  BY <1>3, <2>1, <2>2, <2>3 DEF lista
<1>13. ASSUME NEW g \in Paginas(p)
       PROVE  /\ Donde(p, g)' = <<Largo + (g \div E), g % E>> /\ Entrada(p, g)' = FilaNueva
              /\ Largo + (g \div E) + 1 \in 1 .. Largo + n
  <2>1. /\ g \in Nat /\ g \div E \in Entradas /\ g % E \in Entradas /\ g \div E < n
        /\ marcos_actuales(g \div E, g % E) = g
    BY Division
  <2>. DEFINE a == g \div E
              b == g % E
  <2>2. a \in Nat /\ a < n /\ a \in Entradas /\ b \in Entradas /\ marcos_actuales(a, b) = g
    BY <2>1 DEF Entradas
  <2>3. tablas1'[tabla'[p] + 1] = dir
    BY <1>8, <1>9
  <2>. HIDE DEF a, b
  <2>4. dir[a] = Largo + a
    BY <2>2
  <2>5. nro_tabla_2do_nivel(p, a)' = Largo + a
    BY <2>3, <2>4 DEF nro_tabla_2do_nivel
  <2>6. Largo + a + 1 \in 1 .. Largo + n /\ tablas2'[(Largo + a) + 1] = TablaNueva(p, a)
    <3>1. a + 1 \in 1 .. n /\ (a + 1) - 1 = a /\ Largo + (a + 1) = (Largo + a) + 1
      BY <1>1, <1>2, <2>2
    <3>2. Largo + a + 1 \in 1 .. Largo + n
      BY <1>1, <1>2, <2>2
    <3>3. tablas2'[Largo + (a + 1)] = TablaNueva(p, (a + 1) - 1)
      BY <1>6, <3>1
    <3>. QED  BY <3>1, <3>2, <3>3
  <2>7. TablaNueva(p, a)[b] = FilaNueva
    BY <2>2, MemoriaAssumption DEF TablaNueva, Paginas
  <2>8. Entrada(p, g)' = tablas2'[nro_tabla_2do_nivel(p, a)' + 1][b]
    BY DEF Entrada, fila, a, b
  <2>9. Donde(p, g)' = <<nro_tabla_2do_nivel(p, a)', b>>
    BY DEF Donde, a, b
  <2>. QED  BY <2>5, <2>6, <2>7, <2>8, <2>9 DEF a, b
<1>. HIDE DEF E, n, Largo, ts, dir, D, T, nuevo
<1>14. ASSUME NEW q \in Pids, q # p, Vivo(q), NEW g \in Paginas(q)
       PROVE  /\ Donde(q, g)' = Donde(q, g) /\ Entrada(q, g)' = Entrada(q, g)
              /\ Donde(q, g)[1] + 1 \in 1 .. Largo /\ Donde(q, g)[1] \in Int
  <2>1. tabla[q] + 1 \in 1 .. Len(tablas1) /\ Donde(q, g)[1] + 1 \in 1 .. Largo
    BY <1>0, <1>2, <1>7, <1>14 DEF Tablas
  <2>2. tablas1'[tabla'[q] + 1] = tablas1[tabla[q] + 1]
    BY <1>8, <1>9, <1>14, <2>1
  <2>3. Donde(q, g)' = Donde(q, g) /\ nro_tabla_2do_nivel(q, g \div EntradasPorTabla)' = nro_tabla_2do_nivel(q, g \div EntradasPorTabla)
    BY <2>2 DEF Donde, nro_tabla_2do_nivel
  <2>. DEFINE t == nro_tabla_2do_nivel(q, g \div EntradasPorTabla)
  <2>4. t + 1 \in 1 .. Largo
    BY <2>1 DEF Donde
  <2>5. tablas2'[t + 1] = tablas2[t + 1]
    BY <1>6, <2>4
  <2>6. Entrada(q, g)' = Entrada(q, g)
    BY <2>3, <2>5 DEF Entrada, fila
  <2>7. Donde(q, g)[1] \in Int
    BY <1>0, <1>14, SitioDe DEF Sitios
  <2>. QED  BY <2>1, <2>3, <2>6, <2>7
<1>15. ASSUME NEW q \in Pids, q # p PROVE Quieta(q)
  <2>1. Vivo(q) => \A h \in Paginas(q) : Entrada(q, h) \in Fila
    BY <1>0 DEF Tablas
  <2>. QED  BY <1>11, <1>12, <1>14, <1>15, <2>1 DEF Quieta
<1>16. Tablas'
  <2>1. FilaNueva \in Fila
    BY MemoriaAssumption DEF FilaNueva, Fila
  <2>2. ASSUME NEW q \in Pids, Vivo(q)'
        PROVE  /\ tabla'[q] + 1 \in DOMAIN tablas1'
               /\ \A g \in Paginas(q) : (Donde(q, g)')[1] + 1 \in DOMAIN tablas2' /\ Entrada(q, g)' \in Fila
    <3>1. CASE q = p
      <4>1. tabla'[q] + 1 \in DOMAIN tablas1'
        BY <1>7, <1>8, <1>9, <3>1
      <4>. QED  BY <1>6, <1>13, <2>1, <3>1, <4>1
    <3>2. CASE q # p
      <4>1. Vivo(q) /\ tabla[q] + 1 \in 1 .. Len(tablas1)
        BY <1>0, <1>7, <1>11, <2>2, <3>2 DEF Tablas
      <4>2. tabla'[q] + 1 \in DOMAIN tablas1'
        BY <1>7, <1>8, <1>9, <3>2, <4>1
      <4>3. \A g \in Paginas(q) : (Donde(q, g)')[1] + 1 \in DOMAIN tablas2'
        <5>1. \A k \in 1 .. Largo : k \in 1 .. Largo + n
          BY <1>1, <1>2 DEF Largo
        <5>. QED  BY <1>6, <1>14, <3>2, <4>1, <5>1
      <4>4. \A g \in Paginas(q) : Entrada(q, g)' \in Fila
        BY <1>0, <1>14, <3>2, <4>1 DEF Tablas
      <4>. QED  BY <4>2, <4>3, <4>4
    <3>. QED  BY <3>1, <3>2
  <2>3. ASSUME NEW q \in Pids, NEW r \in Pids, NEW g \in Paginas(q), NEW h \in Paginas(r),
               Vivo(q)', Vivo(r)', Donde(q, g)' = Donde(r, h)'
        PROVE  q = r /\ g = h
    <3>1. Largo \in Nat
      BY <1>2 DEF Largo
    <3>2. ASSUME NEW x \in Paginas(p) PROVE x \div E \in Nat
      BY Division DEF Entradas, E
    <3>3. CASE q = p /\ r = p
      <4>1. <<Largo + (g \div E), g % E>> = <<Largo + (h \div E), h % E>> /\ g \div E \in Nat /\ h \div E \in Nat
        BY <1>13, <2>3, <3>2, <3>3
      <4>2. g \div E = h \div E /\ g % E = h % E
        BY <3>1, <4>1
      <4>. QED  BY <3>3, <4>2, DivisionUnica DEF E
    <3>4. CASE q # p /\ r # p
      BY <1>0, <1>11, <1>14, <2>3, <3>4 DEF Tablas
    <3>5. CASE q = p /\ r # p
      <4>1. <<Largo + (g \div E), g % E>> = Donde(r, h) /\ Donde(r, h)[1] + 1 \in 1 .. Largo /\ g \div E \in Nat
        BY <1>11, <1>13, <1>14, <2>3, <3>2, <3>5
      <4>2. Donde(r, h)[1] = Largo + (g \div E)
        BY ONLY <4>1
      <4>. QED  BY <3>1, <4>1, <4>2
    <3>6. CASE q # p /\ r = p
      <4>1. <<Largo + (h \div E), h % E>> = Donde(q, g) /\ Donde(q, g)[1] + 1 \in 1 .. Largo /\ h \div E \in Nat
        BY <1>11, <1>13, <1>14, <2>3, <3>2, <3>6
      <4>2. Donde(q, g)[1] = Largo + (h \div E)
        BY ONLY <4>1
      <4>. QED  BY <3>1, <4>1, <4>2
    <3>. QED  BY <3>3, <3>4, <3>5, <3>6
  <2>. QED  BY <2>2, <2>3 DEF Tablas
<1>17. EnListaDe(p)'
  <2>1. lista(p)' = << >> /\ DOMAIN (lista(p)') = {}
    BY <1>12
  <2>2. \A g \in Paginas(p) : ~Entrada(p, g)'.presencia
    BY <1>13 DEF FilaNueva
  <2>. QED  BY <2>1, <2>2 DEF EnListaDe
<1>18. EnLista'
  BY <1>0, <1>15, <1>17, QuietaLista DEF EnLista
<1>19. Repartidos'
  BY <1>0, <1>3, <1>12, RepartidosSigue
<1>20. Tipos'
  <2>1. \A q \in Pids : Len(lista(q)') <= MarcosPorProceso
    BY <1>0, <1>12 DEF Tipos
  <2>2. tablas1' \in Seq([Entradas -> -1 .. Len(tablas2') - 1]) /\ tablas2' \in Seq([Entradas -> Fila \cup {Basura}])
    BY <1>6, <1>8 DEF T, D
  <2>. QED  BY <1>0, <1>3, <1>9, <1>10, <1>12, <2>1, <2>2 DEF Tipos
<1>21. IMem'
  BY <1>16, <1>18, <1>19, <1>20 DEF IMem
<1>22. \A g \in Paginas(p) : swap'[p][g] = Cero
  BY <1>10 DEF nuevo
<1>. QED  BY <1>10, <1>11, <1>13, <1>14, <1>15, <1>21, <1>22

LEMMA EliminaBien ==
  ASSUME IMem, NEW p \in Pids, eliminar_estructuras(p), copiando = Nadie
  PROVE  /\ IMem' /\ \A q \in Pids : q # p => Quieta(q)
         /\ ~Vivo(p)' /\ \A q \in Pids : q # p => swap'[q] = swap[q]
         /\ UNCHANGED <<tablas1, tablas2, tabla>>
<1>0. Tipos /\ Tablas /\ EnLista /\ Repartidos
  BY DEF IMem
<1>1. /\ UNCHANGED <<memoria, tablas1, tablas2, tabla, pid_actual, copiando>>
      /\ ocupado' = [m \in NrosMarco |-> ocupado[m] /\ \A i \in DOMAIN lista(p) : lista(p)[i].nro_marco # m]
      /\ swap' = [swap EXCEPT ![p] = << >>]
      /\ estructuras' = [estructuras EXCEPT ![p] = SinMarcos]
  BY DEF eliminar_estructuras, tablasVars
<1>2. /\ swap'[p] = << >> /\ \A q \in Pids : q # p => swap'[q] = swap[q]
      /\ swap' = [q \in Pids |-> swap'[q]]
      /\ \A q \in Pids : swap'[q] \in [Paginas(q) -> Datos] \cup {<< >>}
  <2>1. swap = [q \in Pids |-> swap[q]] /\ \A q \in Pids : swap[q] \in [Paginas(q) -> Datos] \cup {<< >>}
    BY <1>0 DEF Tipos
  <2>. QED  BY <1>1, <2>1
<1>3. ~Vivo(p)' /\ \A q \in Pids : q # p => Vivo(q)' = Vivo(q)
  BY <1>2 DEF Vivo
<1>4. /\ lista(p)' = << >> /\ \A q \in Pids : q # p => lista(q)' = lista(q)
      /\ estructuras' \in [Pids -> [marcos_en_memoria : Seq(MarcoEnLista), puntero : Posiciones]]
  <2>1. estructuras \in [Pids -> [marcos_en_memoria : Seq(MarcoEnLista), puntero : Posiciones]]
    BY <1>0 DEF Tipos
  <2>2. SinMarcos \in [marcos_en_memoria : Seq(MarcoEnLista), puntero : Posiciones] /\ SinMarcos.marcos_en_memoria = << >>
    <3>1. 0 \in Posiciones
      BY MarcosAssumption DEF Posiciones
    <3>. HIDE DEF MarcoEnLista
    <3>. QED  BY <3>1 DEF SinMarcos
  <2>. HIDE DEF MarcoEnLista
  <2>. QED  BY <1>1, <2>1, <2>2 DEF lista
<1>5. \A q, g : Donde(q, g)' = Donde(q, g) /\ Entrada(q, g)' = Entrada(q, g)
  BY <1>1 DEF Donde, Entrada, fila, nro_tabla_2do_nivel
<1>6. ASSUME NEW q \in Pids, q # p PROVE Quieta(q)
  <2>1. Vivo(q) => \A h \in Paginas(q) : Entrada(q, h) \in Fila
    BY <1>0 DEF Tablas
  <2>. QED  BY <1>3, <1>4, <1>5, <1>6, <2>1 DEF Quieta
<1>7. Tablas'
  <2>1. \A q \in Pids : Vivo(q)' => Vivo(q)
    BY <1>3
  <2>. QED  BY <1>0, <1>1, <1>5, <2>1 DEF Tablas
<1>8. EnListaDe(p)'
  BY <1>3, <1>4 DEF EnListaDe
<1>9. EnLista'
  BY <1>0, <1>6, <1>8, QuietaLista DEF EnLista
<1>10. Repartidos'
  <2>1. /\ \A q, i : Firme(q, i)' = Firme(q, i)
        /\ \A q \in Pids : \A i : Firme(q, i)
    BY <1>1, MemoriaAssumption DEF Firme
  <2>2. DOMAIN (lista(p)') = {}
    BY <1>4
  <2>3. ASSUME NEW q \in Pids, NEW k \in DOMAIN lista(q)'
        PROVE  q # p /\ k \in DOMAIN lista(q) /\ lista(q)'[k] = lista(q)[k]
    BY <1>4, <2>2
  <2>4. \A a, b \in Pids : \A k \in DOMAIN lista(a)' : \A j \in DOMAIN lista(b)' :
           /\ lista(a)'[k].nro_marco = lista(b)'[j].nro_marco
           /\ Firme(a, k)' /\ Firme(b, j)'
           => a = b
    BY <1>0, <2>1, <2>3 DEF Repartidos
  <2>5. \A q \in Pids : \A k \in DOMAIN lista(q)' : Firme(q, k)' => ocupado'[lista(q)'[k].nro_marco]
    <3>. SUFFICES ASSUME NEW q \in Pids, NEW k \in DOMAIN lista(q)'
                  PROVE  ocupado'[lista(q)[k].nro_marco]
      BY <2>3
    <3>1. q # p /\ k \in DOMAIN lista(q)
      BY <2>3
    <3>2. lista(q)[k].nro_marco \in NrosMarco /\ ocupado[lista(q)[k].nro_marco]
      BY <1>0, <2>1, <3>1, DeLista DEF Repartidos, EnLista
    <3>3. \A i \in DOMAIN lista(p) : lista(p)[i].nro_marco # lista(q)[k].nro_marco
      BY <1>0, <2>1, <3>1 DEF Repartidos
    <3>. QED  BY <1>1, <3>2, <3>3
  <2>6. \A m \in NrosMarco : ocupado'[m] =>
          \E q \in Pids : \E k \in DOMAIN lista(q)' : Firme(q, k)' /\ lista(q)'[k].nro_marco = m
    <3>. SUFFICES ASSUME NEW m \in NrosMarco, ocupado'[m]
                  PROVE  \E q \in Pids : \E k \in DOMAIN lista(q)' : lista(q)'[k].nro_marco = m
      BY <2>1
    <3>1. ocupado[m] /\ \A i \in DOMAIN lista(p) : lista(p)[i].nro_marco # m
      BY <1>1
    <3>2. PICK q \in Pids : \E k \in DOMAIN lista(q) : lista(q)[k].nro_marco = m
      BY <1>0, <3>1 DEF Repartidos
    <3>3. q # p
      BY <3>1, <3>2
    <3>. QED  BY <1>4, <3>2, <3>3
  <2>. QED  BY <2>4, <2>5, <2>6 DEF Repartidos
<1>11. Tipos'
  <2>1. ASSUME NEW q \in Pids PROVE Len(lista(q)') <= MarcosPorProceso
    <3>1. CASE q = p
      BY <1>4, <3>1, MarcosAssumption
    <3>2. CASE q # p
      BY <1>0, <1>4, <3>2 DEF Tipos
    <3>. QED  BY <3>1, <3>2
  <2>2. ocupado' \in [NrosMarco -> BOOLEAN]
    BY <1>0, <1>1 DEF Tipos
  <2>. QED  BY <1>0, <1>1, <1>2, <1>4, <2>1, <2>2 DEF Tipos
<1>12. IMem'
  BY <1>7, <1>9, <1>10, <1>11 DEF IMem
<1>. QED  BY <1>1, <1>2, <1>3, <1>6, <1>12

-----------------------------------------------------------------------------
(* The TLB                                                                 *)

LEMMA TlbEntradas ==
  ASSUME NEW s, TlbBien(s)
  PROVE  /\ s \in Seq(EntradaTlb) /\ DOMAIN s = 1 .. EntradasTlb /\ Len(s) = EntradasTlb
         /\ EntradasTlb \in Nat \ {0}
         /\ \A i \in 1 .. EntradasTlb : s[i] \in EntradaTlb
<1>1. s \in [1 .. EntradasTlb -> EntradaTlb] /\ EntradasTlb \in Nat \ {0}
  BY TlbAssumption DEF TlbBien
<1>. HIDE DEF EntradaTlb
<1>. QED  BY <1>1

\* An entry is referred to.
LEMMA ReferidaBien ==
  ASSUME NEW s, TlbBien(s), NEW i \in 1 .. EntradasTlb
  PROVE  /\ TlbBien(Referida(s, i))
         /\ \A j \in 1 .. EntradasTlb : /\ Referida(s, i)[j].pagina = s[j].pagina
                                        /\ Referida(s, i)[j].marco = s[j].marco
<1>. DEFINE n == EntradasTlb
            r == Referida(s, i)
            ref(j) == s[j].ultima_referencia
            x(j) == IF j = i THEN n ELSE IF ref(j) > ref(i) THEN ref(j) - 1 ELSE ref(j)
<1>1. /\ DOMAIN s = 1 .. n /\ Len(s) = n /\ n \in Nat \ {0}
      /\ \A j \in 1 .. n : s[j] \in EntradaTlb /\ ref(j) \in 1 .. n
  BY TlbEntradas DEF EntradaTlb
<1>2. ASSUME NEW j \in 1 .. n
      PROVE  /\ r[j] \in EntradaTlb /\ r[j].pagina = s[j].pagina /\ r[j].marco = s[j].marco
             /\ r[j].ultima_referencia = x(j) /\ x(j) \in 1 .. n
  <2>1. r[j] = [s[j] EXCEPT !.ultima_referencia = x(j)]
    <3>1. r = [k \in 1 .. n |-> [s[k] EXCEPT !.ultima_referencia =
               IF k = i THEN n ELSE IF @ > ref(i) THEN @ - 1 ELSE @]]
      BY <1>1 DEF Referida
    <3>2. s[j] \in EntradaTlb
      BY <1>1
    <3>3. [s[j] EXCEPT !.ultima_referencia = IF j = i THEN n ELSE IF @ > ref(i) THEN @ - 1 ELSE @]
          = [s[j] EXCEPT !.ultima_referencia = x(j)]
      BY <3>2 DEF EntradaTlb
    <3>. QED  BY <3>1, <3>3
  <2>2. x(j) \in 1 .. n
    <3>1. ref(j) \in 1 .. n /\ ref(i) \in 1 .. n
      BY <1>1
    <3>. QED  BY <1>1, <3>1
  <2>3. s[j] \in EntradaTlb
    BY <1>1
  <2>. QED  BY <2>1, <2>2, <2>3 DEF EntradaTlb
<1>3. r \in [1 .. n -> EntradaTlb]
  <2>1. r = [j \in 1 .. n |-> r[j]]
    BY <1>1 DEF Referida
  <2>2. \A j \in 1 .. n : r[j] \in EntradaTlb
    BY <1>2
  <2>. HIDE DEF r
  <2>. QED  BY <2>1, <2>2
<1>4. /\ \A j, k \in 1 .. n : ref(j) = ref(k) => j = k
      /\ \A k \in 1 .. n : \E j \in 1 .. n : ref(j) = k
      /\ \A j \in 1 .. n : s[j].pagina = -1 => s[j].marco = -1
      /\ \A j, k \in 1 .. n : s[j].pagina # -1 /\ s[j].pagina = s[k].pagina => j = k
  BY DEF TlbBien
<1>5. ASSUME NEW j \in 1 .. n, NEW k \in 1 .. n, x(j) = x(k) PROVE j = k
  <2>1. /\ ref(j) \in 1 .. n /\ ref(i) \in 1 .. n /\ ref(k) \in 1 .. n
        /\ (ref(j) = ref(i) => j = i) /\ (ref(k) = ref(i) => k = i) /\ (ref(j) = ref(k) => j = k)
    BY <1>1, <1>4
  <2>. QED  BY <1>1, <1>5, <2>1
<1>6. ASSUME NEW k \in 1 .. n PROVE \E j \in 1 .. n : x(j) = k
  <2>1. ref(i) \in 1 .. n
    BY <1>1
  <2>2. CASE k = n
    BY <2>2
  <2>3. CASE k # n /\ k < ref(i)
    <3>1. PICK j \in 1 .. n : ref(j) = k
      BY <1>4
    <3>. QED  BY <1>1, <2>1, <2>3, <3>1
  <2>4. CASE k # n /\ ~(k < ref(i))
    <3>1. k + 1 \in 1 .. n
      BY <1>1, <2>4
    <3>2. PICK j \in 1 .. n : ref(j) = k + 1
      BY <1>4, <3>1
    <3>3. j # i /\ ref(j) > ref(i) /\ ref(j) - 1 = k
      BY <1>1, <2>1, <2>4, <3>2
    <3>. QED  BY <3>3
  <2>. QED  BY <2>2, <2>3, <2>4
<1>. HIDE DEF r, x, ref
<1>7. TlbBien(r)
  <2>1. \A j, k \in 1 .. n : r[j].ultima_referencia = r[k].ultima_referencia => j = k
    BY <1>2, <1>5
  <2>2. \A k \in 1 .. n : \E j \in 1 .. n : r[j].ultima_referencia = k
    BY <1>2, <1>6
  <2>3. \A j \in 1 .. n : r[j].pagina = -1 => r[j].marco = -1
    BY <1>2, <1>4
  <2>4. \A j, k \in 1 .. n : r[j].pagina # -1 /\ r[j].pagina = r[k].pagina => j = k
    BY <1>2, <1>4
  <2>. QED  BY <1>3, <2>1, <2>2, <2>3, <2>4 DEF TlbBien
<1>. QED  BY <1>2, <1>7 DEF r

\* The entries of s in another order, that at i for another page.
Reordenada(s, t, f, i, pag) ==
  /\ f \in [1 .. EntradasTlb -> 1 .. EntradasTlb]
  /\ \A j, k \in 1 .. EntradasTlb : f[j] = f[k] => j = k
  /\ \A k \in 1 .. EntradasTlb : \E j \in 1 .. EntradasTlb : f[j] = k
  /\ \A k \in 1 .. EntradasTlb : t[k].ultima_referencia = s[f[k]].ultima_referencia
  /\ \A k \in 1 .. EntradasTlb :
       IF f[k] = i THEN t[k].pagina = pag
       ELSE t[k].pagina = s[f[k]].pagina /\ t[k].marco = s[f[k]].marco

LEMMA ReordenadaBien ==
  ASSUME NEW s, TlbBien(s), NEW t \in [1 .. EntradasTlb -> EntradaTlb], NEW f, NEW i, NEW pag,
         pag # -1, \A j \in 1 .. EntradasTlb : s[j].pagina # pag,
         Reordenada(s, t, f, i, pag)
  PROVE  TlbBien(t)
<1>. DEFINE n == EntradasTlb
<1>1. \A k \in 1 .. n : f[k] \in 1 .. n
  BY DEF Reordenada
<1>6. \A k \in 1 .. n :
        /\ t[k].ultima_referencia = s[f[k]].ultima_referencia
        /\ f[k] = i => t[k].pagina = pag
        /\ f[k] # i => t[k].pagina = s[f[k]].pagina /\ t[k].marco = s[f[k]].marco
  BY DEF Reordenada
<1>7. /\ \A j, k \in 1 .. n : s[j].ultima_referencia = s[k].ultima_referencia => j = k
      /\ \A j \in 1 .. n : s[j].pagina = -1 => s[j].marco = -1
      /\ \A j, k \in 1 .. n : s[j].pagina # -1 /\ s[j].pagina = s[k].pagina => j = k
  BY DEF TlbBien
<1>2. \A j, k \in 1 .. n : t[j].ultima_referencia = t[k].ultima_referencia => j = k
  <2>. SUFFICES ASSUME NEW j \in 1 .. n, NEW k \in 1 .. n, t[j].ultima_referencia = t[k].ultima_referencia
                PROVE  j = k
    OBVIOUS
  <2>1. f[j] = f[k]
    BY <1>1, <1>6, <1>7
  <2>. QED  BY <2>1 DEF Reordenada
<1>3. \A k \in 1 .. n : \E j \in 1 .. n : t[j].ultima_referencia = k
  <2>. SUFFICES ASSUME NEW k \in 1 .. n PROVE \E j \in 1 .. n : t[j].ultima_referencia = k
    OBVIOUS
  <2>1. PICK m \in 1 .. n : s[m].ultima_referencia = k
    BY DEF TlbBien
  <2>2. PICK j \in 1 .. n : f[j] = m
    BY DEF Reordenada
  <2>. QED  BY <2>1, <2>2 DEF Reordenada
<1>4. \A k \in 1 .. n : t[k].pagina = -1 => t[k].marco = -1
  BY <1>1, <1>6, <1>7
<1>5. \A j, k \in 1 .. n : t[j].pagina # -1 /\ t[j].pagina = t[k].pagina => j = k
  <2>. SUFFICES ASSUME NEW j \in 1 .. n, NEW k \in 1 .. n, t[j].pagina # -1, t[j].pagina = t[k].pagina
                PROVE  j = k
    OBVIOUS
  <2>1. f[j] \in 1 .. n /\ f[k] \in 1 .. n
    BY <1>1
  <2>2. f[j] = f[k]
    <3>1. CASE f[j] = i /\ f[k] = i
      BY <3>1
    <3>2. CASE f[j] = i /\ f[k] # i
      BY <1>6, <2>1, <3>2
    <3>3. CASE f[j] # i /\ f[k] = i
      BY <1>6, <2>1, <3>3
    <3>4. CASE f[j] # i /\ f[k] # i
      BY <1>6, <1>7, <2>1, <3>4
    <3>. QED  BY <3>1, <3>2, <3>3, <3>4
  <2>. QED  BY <2>2 DEF Reordenada
<1>. QED  BY <1>2, <1>3, <1>4, <1>5 DEF TlbBien

\* An entry leaves its place for the last one, with another page.
LEMMA RenuevaBien ==
  ASSUME NEW s, TlbBien(s), NEW i \in 1 .. EntradasTlb, NEW pag \in Int, NEW marco \in -1 .. Marcos - 1,
         pag # -1, \A j \in 1 .. EntradasTlb : s[j].pagina # pag
  PROVE  /\ TlbBien(Renueva(s, i, pag, marco))
         /\ \A k \in 1 .. EntradasTlb :
              \/ Renueva(s, i, pag, marco)[k].pagina = pag /\ Renueva(s, i, pag, marco)[k].marco = marco
              \/ \E j \in 1 .. EntradasTlb : /\ j # i /\ Renueva(s, i, pag, marco)[k].pagina = s[j].pagina
                                             /\ Renueva(s, i, pag, marco)[k].marco = s[j].marco
<1>. DEFINE n == EntradasTlb
            r == Referida(s, i)
            a == SubSeq(r, 1, i - 1)
            b == SubSeq(r, i + 1, n)
            c == a \o b
            e == [r[i] EXCEPT !.pagina = pag, !.marco = marco]
            t == Append(c, e)
            f == [k \in 1 .. n |-> IF k = n THEN i ELSE IF k < i THEN k ELSE k + 1]
<1>1. /\ TlbBien(r)
      /\ \A j \in 1 .. n : r[j].pagina = s[j].pagina /\ r[j].marco = s[j].marco
  BY ReferidaBien
<1>. HIDE DEF r
<1>2. r \in Seq(EntradaTlb) /\ Len(r) = n /\ n \in Nat \ {0} /\ \A j \in 1 .. n : r[j] \in EntradaTlb
  BY <1>1, TlbEntradas
<1>3. t = Renueva(s, i, pag, marco)
  BY <1>2 DEF Renueva, RemoveAt, r
<1>4. /\ e \in EntradaTlb /\ e.pagina = pag /\ e.marco = marco
      /\ e.ultima_referencia = r[i].ultima_referencia
  <2>1. r[i] \in EntradaTlb
    BY <1>2
  <2>. QED  BY <2>1 DEF EntradaTlb
<1>5. a \in Seq(EntradaTlb) /\ Len(a) = i - 1 /\ \A j \in 1 .. i - 1 : a[j] = r[j]
  <2>. HIDE DEF EntradaTlb
  <2>. QED  BY <1>2, SubSeqProperties
<1>6. b \in Seq(EntradaTlb) /\ Len(b) = n - i /\ \A j \in 1 .. n - i : b[j] = r[i + j]
  <2>. HIDE DEF EntradaTlb
  <2>. QED  BY <1>2, SubSeqProperties
<1>. HIDE DEF a, b, e
<1>7. /\ c \in Seq(EntradaTlb) /\ Len(c) = n - 1
      /\ \A k \in 1 .. n - 1 : c[k] = IF k < i THEN r[k] ELSE r[k + 1]
  <2>1. /\ c \in Seq(EntradaTlb) /\ Len(c) = Len(a) + Len(b)
        /\ \A k \in 1 .. Len(a) + Len(b) : c[k] = IF k <= Len(a) THEN a[k] ELSE b[k - Len(a)]
    BY <1>5, <1>6, ConcatProperties
  <2>. HIDE DEF c, EntradaTlb
  <2>2. Len(c) = n - 1
    BY <1>2, <1>5, <1>6, <2>1
  <2>3. ASSUME NEW k \in 1 .. n - 1 PROVE c[k] = IF k < i THEN r[k] ELSE r[k + 1]
    <3>1. CASE k < i
      BY <1>2, <1>5, <1>6, <2>1, <3>1
    <3>2. CASE ~(k < i)
      <4>1. k - (i - 1) \in 1 .. n - i /\ i + (k - (i - 1)) = k + 1 /\ ~(k <= i - 1)
        BY <1>2, <3>2
      <4>2. c[k] = b[k - (i - 1)]
        BY <1>2, <1>5, <1>6, <2>1, <4>1, SMTT(60)
      <4>. QED  BY <1>6, <3>2, <4>1, <4>2
    <3>. QED  BY <3>1, <3>2
  <2>. QED  BY <2>1, <2>2, <2>3
<1>. HIDE DEF c
<1>8. /\ t \in [1 .. n -> EntradaTlb] /\ t[n] = e /\ \A k \in 1 .. n - 1 : t[k] = c[k]
  <2>1. t \in Seq(EntradaTlb) /\ Len(t) = (n - 1) + 1 /\ t[(n - 1) + 1] = e /\ \A k \in 1 .. n - 1 : t[k] = c[k]
    <3>. HIDE DEF EntradaTlb
    <3>. QED  BY <1>4, <1>7, AppendProperties
  <2>2. (n - 1) + 1 = n
    BY <1>2
  <2>. HIDE DEF EntradaTlb, t
  <2>. QED  BY <2>1, <2>2
<1>. HIDE DEF t
<1>9. ASSUME NEW k \in 1 .. n
      PROVE  /\ f[k] \in 1 .. n
             /\ f[k] = i => k = n
             /\ k = n => f[k] = i
             /\ k # n => t[k] = r[f[k]]
  <2>1. CASE k = n
    BY <2>1
  <2>2. CASE k # n /\ k < i
    <3>1. k \in 1 .. n - 1 /\ f[k] = k
      BY <1>2, <2>2
    <3>. QED  BY <1>7, <1>8, <2>2, <3>1
  <2>3. CASE k # n /\ ~(k < i)
    <3>1. k \in 1 .. n - 1 /\ f[k] = k + 1 /\ k + 1 \in 1 .. n /\ k + 1 # i
      BY <1>2, <2>3
    <3>. QED  BY <1>7, <1>8, <2>3, <3>1
  <2>. QED  BY <2>1, <2>2, <2>3
<1>10. Reordenada(r, t, f, i, pag)
  <2>1. f \in [1 .. n -> 1 .. n]
    BY <1>2
  <2>2. \A j, k \in 1 .. n : f[j] = f[k] => j = k
    BY <1>2
  <2>3. \A k \in 1 .. n : \E j \in 1 .. n : f[j] = k
    <3>. SUFFICES ASSUME NEW k \in 1 .. n PROVE \E j \in 1 .. n : f[j] = k
      OBVIOUS
    <3>1. CASE k = i
      <4>1. n \in 1 .. n /\ f[n] = k
        BY <1>2, <3>1
      <4>. QED  BY <4>1
    <3>2. CASE k < i
      <4>1. k # n /\ f[k] = k
        BY <1>2, <3>2
      <4>. QED  BY <4>1
    <3>3. CASE k > i
      <4>1. k - 1 \in 1 .. n /\ k - 1 # n /\ ~(k - 1 < i) /\ (k - 1) + 1 = k
        BY <1>2, <3>3
      <4>2. f[k - 1] = k
        BY <4>1
      <4>. QED  BY <4>1, <4>2
    <3>. QED  BY <1>2, <3>1, <3>2, <3>3
  <2>. HIDE DEF f
  <2>4. \A k \in 1 .. n : t[k].ultima_referencia = r[f[k]].ultima_referencia
    BY <1>4, <1>8, <1>9
  <2>5. \A k \in 1 .. n : IF f[k] = i THEN t[k].pagina = pag
                          ELSE t[k].pagina = r[f[k]].pagina /\ t[k].marco = r[f[k]].marco
    BY <1>4, <1>8, <1>9
  <2>. QED  BY <2>1, <2>2, <2>3, <2>4, <2>5 DEF Reordenada
<1>11. TlbBien(t)
  <2>1. \A j \in 1 .. n : r[j].pagina # pag
    BY <1>1
  <2>. HIDE DEF f
  <2>. QED  BY <1>1, <1>8, <1>10, <2>1, ReordenadaBien
<1>12. ASSUME NEW k \in 1 .. n
       PROVE  \/ t[k].pagina = pag /\ t[k].marco = marco
              \/ \E j \in 1 .. n : j # i /\ t[k].pagina = s[j].pagina /\ t[k].marco = s[j].marco
  <2>1. CASE k = n
    BY <1>4, <1>8, <2>1
  <2>2. CASE k # n
    BY <1>1, <1>9, <2>2
  <2>. QED  BY <2>1, <2>2
<1>. QED  BY <1>3, <1>11, <1>12

\* list_sort by ultima_referencia.
LEMMA PorReferenciaBien ==
  ASSUME TlbBien(tlb)
  PROVE  /\ TlbBien(PorReferencia)
         /\ \A k \in 1 .. EntradasTlb : \E j \in 1 .. EntradasTlb : PorReferencia[k] = tlb[j]
<1>. DEFINE n == EntradasTlb
            f == [k \in 1 .. n |-> CHOOSE j \in 1 .. n : tlb[j].ultima_referencia = k]
            t == PorReferencia
<1>1. /\ DOMAIN tlb = 1 .. n /\ n \in Nat \ {0} /\ \A j \in 1 .. n : tlb[j] \in EntradaTlb
      /\ \A j, k \in 1 .. n : tlb[j].ultima_referencia = tlb[k].ultima_referencia => j = k
      /\ \A k \in 1 .. n : \E j \in 1 .. n : tlb[j].ultima_referencia = k
      /\ \A j \in 1 .. n : tlb[j].pagina = -1 => tlb[j].marco = -1
      /\ \A j, k \in 1 .. n : tlb[j].pagina # -1 /\ tlb[j].pagina = tlb[k].pagina => j = k
  BY TlbEntradas DEF TlbBien
<1>2. \A j \in 1 .. n : tlb[j].ultima_referencia \in 1 .. n
  BY <1>1 DEF EntradaTlb
<1>3. ASSUME NEW k \in 1 .. n
      PROVE  /\ f[k] \in 1 .. n /\ tlb[f[k]].ultima_referencia = k
             /\ t[k] = tlb[f[k]]
  <2>1. PICK j \in 1 .. n : tlb[j].ultima_referencia = k
    BY <1>1
  <2>2. f[k] \in 1 .. n /\ tlb[f[k]].ultima_referencia = k
    BY <2>1
  <2>. HIDE DEF f
  <2>3. t[k] = CHOOSE e \in ToSet(tlb) : e.ultima_referencia = k
    BY <1>1 DEF PorReferencia
  <2>4. tlb[f[k]] \in ToSet(tlb) /\ \A e \in ToSet(tlb) : e.ultima_referencia = k => e = tlb[f[k]]
    <3>1. ToSet(tlb) = {tlb[i] : i \in 1 .. n}
      BY <1>1 DEF ToSet
    <3>2. ASSUME NEW e \in ToSet(tlb), e.ultima_referencia = k PROVE e = tlb[f[k]]
      <4>1. PICK i \in 1 .. n : e = tlb[i]
        BY <3>1
      <4>. QED  BY <1>1, <2>2, <3>2, <4>1
    <3>. QED  BY <2>2, <3>1, <3>2
  <2>5. (CHOOSE e \in ToSet(tlb) : e.ultima_referencia = k) = tlb[f[k]]
    BY <2>2, <2>4
  <2>. QED  BY <2>2, <2>3, <2>5
<1>4. t = [k \in 1 .. n |-> t[k]]
  BY <1>1 DEF PorReferencia
<1>. HIDE DEF f, t
<1>5. t \in [1 .. n -> EntradaTlb]
  <2>. HIDE DEF EntradaTlb
  <2>1. ASSUME NEW k \in 1 .. n PROVE t[k] \in EntradaTlb
    <3>1. f[k] \in 1 .. n /\ t[k] = tlb[f[k]]
      BY <1>3
    <3>2. tlb[f[k]] \in EntradaTlb
      BY <1>1, <3>1
    <3>. QED  BY <3>1, <3>2
  <2>. QED  BY <1>4, <2>1
<1>6. /\ \A j, k \in 1 .. n : t[j].ultima_referencia = t[k].ultima_referencia => j = k
      /\ \A k \in 1 .. n : t[k].ultima_referencia = k
      /\ \A k \in 1 .. n : t[k].pagina = -1 => t[k].marco = -1
  <2>1. \A k \in 1 .. n : f[k] \in 1 .. n /\ t[k] = tlb[f[k]] /\ t[k].ultima_referencia = k
    BY <1>3
  <2>2. ASSUME NEW k \in 1 .. n, t[k].pagina = -1 PROVE t[k].marco = -1
    <3>1. f[k] \in 1 .. n /\ t[k] = tlb[f[k]]
      BY <2>1
    <3>2. tlb[f[k]].pagina = -1
      BY <2>2, <3>1
    <3>. QED  BY <1>1, <3>1, <3>2
  <2>. QED  BY <2>1, <2>2
<1>7. \A j, k \in 1 .. n : t[j].pagina # -1 /\ t[j].pagina = t[k].pagina => j = k
  <2>. SUFFICES ASSUME NEW j \in 1 .. n, NEW k \in 1 .. n, t[j].pagina # -1, t[j].pagina = t[k].pagina
                PROVE  j = k
    OBVIOUS
  <2>1. /\ f[j] \in 1 .. n /\ t[j] = tlb[f[j]] /\ tlb[f[j]].ultima_referencia = j
        /\ f[k] \in 1 .. n /\ t[k] = tlb[f[k]] /\ tlb[f[k]].ultima_referencia = k
    BY <1>3
  <2>2. tlb[f[j]].pagina # -1 /\ tlb[f[j]].pagina = tlb[f[k]].pagina
    BY <2>1
  <2>3. f[j] = f[k]
    BY <1>1, <2>1, <2>2
  <2>. QED  BY <2>1, <2>3
<1>8. TlbBien(t)
  BY <1>5, <1>6, <1>7 DEF TlbBien
<1>. QED  BY <1>3, <1>8 DEF t

\* The place a search of the list gives is one the test suits, or 0.
LEMMA BuscaPagina ==
  ASSUME NEW s \in Seq(EntradaTlb), NEW x
  PROVE  LET k == SelectInSeq(s, LAMBDA e : e.pagina = x)
         IN /\ k # 0 => k \in 1 .. Len(s) /\ s[k].pagina = x
            /\ k = 0 => \A j \in 1 .. Len(s) : s[j].pagina # x
<1>. DEFINE I == {j \in 1 .. Len(s) : s[j].pagina = x}
            k == SelectInSeq(s, LAMBDA e : e.pagina = x)
<1>1. k = IF I # {} THEN CHOOSE z \in I : \A y \in I : z <= y ELSE 0
  BY DEF SelectInSeq, Min
<1>2. I \subseteq Nat /\ 0 \notin I
  OBVIOUS
<1>3. I # {} => k \in I
  <2>. SUFFICES ASSUME I # {} PROVE k \in I
    OBVIOUS
  <2>. HIDE DEF I, k
  <2>1. \E z \in I : \A y \in I : z <= y
    BY <1>2, Minimo
  <2>. QED  BY <1>1, <2>1
<1>. HIDE DEF k
<1>. QED  BY <1>1, <1>2, <1>3 DEF k

LEMMA BuscaMarco ==
  ASSUME NEW s \in Seq(EntradaTlb), NEW x, \E j \in 1 .. Len(s) : s[j].marco = x
  PROVE  LET k == SelectInSeq(s, LAMBDA e : e.marco = x)
         IN k \in 1 .. Len(s) /\ s[k].marco = x
<1>. DEFINE I == {j \in 1 .. Len(s) : s[j].marco = x}
            k == SelectInSeq(s, LAMBDA e : e.marco = x)
<1>1. k = IF I # {} THEN CHOOSE z \in I : \A y \in I : z <= y ELSE 0
  BY DEF SelectInSeq, Min
<1>2. I \subseteq Nat /\ I # {}
  OBVIOUS
<1>3. k \in I
  <2>. HIDE DEF I, k
  <2>1. \E z \in I : \A y \in I : z <= y
    BY <1>2, Minimo
  <2>. QED  BY <1>1, <1>2, <2>1
<1>. QED  BY <1>3

\* After a miss, the TLB has the page in its frame, and no other in it.
LEMMA AnotaBien ==
  ASSUME TlbBien(tlb), NEW pag \in Int, NEW marco \in -1 .. Marcos - 1, pag # -1,
         \A j \in 1 .. EntradasTlb : tlb[j].pagina # pag,
         \A j, k \in 1 .. EntradasTlb : tlb[j].marco = marco /\ tlb[k].marco = marco => j = k
  PROVE  /\ TlbBien(AnotaMarco(pag, marco))
         /\ \A k \in 1 .. EntradasTlb :
              \/ AnotaMarco(pag, marco)[k].pagina = pag /\ AnotaMarco(pag, marco)[k].marco = marco
              \/ \E j \in 1 .. EntradasTlb : /\ tlb[j].marco # marco
                                             /\ AnotaMarco(pag, marco)[k].pagina = tlb[j].pagina
                                             /\ AnotaMarco(pag, marco)[k].marco = tlb[j].marco
<1>. DEFINE n == EntradasTlb
            t == AnotaMarco(pag, marco)
            hay == \E i \in DOMAIN tlb : tlb[i].marco = marco
<1>1. tlb \in Seq(EntradaTlb) /\ DOMAIN tlb = 1 .. n /\ Len(tlb) = n /\ n \in Nat \ {0}
  BY TlbEntradas
<1>2. CASE hay
  <2>. DEFINE i == SelectInSeq(tlb, LAMBDA e : e.marco = marco)
  <2>0. \E j \in 1 .. Len(tlb) : tlb[j].marco = marco
    BY <1>1, <1>2
  <2>1. i \in 1 .. n /\ tlb[i].marco = marco
    <3>1. i \in 1 .. Len(tlb) /\ tlb[i].marco = marco
      BY <1>1, <2>0, BuscaMarco
    <3>. QED  BY <1>1, <3>1
  <2>2. t = Renueva(tlb, i, pag, marco)
    BY <1>2 DEF AnotaMarco
  <2>. HIDE DEF i, t
  <2>3. /\ TlbBien(t)
        /\ \A k \in 1 .. n :
              \/ t[k].pagina = pag /\ t[k].marco = marco
              \/ \E j \in 1 .. n : j # i /\ t[k].pagina = tlb[j].pagina /\ t[k].marco = tlb[j].marco
    BY <2>1, <2>2, RenuevaBien
  <2>4. \A j \in 1 .. n : j # i => tlb[j].marco # marco
    BY <2>1
  <2>. QED  BY <2>3, <2>4 DEF t
<1>3. CASE ~hay
  <2>1. \E s : /\ t = Renueva(s, 1, pag, marco) /\ TlbBien(s)
               /\ \A k \in 1 .. n : \E j \in 1 .. n : s[k] = tlb[j]
    <3>1. CASE ReemplazoTlb = "LRU"
      BY <1>3, <3>1, PorReferenciaBien DEF AnotaMarco, reemplazo_tlb_LRU
    <3>2. CASE ReemplazoTlb # "LRU"
      <4>1. t = Renueva(tlb, 1, pag, marco)
        BY <1>3, <3>2 DEF AnotaMarco, reemplazo_tlb_FIFO
      <4>. HIDE DEF t
      <4>. QED  BY <4>1
    <3>. QED  BY <3>1, <3>2
  <2>2. PICK s : /\ t = Renueva(s, 1, pag, marco) /\ TlbBien(s)
                 /\ \A k \in 1 .. n : \E j \in 1 .. n : s[k] = tlb[j]
    BY <2>1
  <2>3. 1 \in 1 .. n /\ \A k \in 1 .. n : s[k].pagina # pag
    <3>1. ASSUME NEW k \in 1 .. n PROVE s[k].pagina # pag
      <4>1. PICK j \in 1 .. n : s[k] = tlb[j]
        BY <2>2
      <4>. QED  BY <4>1
    <3>. QED  BY <1>1, <3>1
  <2>. HIDE DEF t
  <2>4. /\ TlbBien(t)
        /\ \A k \in 1 .. n :
              \/ t[k].pagina = pag /\ t[k].marco = marco
              \/ \E j \in 1 .. n : j # 1 /\ t[k].pagina = s[j].pagina /\ t[k].marco = s[j].marco
    BY <2>2, <2>3, RenuevaBien
  <2>5. \A j \in 1 .. n : tlb[j].marco # marco
    BY <1>1, <1>3
  <2>6. ASSUME NEW k \in 1 .. n
        PROVE  \/ t[k].pagina = pag /\ t[k].marco = marco
               \/ \E j \in 1 .. n : tlb[j].marco # marco /\ t[k].pagina = tlb[j].pagina /\ t[k].marco = tlb[j].marco
    BY <2>2, <2>4, <2>5
  <2>. QED  BY <2>4, <2>6 DEF t
<1>. QED  BY <1>2, <1>3

-----------------------------------------------------------------------------
(* The steps of the kernel preserve the invariant                          *)

\* Memory stays as it is.
LEMMA MemoriaQuieta ==
  ASSUME IMem, UNCHANGED memoriaVars
  PROVE  IMem' /\ \A q \in Pids : Quieta(q)
<1>1. UNCHANGED <<memoria, ocupado, tablas1, tablas2, swap, estructuras, tabla, pid_actual, copiando>>
  BY DEF memoriaVars
<1>2. Tipos' /\ Tablas' /\ Repartidos'
  <2>1. Tipos'
    BY <1>1 DEF IMem, Tipos, lista
  <2>2. Tablas'
    BY <1>1 DEF IMem, Tablas, Vivo, Donde, Entrada, fila, nro_tabla_2do_nivel
  <2>3. Repartidos'
    BY <1>1 DEF IMem, Repartidos, lista, Firme
  <2>. QED  BY <2>1, <2>2, <2>3
<1>3. \A q \in Pids : Quieta(q)
  BY <1>1 DEF IMem, Tablas, Quieta, Vivo, lista, Donde, Entrada, fila, nro_tabla_2do_nivel
<1>4. EnLista'
  BY <1>3, QuietaLista DEF IMem, EnLista
<1>. QED  BY <1>2, <1>3, <1>4 DEF IMem

\* What the invariant says of the running process.
LEMMA DelPcb ==
  ASSUME IInv, pcb # Nadie
  PROVE  pcb \in Pids /\ estado[pcb] = "exec" /\ Vivo(pcb) /\ pcb # suspende /\ pcb # copiando
<1>1. pcb \in Pids /\ estado[pcb] = "exec" /\ Vivo(pcb)
  BY DEF IInv, TiposResto, Nucleo
<1>2. pcb # suspende /\ (copiando # Nadie => copiando = suspende)
  BY <1>1 DEF IInv, Nucleo
<1>. QED  BY <1>1, <1>2

\* The kernel moves a process: what its new state asks of memory and the CPU.
LEMMA CambiaEstado ==
  ASSUME IInv, NEW p \in Pids, NEW b \in K!Valores, estado' = [estado EXCEPT ![p] = b],
         \A q \in Pids : q # p => Vivo(q)' = Vivo(q),
         b \in {"ready", "exec", "blocked", "susp_blocked", "susp_ready"} => Vivo(p)',
         b \in {"llega", "new"} => ~Vivo(p)',
         (b = "exec") <=> (pcb' = p), pcb' \in {Nadie, pcb, p}, pcb \notin {Nadie, p} => pcb' = pcb,
         suspende' # Nadie => suspende' = suspende /\ suspende # p,
         copiando' = copiando, copiando # Nadie => suspende' = suspende /\ lista(copiando)' # << >>
  PROVE  Nucleo' /\ estado' \in [Pids -> K!Valores]
<1>1. estado \in [Pids -> K!Valores] /\ Nadie \notin Pids
  BY MemoriaAssumption DEF IInv, TiposResto
<1>2. estado' \in [Pids -> K!Valores] /\ \A q \in Pids : estado'[q] = IF q = p THEN b ELSE estado[q]
  BY <1>1
<1>3. \A q \in Pids : estado[q] = "exec" <=> pcb = q
  BY DEF IInv, Nucleo
<1>4. \A q \in Pids : estado'[q] = "exec" <=> pcb' = q
  BY <1>1, <1>2, <1>3
<1>5. /\ \A q \in Pids : estado'[q] \in {"ready", "exec", "blocked", "susp_blocked", "susp_ready"} => Vivo(q)'
      /\ \A q \in Pids : estado'[q] \in {"llega", "new"} => ~Vivo(q)'
  BY <1>2 DEF IInv, Nucleo
<1>6. /\ suspende' # Nadie => estado'[suspende'] = "blocked"
      /\ copiando' # Nadie => copiando' = suspende' /\ lista(copiando)' # << >>
  BY <1>2 DEF IInv, Nucleo, TiposResto
<1>. QED  BY <1>2, <1>4, <1>5, <1>6 DEF Nucleo

\* The CPU goes on as it was.
LEMMA CpuSigue ==
  ASSUME IInv, UNCHANGED <<mmuVars, pid_actual>>,
         \A q \in Pids : estado[q] = "exec" => Quieta(q)
  PROVE  TlbBien(tlb)' /\ TlbDelPcb' /\ Ciclo'
<1>1. pcb # Nadie => pcb \in Pids /\ Vivo(pcb) /\ Quieta(pcb)
  BY DelPcb
<1>2. TlbDelPcb /\ Ciclo /\ Nadie \notin Pids
  BY MemoriaAssumption DEF IInv
<1>3. TlbDelPcb' /\ Ciclo'
  BY <1>1, <1>2, QuietaCpu
<1>4. TlbBien(tlb)'
  BY DEF IInv, TlbBien, mmuVars
<1>. QED  BY <1>3, <1>4

LEMMA PasoPlanifica ==
  ASSUME IInv, NEW p \in Pids, Planifica(p)
  PROVE  IInv'
<1>1. UNCHANGED <<memoriaVars, mmuVars, suspende>>
  BY DEF Planifica
<1>2. UNCHANGED <<tlb, pcb, fase, instruccion, nro, leido, suspende, copiando, swap, estructuras, pid_actual>>
  BY <1>1 DEF mmuVars, memoriaVars
<1>3. IMem' /\ \A q \in Pids : Quieta(q)
  BY <1>1, MemoriaQuieta DEF IInv
<1>4. \E b \in K!Valores :
         /\ estado' = [estado EXCEPT ![p] = b]
         /\ estado[p] # "exec" /\ b # "exec" /\ (estado[p] = "blocked" => suspende = Nadie)
         /\ b \in {"ready", "blocked", "susp_blocked", "susp_ready"} => Vivo(p)
         /\ b \in {"llega", "new"} => ~Vivo(p)
  BY DEF IInv, Nucleo, Planifica, K!Crea, K!Reanuda, K!FinIo, K!Pasa, K!Valores
<1>5. PICK b \in K!Valores :
         /\ estado' = [estado EXCEPT ![p] = b]
         /\ estado[p] # "exec" /\ b # "exec" /\ (estado[p] = "blocked" => suspende = Nadie)
         /\ b \in {"ready", "blocked", "susp_blocked", "susp_ready"} => Vivo(p)
         /\ b \in {"llega", "new"} => ~Vivo(p)
  BY <1>4
<1>6. \A q \in Pids : Vivo(q)' = Vivo(q)
  BY <1>2 DEF Vivo
<1>7. /\ suspende # Nadie => suspende # p
      /\ pcb # p
      /\ copiando # Nadie => lista(copiando) # << >>
  BY <1>5 DEF IInv, Nucleo
<1>8. copiando # Nadie => lista(copiando)' # << >>
  BY <1>2, <1>7 DEF lista
<1>9. Nucleo' /\ estado' \in [Pids -> K!Valores]
  BY <1>2, <1>5, <1>6, <1>7, <1>8, CambiaEstado
<1>10. TlbBien(tlb)' /\ TlbDelPcb' /\ Ciclo'
  BY <1>1, <1>2, <1>3, CpuSigue
<1>11. TiposResto'
  BY <1>2, <1>9 DEF IInv, TiposResto
<1>. QED  BY <1>3, <1>9, <1>10, <1>11 DEF IInv

LEMMA PasoAdmite ==
  ASSUME IInv, NEW p \in Pids, Admite(p)
  PROVE  IInv'
<1>1. /\ estado[p] = "new" /\ estado' = [estado EXCEPT ![p] = "ready"] /\ suspende = Nadie
      /\ crear_tablas(p) /\ UNCHANGED <<mmuVars, suspende>>
  BY DEF Admite, K!Admite, K!Pasa
<1>2. UNCHANGED <<tlb, pcb, fase, instruccion, nro, leido, suspende, copiando, pid_actual>>
  BY <1>1 DEF mmuVars, crear_tablas
<1>3. /\ ~Vivo(p) /\ copiando = Nadie /\ pcb # p
  BY <1>1 DEF IInv, Nucleo
<1>4. /\ IMem' /\ \A q \in Pids : q # p => Quieta(q)
      /\ Vivo(p)'
  BY <1>1, <1>3, CreaBien DEF IInv
<1>5. \A q \in Pids : q # p => Vivo(q)' = Vivo(q)
  BY <1>4 DEF Quieta
<1>6. "ready" \in K!Valores
  BY DEF K!Valores
<1>7. Nucleo' /\ estado' \in [Pids -> K!Valores]
  BY <1>1, <1>2, <1>3, <1>4, <1>5, <1>6, CambiaEstado
<1>8. TlbBien(tlb)' /\ TlbDelPcb' /\ Ciclo'
  BY <1>1, <1>2, <1>4, CpuSigue
<1>9. TiposResto'
  BY <1>2, <1>7 DEF IInv, TiposResto
<1>. QED  BY <1>4, <1>7, <1>8, <1>9 DEF IInv

LEMMA PasoElimina ==
  ASSUME IInv, NEW p \in Pids, Elimina(p)
  PROVE  IInv'
<1>1. /\ estado[p] = "exit" /\ suspende = Nadie
      /\ eliminar_estructuras(p) /\ UNCHANGED <<mmuVars, estado, suspende>>
  BY DEF Elimina
<1>2. UNCHANGED <<tlb, pcb, fase, instruccion, nro, leido, estado, suspende, copiando, pid_actual>>
  BY <1>1 DEF mmuVars, eliminar_estructuras
<1>3. copiando = Nadie
  BY <1>1 DEF IInv, Nucleo
<1>4. /\ IMem' /\ \A q \in Pids : q # p => Quieta(q)
      /\ ~Vivo(p)'
  BY <1>1, <1>3, EliminaBien DEF IInv
<1>5. Nucleo'
  BY <1>1, <1>2, <1>3, <1>4 DEF IInv, Nucleo, Quieta
<1>6. TlbBien(tlb)' /\ TlbDelPcb' /\ Ciclo'
  BY <1>1, <1>2, <1>4, CpuSigue
<1>7. TiposResto'
  BY <1>2 DEF IInv, TiposResto
<1>. QED  BY <1>4, <1>5, <1>6, <1>7 DEF IInv

LEMMA PasoSuspenderPide ==
  ASSUME IInv, NEW p \in Pids, SuspenderPide(p)
  PROVE  IInv'
<1>1. /\ estado[p] = "blocked" /\ suspende = Nadie /\ suspende' = p
      /\ UNCHANGED <<memoriaVars, mmuVars, estado>>
  BY DEF SuspenderPide
<1>2. UNCHANGED <<tlb, pcb, fase, instruccion, nro, leido, estado, copiando, swap, estructuras, pid_actual>>
  BY <1>1 DEF mmuVars, memoriaVars
<1>3. IMem' /\ \A q \in Pids : Quieta(q)
  BY <1>1, MemoriaQuieta DEF IInv
<1>4. Nucleo'
  BY <1>1, <1>2 DEF IInv, Nucleo, Vivo, lista
<1>5. TlbBien(tlb)' /\ TlbDelPcb' /\ Ciclo'
  BY <1>1, <1>2, <1>3, CpuSigue
<1>6. TiposResto'
  BY <1>1, <1>2 DEF IInv, TiposResto
<1>. QED  BY <1>3, <1>4, <1>5, <1>6 DEF IInv

LEMMA PasoSuspenderMarco ==
  ASSUME IInv, SuspenderMarco
  PROVE  IInv'
<1>. DEFINE p == suspende
<1>1. /\ p \in Pids /\ estado[p] = "blocked" /\ UNCHANGED <<mmuVars, estado, suspende>>
      /\ suspender_libera(p) \/ suspender_copia(p)
  BY DEF SuspenderMarco, IInv, TiposResto, Nucleo
<1>2. UNCHANGED <<tlb, pcb, fase, instruccion, nro, leido, estado, suspende, pid_actual>>
  BY <1>1 DEF mmuVars, suspender_libera, suspender_copia
<1>3. /\ IMem' /\ \A q \in Pids : q # p => Quieta(q)
      /\ \A q \in Pids : Vivo(q)' = Vivo(q)
      /\ copiando' # Nadie => copiando' = p /\ lista(p)' # << >>
  <2>1. CASE suspender_libera(p)
    <3>1. IMem' /\ \A q \in Pids : Quieta(q)
      BY <1>1, <2>1, LiberaBien DEF IInv
    <3>2. copiando' = p /\ lista(p) # << >>
      BY <2>1 DEF suspender_libera
    <3>. QED  BY <1>1, <3>1, <3>2 DEF Quieta
  <2>2. CASE suspender_copia(p)
    <3>1. copiando = p /\ copiando' = Nadie
      BY <2>2 DEF suspender_copia
    <3>2. lista(p) # << >>
      BY <1>1, <3>1, MemoriaAssumption DEF IInv, Nucleo
    <3>3. /\ IMem' /\ \A q \in Pids : q # p => Quieta(q)
          /\ \A q \in Pids : Vivo(q)' = Vivo(q)
      BY <1>1, <2>2, <3>2, CopiaBien DEF IInv
    <3>. QED  BY <3>1, <3>3
  <2>. QED  BY <1>1, <2>1, <2>2
<1>4. Nucleo'
  BY <1>2, <1>3 DEF IInv, Nucleo
<1>5. TlbBien(tlb)' /\ TlbDelPcb' /\ Ciclo'
  BY <1>1, <1>2, <1>3, CpuSigue
<1>6. TiposResto'
  BY <1>2 DEF IInv, TiposResto
<1>. QED  BY <1>3, <1>4, <1>5, <1>6 DEF IInv

LEMMA PasoSuspenderFin ==
  ASSUME IInv, SuspenderFin
  PROVE  IInv'
<1>. DEFINE p == suspende
<1>1. /\ p \in Pids /\ estado[p] = "blocked" /\ estado' = [estado EXCEPT ![p] = "susp_blocked"]
      /\ lista(p) = << >> /\ suspende' = Nadie /\ UNCHANGED <<memoriaVars, mmuVars>>
  BY DEF SuspenderFin, IInv, TiposResto, K!Suspende, K!Pasa
<1>2. UNCHANGED <<tlb, pcb, fase, instruccion, nro, leido, copiando, swap, estructuras, pid_actual>>
  BY <1>1 DEF mmuVars, memoriaVars
<1>3. IMem' /\ \A q \in Pids : Quieta(q)
  BY <1>1, MemoriaQuieta DEF IInv
<1>4. Vivo(p) /\ pcb # p /\ copiando = Nadie
  BY <1>1, MemoriaAssumption DEF IInv, Nucleo
<1>5. \A q \in Pids : Vivo(q)' = Vivo(q)
  BY <1>2 DEF Vivo
<1>6. "susp_blocked" \in K!Valores
  BY DEF K!Valores
<1>7. Nucleo' /\ estado' \in [Pids -> K!Valores]
  BY <1>1, <1>2, <1>4, <1>5, <1>6, CambiaEstado
<1>8. TlbBien(tlb)' /\ TlbDelPcb' /\ Ciclo'
  BY <1>1, <1>2, <1>3, CpuSigue
<1>9. TiposResto'
  BY <1>1, <1>2, <1>7 DEF IInv, TiposResto
<1>. QED  BY <1>3, <1>7, <1>8, <1>9 DEF IInv

-----------------------------------------------------------------------------
(* The dispatch, and the steps of the CPU that reach no page, preserve it  *)

LEMMA PasoEjecuta ==
  ASSUME IInv, NEW p \in Pids, Ejecuta(p)
  PROVE  IInv'
<1>1. /\ estado[p] = "ready" /\ estado' = [estado EXCEPT ![p] = "exec"]
      /\ \A q \in Pids : estado[q] # "exec"
      /\ pcb' = p /\ tlb' = TlbVacia /\ UNCHANGED <<fase, instruccion, nro, leido>>
      /\ UNCHANGED <<memoriaVars, suspende>>
  BY DEF Ejecuta, K!Ejecuta, K!Pasa, Despacha
<1>2. UNCHANGED <<copiando, swap, estructuras, pid_actual>>
  BY <1>1 DEF memoriaVars
<1>3. IMem'
  BY <1>1, MemoriaQuieta DEF IInv
<1>4. pcb = Nadie /\ Vivo(p) /\ (suspende # Nadie => suspende # p)
  BY <1>1 DEF IInv, Nucleo, TiposResto
<1>5. \A q \in Pids : Vivo(q)' = Vivo(q)
  BY <1>2 DEF Vivo
<1>6. "exec" \in K!Valores
  BY DEF K!Valores
<1>7. copiando # Nadie => lista(copiando)' # << >>
  BY <1>2 DEF lista, IInv, Nucleo
<1>8. Nucleo' /\ estado' \in [Pids -> K!Valores]
  BY <1>1, <1>2, <1>4, <1>5, <1>6, <1>7, CambiaEstado
<1>9. TlbBien(tlb)' /\ TlbDelPcb'
  <2>1. EntradasTlb \in Nat \ {0} /\ Marcos \in Nat
    BY TlbAssumption, MemoriaAssumption
  <2>2. \A i \in 1 .. EntradasTlb : tlb'[i] = [pagina |-> -1, marco |-> -1, ultima_referencia |-> i]
    BY <1>1 DEF TlbVacia
  <2>3. tlb' \in [1 .. EntradasTlb -> EntradaTlb]
    BY <1>1, <2>1 DEF TlbVacia, EntradaTlb
  <2>4. TlbBien(tlb')
    BY <2>2, <2>3 DEF TlbBien
  <2>. QED  BY <2>2, <2>4 DEF TlbDelPcb, TlbBien
<1>10. Ciclo'
  <2>1. fase = "ciclo"
    BY <1>4, MemoriaAssumption DEF IInv, Ciclo
  <2>. QED  BY <1>1, <2>1 DEF Ciclo
<1>11. TiposResto'
  BY <1>1, <1>8 DEF IInv, TiposResto
<1>. QED  BY <1>3, <1>8, <1>9, <1>10, <1>11 DEF IInv

LEMMA PasoVuelve ==
  ASSUME IInv, NEW p \in Pids, Vuelve(p)
  PROVE  IInv'
<1>1. /\ estado[p] = "exec"
      /\ \/ estado' = [estado EXCEPT ![p] = "exit"]
         \/ estado' = [estado EXCEPT ![p] = "blocked"] /\ suspende = Nadie
      /\ pcb = p /\ fase = "ciclo" /\ pcb' = Nadie /\ leido' = Nada
      /\ UNCHANGED <<tlb, fase, instruccion, nro>>
      /\ UNCHANGED <<memoriaVars, suspende>>
  BY DEF Vuelve, K!Termina, K!Bloquea, K!Pasa, Devuelve
<1>2. UNCHANGED <<copiando, swap, estructuras, pid_actual>>
  BY <1>1 DEF memoriaVars
<1>3. IMem'
  BY <1>1, MemoriaQuieta DEF IInv
<1>4. PICK b \in {"exit", "blocked"} : estado' = [estado EXCEPT ![p] = b]
  BY <1>1
<1>5. Vivo(p) /\ (suspende # Nadie => suspende # p) /\ Nadie # p
  BY <1>1, MemoriaAssumption DEF IInv, Nucleo, TiposResto
<1>6. \A q \in Pids : Vivo(q)' = Vivo(q)
  BY <1>2 DEF Vivo
<1>7. b \in K!Valores
  BY DEF K!Valores
<1>8. copiando # Nadie => lista(copiando)' # << >>
  BY <1>2 DEF lista, IInv, Nucleo
<1>9. Nucleo' /\ estado' \in [Pids -> K!Valores]
  BY <1>1, <1>2, <1>4, <1>5, <1>6, <1>7, <1>8, CambiaEstado
<1>10. TlbBien(tlb)' /\ TlbDelPcb' /\ Ciclo'
  BY <1>1 DEF IInv, TlbBien, TlbDelPcb, Ciclo
<1>11. TiposResto'
  BY <1>1, <1>9 DEF IInv, TiposResto
<1>. QED  BY <1>3, <1>9, <1>10, <1>11 DEF IInv

\* When an instruction starts, or COPY goes on to its write: what the TLB
\* answers is the frame the page is in.
LEMMA TraduceBien ==
  ASSUME TlbBien(tlb), TlbDelPcb, pcb \in Pids, Vivo(pcb), EnListaDe(pcb), Quieta(pcb),
         UNCHANGED <<pcb, pid_actual>>, NEW ins \in Instrucciones(pcb), Traduce(ins),
         Nadie \notin Pids
  PROVE  TlbBien(tlb)' /\ TlbDelPcb' /\ Ciclo'
<1>. DEFINE i == SelectInSeq(tlb, LAMBDA e : e.pagina = ins.pag)
<1>1. /\ tlb \in Seq(EntradaTlb) /\ Len(tlb) = EntradasTlb /\ EntradasTlb \in Nat \ {0}
  BY TlbEntradas
<1>2. /\ i # 0 => i \in 1 .. EntradasTlb /\ tlb[i].pagina = ins.pag
      /\ i = 0 => \A j \in 1 .. EntradasTlb : tlb[j].pagina # ins.pag
  <2>1. /\ i # 0 => i \in 1 .. Len(tlb) /\ tlb[i].pagina = ins.pag
        /\ i = 0 => \A j \in 1 .. Len(tlb) : tlb[j].pagina # ins.pag
    BY <1>1, BuscaPagina
  <2>. QED  BY <1>1, <2>1
<1>3. /\ instruccion' = ins
      /\ i # 0 => fase' = "acceso" /\ nro' = tlb[i].marco /\ tlb' = Referida(tlb, i)
      /\ i = 0 => fase' = "tabla" /\ nro' = -1 /\ tlb' = tlb
  BY DEF Traduce
<1>. HIDE DEF i
<1>4. ins.pag \in Paginas(pcb) /\ ins.pag # -1 /\ Instrucciones(pcb)' = Instrucciones(pcb)
  BY MemoriaAssumption DEF Instrucciones, Paginas
<1>5. /\ TlbBien(tlb')
      /\ \A j \in 1 .. EntradasTlb : tlb'[j].pagina = tlb[j].pagina /\ tlb'[j].marco = tlb[j].marco
  <2>1. CASE i # 0
    BY <1>2, <1>3, <2>1, ReferidaBien
  <2>2. CASE i = 0
    BY <1>3, <2>2
  <2>. QED  BY <2>1, <2>2
<1>6. pcb' = pcb /\ pcb # Nadie
  OBVIOUS
<1>7. \A g \in Paginas(pcb) : /\ Entrada(pcb, g)'.presencia = Entrada(pcb, g).presencia
                              /\ Entrada(pcb, g)'.nro_marco = Entrada(pcb, g).nro_marco
  BY DEF Quieta
<1>8. \A j \in 1 .. EntradasTlb : tlb[j].pagina # -1 =>
        /\ pid_actual = pcb /\ tlb[j].pagina \in Paginas(pcb)
        /\ Entrada(pcb, tlb[j].pagina).presencia
        /\ Entrada(pcb, tlb[j].pagina).nro_marco = tlb[j].marco
  BY <1>6 DEF TlbDelPcb
<1>9. TlbDelPcb'
  <2>1. ASSUME NEW j \in 1 .. EntradasTlb, tlb'[j].pagina # -1
        PROVE  /\ pid_actual' = pcb' /\ tlb'[j].pagina \in Paginas(pcb)
               /\ (Entrada(pcb, tlb[j].pagina).presencia)'
               /\ (Entrada(pcb, tlb[j].pagina).nro_marco = tlb[j].marco)'
    <3>. DEFINE g == tlb[j].pagina
    <3>1. g \in Paginas(pcb) /\ g # -1 /\ tlb'[j].pagina = g /\ tlb'[j].marco = tlb[j].marco
      BY <1>5, <1>8, <2>1
    <3>2. /\ Entrada(pcb, g)'.presencia = Entrada(pcb, g).presencia
          /\ Entrada(pcb, g)'.nro_marco = Entrada(pcb, g).nro_marco
      BY <1>7, <3>1
    <3>3. g' = g
      BY <3>1
    <3>4. Entrada(pcb, g).presencia /\ Entrada(pcb, g).nro_marco = tlb[j].marco /\ pid_actual = pcb
      BY <1>8, <3>1
    <3>. QED  BY <1>6, <3>1, <3>2, <3>3, <3>4
  <2>. QED  BY <1>6, <2>1 DEF TlbDelPcb
<1>10. CASE i # 0
  <2>1. /\ pid_actual = pcb /\ Entrada(pcb, ins.pag).presencia
        /\ Entrada(pcb, ins.pag).nro_marco = tlb[i].marco
    BY <1>2, <1>4, <1>8, <1>10
  <2>2. PICK k \in DOMAIN lista(pcb) : lista(pcb)[k].nro_swap = ins.pag
    BY <1>4, <2>1 DEF EnListaDe
  <2>3. lista(pcb)[k].nro_marco = tlb[i].marco
    BY <2>1, <2>2 DEF EnListaDe
  <2>4. lista(pcb)' = lista(pcb)
    BY DEF Quieta
  <2>5. Ciclo'
    BY <1>3, <1>4, <1>6, <1>10, <2>1, <2>2, <2>3, <2>4 DEF Ciclo
  <2>. QED  BY <1>5, <1>9, <2>5 DEF TlbBien
<1>11. CASE i = 0
  <2>1. Ciclo'
    BY <1>2, <1>3, <1>4, <1>6, <1>11 DEF Ciclo
  <2>. QED  BY <1>5, <1>9, <2>1 DEF TlbBien
<1>. QED  BY <1>10, <1>11

LEMMA PasoCpuCiclo ==
  ASSUME IInv, CpuCiclo, UNCHANGED <<estado, suspende>>
  PROVE  IInv'
<1>1. /\ fase = "ciclo" /\ pcb \in Pids /\ leido' = Nada /\ UNCHANGED <<pcb, memoriaVars>>
      /\ \E ins \in Instrucciones(pcb) : Traduce(ins)
  BY DEF CpuCiclo
<1>2. UNCHANGED <<copiando, swap, estructuras, pid_actual>>
  BY <1>1 DEF memoriaVars
<1>3. IMem' /\ \A q \in Pids : Quieta(q)
  BY <1>1, MemoriaQuieta DEF IInv
<1>4. Vivo(pcb) /\ Nadie \notin Pids
  BY <1>1, DelPcb, MemoriaAssumption
<1>5. EnListaDe(pcb)
  BY <1>1 DEF IInv, IMem, EnLista
<1>6. TlbBien(tlb)' /\ TlbDelPcb' /\ Ciclo'
  <2>1. PICK ins \in Instrucciones(pcb) : Traduce(ins)
    BY <1>1
  <2>2. TlbBien(tlb) /\ TlbDelPcb /\ Quieta(pcb) /\ UNCHANGED <<pcb, pid_actual>>
    BY <1>1, <1>2, <1>3 DEF IInv
  <2>. QED  BY <1>1, <1>4, <1>5, <2>1, <2>2, TraduceBien
<1>7. Nucleo'
  BY <1>1, <1>2 DEF IInv, Nucleo, Vivo, lista
<1>8. TiposResto'
  BY <1>1 DEF IInv, TiposResto
<1>. QED  BY <1>3, <1>6, <1>7, <1>8 DEF IInv

LEMMA PasoCpuTabla ==
  ASSUME IInv, CpuTabla, UNCHANGED <<estado, suspende>>
  PROVE  IInv'
<1>1. /\ fase = "tabla" /\ pid_actual' = pcb
      /\ nro' = nro_tabla_2do_nivel(pcb, entrada_tabla_1) /\ fase' = "marco"
      /\ UNCHANGED <<memoria, ocupado, tablas1, tablas2, swap, estructuras, tabla, copiando,
                     tlb, pcb, instruccion, leido>>
  BY DEF CpuTabla, obtener_nro_tabla_2do_nivel
<1>2. pcb \in Pids /\ instruccion \in Instrucciones(pcb)
  BY <1>1 DEF IInv, Ciclo
<1>3. IMem'
  <2>1. Tipos'
    BY <1>1, <1>2 DEF IInv, IMem, Tipos, lista
  <2>2. Tablas'
    BY <1>1 DEF IInv, IMem, Tablas, Vivo, Donde, Entrada, fila, nro_tabla_2do_nivel
  <2>3. Repartidos'
    BY <1>1 DEF IInv, IMem, Repartidos, lista, Firme
  <2>4. EnLista'
    <3>1. \A q \in Pids : Quieta(q)
      BY <1>1 DEF IInv, IMem, Tablas, Quieta, Vivo, lista, Donde, Entrada, fila, nro_tabla_2do_nivel
    <3>. QED  BY <3>1, QuietaLista DEF IInv, IMem, EnLista
  <2>. QED  BY <2>1, <2>2, <2>3, <2>4 DEF IMem
<1>4. TlbDelPcb'
  BY <1>1, <1>2, MemoriaAssumption DEF IInv, TlbDelPcb, Entrada, fila, nro_tabla_2do_nivel
<1>5. Ciclo'
  BY <1>1, <1>2 DEF IInv, Ciclo, entrada_tabla_1, nro_tabla_2do_nivel
<1>6. TlbBien(tlb)' /\ Nucleo' /\ TiposResto'
  BY <1>1 DEF IInv, TlbBien, Nucleo, Vivo, lista, TiposResto
<1>. QED  BY <1>3, <1>4, <1>5, <1>6 DEF IInv

-----------------------------------------------------------------------------
(* A page walk                                                             *)

\* What the CPU needs of it: page g is in frame m, and the pages whose frame is
\* not m are where they were.
Trajo(p, g, m) ==
  /\ m \in NrosMarco /\ Entrada(p, g)'.presencia /\ Entrada(p, g)'.nro_marco = m
  /\ \A h \in Paginas(p) : h # g /\ Entrada(p, h).presencia /\ Entrada(p, h).nro_marco # m =>
       Entrada(p, h)'.presencia /\ Entrada(p, h)'.nro_marco = Entrada(p, h).nro_marco

\* A page marked present is in a frame.
LEMMA EnMarco ==
  ASSUME Tipos, Tablas, NEW p \in Pids, EnListaDe(p), Vivo(p), NEW g \in Paginas(p),
         Entrada(p, g).presencia
  PROVE  \E k \in DOMAIN lista(p) : /\ lista(p)[k].nro_swap = g
                                    /\ lista(p)[k].nro_marco = Entrada(p, g).nro_marco
                                    /\ Entrada(p, g).nro_marco \in NrosMarco
<1>1. PICK k \in DOMAIN lista(p) : lista(p)[k].nro_swap = g
  BY DEF EnListaDe
<1>2. Entrada(p, g).nro_marco = lista(p)[k].nro_marco /\ lista(p)[k].nro_marco \in NrosMarco
  BY <1>1, DeLista
<1>. QED  BY <1>1, <1>2

LEMMA EsDonde ==
  ASSUME NEW p, NEW g, NEW t, NEW i, <<t, i>> = Donde(p, g)
  PROVE  /\ fila(t, i) = Entrada(p, g)
         /\ \A x : [tablas2 EXCEPT ![t + 1][i] = x] = Escrita(tablas2, Donde(p, g), x)
<1>1. t = Donde(p, g)[1] /\ i = Donde(p, g)[2]
  BY DEF Donde
<1>. QED  BY <1>1, EsEscrita DEF Donde, Entrada, Escrita

LEMMA PresenteBien ==
  ASSUME IMem, NEW p \in Pids, Vivo(p), pid_actual' = p,
         NEW g \in Paginas(p), NEW t, NEW i, <<t, i>> = Donde(p, g), MarcoPresente(t, i)
  PROVE  /\ IMem' /\ \A q \in Pids : Quieta(q)
         /\ Entrada(p, g).presencia /\ Entrada(p, g)' = [Entrada(p, g) EXCEPT !.uso = TRUE]
         /\ \A q \in Pids : \A h \in Paginas(q) :
              Vivo(q) /\ ~(q = p /\ h = g) => Entrada(q, h)' = Entrada(q, h)
         /\ Donde(p, g)' = <<t, i>>
<1>. DEFINE x == [Entrada(p, g) EXCEPT !.uso = TRUE]
<1>1. /\ fila(t, i).presencia /\ UNCHANGED <<memoria, ocupado, swap, estructuras, copiando, tablas1, tabla>>
      /\ tablas2' = [tablas2 EXCEPT ![t + 1][i].uso = TRUE]
  BY DEF MarcoPresente, tablasVars
<1>2. tablas2' = [tablas2 EXCEPT ![t + 1][i] = [fila(t, i) EXCEPT !.uso = TRUE]]
  BY <1>1 DEF fila
<1>3. tablas2' = Escrita(tablas2, Donde(p, g), x) /\ Entrada(p, g).presencia
  <2>1. /\ fila(t, i) = Entrada(p, g)
        /\ \A z : [tablas2 EXCEPT ![t + 1][i] = z] = Escrita(tablas2, Donde(p, g), z)
    BY EsDonde
  <2>2. tablas2' = [tablas2 EXCEPT ![t + 1][i] = x]
    BY <1>2, <2>1
  <2>3. [tablas2 EXCEPT ![t + 1][i] = x] = Escrita(tablas2, Donde(p, g), x)
    <3>. HIDE DEF x
    <3>. QED  BY <2>1
  <2>. QED  BY <1>1, <2>1, <2>2, <2>3
<1>4. Entrada(p, g) \in Fila
  BY DEF IMem, Tablas
<1>5. /\ x \in Fila /\ x.presencia = Entrada(p, g).presencia
      /\ x.nro_marco = Entrada(p, g).nro_marco
  BY <1>4 DEF Fila
<1>6. memoria' \in [NrosMarco -> Datos] /\ pid_actual' \in Pids \cup {Nadie}
  BY <1>1 DEF IMem, Tipos
<1>. HIDE DEF x
<1>7. /\ IMem' /\ \A q \in Pids : Quieta(q)
      /\ Entrada(p, g)' = x
      /\ \A q \in Pids : \A h \in Paginas(q) :
           Vivo(q) /\ ~(q = p /\ h = g) => Entrada(q, h)' = Entrada(q, h)
  BY <1>1, <1>3, <1>5, <1>6, MarcaFila
<1>8. Donde(p, g)' = <<t, i>>
  BY <1>1, DondeSigue
<1>. QED  BY <1>3, <1>7, <1>8 DEF x

LEMMA MarcoBien ==
  ASSUME IMem, NEW p \in Pids, Vivo(p), copiando # p, pid_actual' = p,
         NEW g \in Paginas(p), NEW t, NEW i, <<t, i>> = Donde(p, g),
         MarcoPresente(t, i) \/ MarcoLibre(p, t, i, g) \/ MarcoReemplazado(p, t, i, g)
  PROVE  /\ IMem' /\ \A q \in Pids : q # p => Quieta(q)
         /\ \A q \in Pids : Vivo(q)' = Vivo(q)
         /\ Trajo(p, g, Entrada(p, g)'.nro_marco)
         /\ Donde(p, g)' = <<t, i>>
<1>1. CASE MarcoPresente(t, i)
  <2>1. /\ IMem' /\ \A q \in Pids : Quieta(q)
        /\ Entrada(p, g).presencia /\ Entrada(p, g)' = [Entrada(p, g) EXCEPT !.uso = TRUE]
        /\ \A q \in Pids : \A h \in Paginas(q) :
             Vivo(q) /\ ~(q = p /\ h = g) => Entrada(q, h)' = Entrada(q, h)
        /\ Donde(p, g)' = <<t, i>>
    BY <1>1, PresenteBien
  <2>2. Entrada(p, g) \in Fila /\ Entrada(p, g).nro_marco \in NrosMarco
    BY <2>1, EnMarco DEF IMem, EnLista, Tablas
  <2>3. Entrada(p, g)'.presencia /\ Entrada(p, g)'.nro_marco = Entrada(p, g).nro_marco
    BY <2>1, <2>2 DEF Fila
  <2>4. Trajo(p, g, Entrada(p, g)'.nro_marco)
    BY <2>1, <2>2, <2>3 DEF Trajo
  <2>. QED  BY <2>1, <2>4 DEF Quieta
<1>2. CASE MarcoLibre(p, t, i, g)
  <2>1. PICK m \in NrosMarco : TraeA(p, t, i, g, m)
    BY <1>2, TraeAlguno
  <2>2. /\ IMem' /\ \A q \in Pids : q # p => Quieta(q)
        /\ Entrada(p, g)' = FilaCargada(m)
        /\ \A q \in Pids : \A h \in Paginas(q) :
              Vivo(q) /\ ~(q = p /\ h = g) => Entrada(q, h)' = Entrada(q, h)
        /\ Donde(p, g)' = <<t, i>> /\ Vivo(p)'
    <3>1. \A z \in NrosMarco : TraeA(p, t, i, g, z) =>
            /\ IMem' /\ \A q \in Pids : q # p => Quieta(q)
            /\ Entrada(p, g)' = FilaCargada(z)
            /\ \A q \in Pids : \A h \in Paginas(q) :
                  Vivo(q) /\ ~(q = p /\ h = g) => Entrada(q, h)' = Entrada(q, h)
            /\ Donde(p, g)' = <<t, i>> /\ Vivo(p)'
      <4>. SUFFICES ASSUME NEW z \in NrosMarco, TraeA(p, t, i, g, z)
                    PROVE  /\ IMem' /\ \A q \in Pids : q # p => Quieta(q)
                           /\ Entrada(p, g)' = FilaCargada(z)
                           /\ \A q \in Pids : \A h \in Paginas(q) :
                                 Vivo(q) /\ ~(q = p /\ h = g) => Entrada(q, h)' = Entrada(q, h)
                           /\ Donde(p, g)' = <<t, i>> /\ Vivo(p)'
        BY Zenon
      <4>1. IMem' /\ \A q \in Pids : q # p => Quieta(q)
        BY LibreBien
      <4>2. Entrada(p, g)' = FilaCargada(z)
        BY LibreBien
      <4>3. \A q \in Pids : \A h \in Paginas(q) :
                                 Vivo(q) /\ ~(q = p /\ h = g) => Entrada(q, h)' = Entrada(q, h)
        BY LibreBien
      <4>4. Donde(p, g)' = <<t, i>>
        <5>1. UNCHANGED <<tablas1, tabla>>
          BY DEF TraeA
        <5>. QED  BY <5>1, DondeSigue
      <4>5. Vivo(p)'
        BY DEF TraeA, Vivo
      <4>. QED  BY <4>1, <4>2, <4>3, <4>4, <4>5
    <3>. QED  BY <2>1, <3>1
  <2>3. /\ Entrada(p, g)'.presencia /\ Entrada(p, g)'.nro_marco = m
        /\ \A h \in Paginas(p) : h # g => Entrada(p, h)' = Entrada(p, h)
    BY <2>2 DEF FilaCargada
  <2>4. Trajo(p, g, Entrada(p, g)'.nro_marco)
    BY <2>3 DEF Trajo
  <2>5. \A q \in Pids : Vivo(q)' = Vivo(q)
    <3>1. \A q \in Pids : q # p => Vivo(q)' = Vivo(q)
      BY <2>2 DEF Quieta
    <3>2. Vivo(p)' = Vivo(p)
      BY <2>2 DEF Vivo
    <3>. QED  BY <3>1, <3>2
  <2>. QED  BY <2>2, <2>4, <2>5
<1>3. CASE MarcoReemplazado(p, t, i, g)
  <2>1. PICK v, f, D, ptr : CedeA(p, t, i, g, v, f, D, ptr)
    BY <1>3, CedeAlguno
  <2>2. /\ IMem' /\ (\A q \in Pids : q # p => Quieta(q))
        /\ \A q \in Pids : Vivo(q)' = Vivo(q)
        /\ Desaloja(p, g, v, f)
        /\ Donde(p, g)' = <<t, i>>
    BY <2>1, ReemplazoBien
  <2>3. /\ v \in DOMAIN lista(p) /\ f = lista(p)[v]
        /\ Entrada(p, g)' = FilaCargada(f.nro_marco)
        /\ \A h \in Paginas(p) : h # g =>
             /\ Entrada(p, h)'.nro_marco = Entrada(p, h).nro_marco
             /\ Entrada(p, h)'.presencia <=> Entrada(p, h).presencia /\ h # f.nro_swap
    BY <2>2 DEF Desaloja
  <2>4. f.nro_marco \in NrosMarco /\ Entrada(p, f.nro_swap).nro_marco = f.nro_marco
    BY <2>3, DeLista DEF IMem, EnLista
  <2>5. Entrada(p, g)'.nro_marco = f.nro_marco /\ Entrada(p, g)'.presencia
    BY <2>3 DEF FilaCargada
  <2>6. Trajo(p, g, Entrada(p, g)'.nro_marco)
    BY <2>3, <2>4, <2>5 DEF Trajo
  <2>. QED  BY <2>2, <2>6
<1>. QED  BY <1>1, <1>2, <1>3

-----------------------------------------------------------------------------
(* The steps of the CPU that reach a page preserve the invariant           *)

\* Of the TLB's entries no two have a same frame.
LEMMA TlbMarcos ==
  ASSUME IInv, pcb # Nadie, NEW j \in 1 .. EntradasTlb, NEW k \in 1 .. EntradasTlb,
         tlb[j].marco \in NrosMarco, tlb[k].marco = tlb[j].marco
  PROVE  j = k
<1>1. pcb \in Pids /\ Vivo(pcb)
  BY DelPcb
<1>2. /\ Tipos /\ Tablas /\ EnListaDe(pcb) /\ TlbBien(tlb)
  BY <1>1 DEF IInv, IMem, EnLista
<1>3. tlb[j].pagina # -1 /\ tlb[k].pagina # -1
  <2>1. \A x \in NrosMarco : x # -1
    BY MemoriaAssumption DEF NrosMarco
  <2>2. \A n \in 1 .. EntradasTlb : tlb[n].pagina = -1 => tlb[n].marco = -1
    BY <1>2 DEF TlbBien
  <2>. QED  BY <2>1, <2>2
<1>4. /\ tlb[j].pagina \in Paginas(pcb) /\ Entrada(pcb, tlb[j].pagina).presencia
      /\ Entrada(pcb, tlb[j].pagina).nro_marco = tlb[j].marco
      /\ tlb[k].pagina \in Paginas(pcb) /\ Entrada(pcb, tlb[k].pagina).presencia
      /\ Entrada(pcb, tlb[k].pagina).nro_marco = tlb[j].marco
  BY <1>3 DEF IInv, TlbDelPcb
<1>5. PICK a \in DOMAIN lista(pcb) : /\ lista(pcb)[a].nro_swap = tlb[j].pagina
                                     /\ lista(pcb)[a].nro_marco = tlb[j].marco
  BY <1>1, <1>2, <1>4, EnMarco
<1>6. PICK b \in DOMAIN lista(pcb) : /\ lista(pcb)[b].nro_swap = tlb[k].pagina
                                     /\ lista(pcb)[b].nro_marco = tlb[j].marco
  BY <1>1, <1>2, <1>4, EnMarco
<1>7. a = b
  BY <1>2, <1>5, <1>6 DEF EnListaDe
<1>. QED  BY <1>2, <1>3, <1>5, <1>6, <1>7 DEF TlbBien

\* Nothing the kernel knows changes.
LEMMA NucleoSigue ==
  ASSUME IInv, UNCHANGED <<pcb, estado, suspende, copiando>>,
         \A q \in Pids : Vivo(q)' = Vivo(q), \A q \in Pids : q # pcb => Quieta(q)
  PROVE  Nucleo'
<1>1. copiando # Nadie => copiando \in Pids /\ copiando # pcb /\ lista(copiando) # << >> /\ copiando = suspende
  <2>1. copiando # Nadie => copiando \in Pids /\ lista(copiando) # << >> /\ copiando = suspende
                            /\ estado[copiando] = "blocked"
    BY DEF IInv, IMem, Tipos, Nucleo
  <2>. QED  BY <2>1 DEF IInv, Nucleo
<1>2. copiando # Nadie => lista(copiando)' = lista(copiando)
  BY <1>1 DEF Quieta
<1>. QED  BY <1>1, <1>2 DEF IInv, Nucleo

LEMMA MarcoSigue ==
  ASSUME IInv, fase = "marco", NEW p \in Pids, p = pcb, NEW g \in Paginas(p), g = instruccion.pag,
         NEW t, NEW i, <<t, i>> = Donde(p, g), pid_actual' = p,
         MarcoPresente(t, i) \/ MarcoLibre(p, t, i, g) \/ MarcoReemplazado(p, t, i, g),
         NEW m, m = tablas2'[t + 1][i].nro_marco, nro' = m, tlb' = AnotaMarco(g, m),
         fase' = "acceso", UNCHANGED <<pcb, instruccion, leido, estado, suspende>>
  PROVE  IInv'
<1>1. /\ IMem /\ Tipos /\ Tablas /\ EnListaDe(p) /\ TlbBien(tlb) /\ Vivo(p)
      /\ copiando # p /\ p # Nadie
  BY DelPcb, MemoriaAssumption DEF IInv, IMem, EnLista
<1>2. /\ IMem' /\ \A q \in Pids : q # p => Quieta(q)
      /\ \A q \in Pids : Vivo(q)' = Vivo(q)
      /\ Trajo(p, g, Entrada(p, g)'.nro_marco)
      /\ Donde(p, g)' = <<t, i>>
  BY <1>1, MarcoBien
<1>3. UNCHANGED copiando
  BY DEF MarcoPresente, MarcoLibre, MarcoReemplazado
<1>4. Entrada(p, g)'.nro_marco = m
  <2>1. Donde(p, g)'[1] = t /\ Donde(p, g)'[2] = i
    BY <1>2
  <2>2. UNCHANGED <<tablas1, tabla>>
    BY DEF MarcoPresente, MarcoLibre, MarcoReemplazado, tablasVars
  <2>3. Entrada(p, g)' = FilaEn(tablas2', Donde(p, g)) /\ Donde(p, g)[1] = t /\ Donde(p, g)[2] = i
    BY <2>1, <2>2, DondeSigue
  <2>. QED  BY <2>3 DEF FilaEn
<1>5. /\ m \in NrosMarco /\ Entrada(p, g)'.presencia /\ Entrada(p, g)'.nro_marco = m
      /\ \A h \in Paginas(p) : h # g /\ Entrada(p, h).presencia /\ Entrada(p, h).nro_marco # m =>
            Entrada(p, h)'.presencia /\ Entrada(p, h)'.nro_marco = Entrada(p, h).nro_marco
  BY <1>2, <1>4 DEF Trajo
<1>6. /\ \A j \in 1 .. EntradasTlb : tlb[j].pagina # g
      /\ g \in Int /\ g # -1 /\ m \in -1 .. Marcos - 1
      /\ instruccion \in Instrucciones(p)
  BY <1>5, MemoriaAssumption DEF IInv, Ciclo, Paginas, NrosMarco
<1>7. \A j, k \in 1 .. EntradasTlb : tlb[j].marco = m /\ tlb[k].marco = m => j = k
  BY <1>1, <1>5, TlbMarcos
<1>8. /\ TlbBien(tlb')
      /\ \A k \in 1 .. EntradasTlb :
           \/ tlb'[k].pagina = g /\ tlb'[k].marco = m
           \/ \E j \in 1 .. EntradasTlb : /\ tlb[j].marco # m
                                          /\ tlb'[k].pagina = tlb[j].pagina
                                          /\ tlb'[k].marco = tlb[j].marco
  BY <1>1, <1>6, <1>7, AnotaBien
<1>9. TlbDelPcb'
  <2>1. ASSUME NEW k \in 1 .. EntradasTlb, tlb'[k].pagina # -1,
               NEW h, h = tlb'[k].pagina, NEW n, n = tlb'[k].marco
        PROVE  h \in Paginas(p) /\ Entrada(p, h)'.presencia /\ Entrada(p, h)'.nro_marco = n
    <3>1. CASE h = g /\ n = m
      BY <1>5, <3>1
    <3>2. CASE ~(h = g /\ n = m)
      <4>1. PICK j \in 1 .. EntradasTlb : tlb[j].marco # m /\ h = tlb[j].pagina /\ n = tlb[j].marco
        BY <1>8, <2>1, <3>2
      <4>2. h \in Paginas(p) /\ Entrada(p, h).presencia /\ Entrada(p, h).nro_marco = n
        BY <1>1, <2>1, <4>1 DEF IInv, TlbDelPcb
      <4>3. h # g /\ n # m
        BY <1>6, <4>1
      <4>. QED  BY <1>5, <4>2, <4>3
    <3>. QED  BY <3>1, <3>2
  <2>2. ASSUME NEW k \in 1 .. EntradasTlb, tlb'[k].pagina # -1
        PROVE  /\ tlb'[k].pagina \in Paginas(p)
               /\ (Entrada(p, tlb[k].pagina).presencia)'
               /\ (Entrada(p, tlb[k].pagina).nro_marco = tlb[k].marco)'
    <3>1. PICK h, n : h = tlb'[k].pagina /\ n = tlb'[k].marco
      OBVIOUS
    <3>2. h \in Paginas(p) /\ Entrada(p, h)'.presencia /\ Entrada(p, h)'.nro_marco = n
      BY <2>1, <2>2, <3>1
    <3>. QED  BY <3>1, <3>2 DEF Entrada, fila, nro_tabla_2do_nivel
  <2>3. pcb' = p /\ pid_actual' = p
    OBVIOUS
  <2>. QED  BY <2>2, <2>3 DEF TlbDelPcb, Entrada, fila, nro_tabla_2do_nivel
<1>10. Ciclo'
  <2>1. EnListaDe(p)' /\ Vivo(p)' /\ Tipos' /\ Tablas'
    BY <1>1, <1>2 DEF IMem, EnLista
  <2>2. \E k \in DOMAIN lista(p)' : /\ lista(p)'[k].nro_swap = g
                                    /\ lista(p)'[k].nro_marco = Entrada(p, g)'.nro_marco
    <3>1. PICK k \in DOMAIN lista(p)' : lista(p)'[k].nro_swap = g
      BY <1>5, <2>1 DEF EnListaDe
    <3>2. lista(p)'[k].nro_marco = Entrada(p, g)'.nro_marco
      BY <2>1, <3>1 DEF EnListaDe
    <3>. QED  BY <3>1, <3>2
  <2>. QED  BY <1>4, <1>6, <2>2 DEF Ciclo
<1>11. Nucleo'
  BY <1>2, <1>3, NucleoSigue
<1>12. TiposResto' /\ TlbBien(tlb)'
  BY <1>8 DEF IInv, TiposResto, TlbBien
<1>. QED  BY <1>2, <1>9, <1>10, <1>11, <1>12 DEF IInv

\* The page walk is of the page of the instruction, of the running process.
LEMMA PaseoDe ==
  ASSUME IInv, CpuMarco, NEW p, p = pcb, NEW g, g = instruccion.pag,
         NEW t, t = nro, NEW i, i = entrada_tabla_2
  PROVE  /\ p \in Pids /\ g \in Paginas(p) /\ <<t, i>> = Donde(p, g) /\ pid_actual' = p
         /\ MarcoPresente(t, i) \/ MarcoLibre(p, t, i, g) \/ MarcoReemplazado(p, t, i, g)
<1>1. p \in Pids /\ instruccion \in Instrucciones(p)
  BY DEF IInv, Ciclo, CpuMarco
<1>2. g \in Paginas(p)
  BY <1>1 DEF Instrucciones
<1>3. <<t, i>> = Donde(p, g)
  BY DEF IInv, Ciclo, CpuMarco, Donde, entrada_tabla_1, entrada_tabla_2
<1>4. marcos_actuales(entrada_tabla_1, entrada_tabla_2) = g
  BY <1>1, <1>2, Division DEF entrada_tabla_1, entrada_tabla_2
<1>. QED  BY <1>1, <1>2, <1>3, <1>4 DEF CpuMarco, obtener_nro_marco_memoria

LEMMA PasoCpuMarco ==
  ASSUME IInv, CpuMarco, UNCHANGED <<estado, suspende>>
  PROVE  IInv'
<1>1. PICK p, g, t, i, m : p = pcb /\ g = instruccion.pag /\ t = nro /\ i = entrada_tabla_2 /\ m = nro'
  OBVIOUS
<1>2. /\ p \in Pids /\ g \in Paginas(p) /\ <<t, i>> = Donde(p, g) /\ pid_actual' = p
      /\ MarcoPresente(t, i) \/ MarcoLibre(p, t, i, g) \/ MarcoReemplazado(p, t, i, g)
  BY <1>1, PaseoDe
<1>3. /\ fase = "marco" /\ fase' = "acceso"
      /\ UNCHANGED <<pcb, instruccion, leido, estado, suspende>>
  BY DEF CpuMarco
<1>4. m = tablas2'[t + 1][i].nro_marco /\ nro' = m /\ tlb' = AnotaMarco(g, m)
  BY <1>1 DEF CpuMarco
<1>. QED  BY <1>1, <1>2, <1>3, <1>4, MarcoSigue

-----------------------------------------------------------------------------
(* Reading and writing                                                     *)

\* The page the frame the CPU was told is in.
LEMMA PaginaDeAcceso ==
  ASSUME IInv, fase = "acceso", NEW p, p = pcb, NEW g, g = instruccion.pag
  PROVE  /\ p \in Pids /\ pid_actual = p /\ Vivo(p) /\ instruccion \in Instrucciones(p)
         /\ g \in Paginas(p) /\ nro \in NrosMarco
         /\ <<obtener_pagina(nro).t, obtener_pagina(nro).i>> = Donde(p, g)
         /\ Entrada(p, g) \in Fila /\ Entrada(p, g).presencia /\ Entrada(p, g).nro_marco = nro
<1>1. p \in Pids /\ pid_actual = p /\ instruccion \in Instrucciones(p)
  BY DEF IInv, Ciclo
<1>2. Vivo(p)
  BY <1>1, DelPcb, MemoriaAssumption
<1>3. g \in Paginas(p)
  BY <1>1 DEF Instrucciones
<1>4. PICK k \in DOMAIN lista(p) : lista(p)[k].nro_marco = nro /\ lista(p)[k].nro_swap = g
  BY DEF IInv, Ciclo
<1>5. Tipos /\ Tablas /\ EnListaDe(p)
  BY <1>1 DEF IInv, IMem, EnLista
<1>6. /\ lista(p) \in Seq(MarcoEnLista)
      /\ lista(p)[k].nro_marco \in NrosMarco
      /\ <<lista(p)[k].t, lista(p)[k].i>> = Donde(p, lista(p)[k].nro_swap)
      /\ Entrada(p, lista(p)[k].nro_swap) \in Fila
      /\ Entrada(p, lista(p)[k].nro_swap).presencia
      /\ Entrada(p, lista(p)[k].nro_swap).nro_marco = lista(p)[k].nro_marco
  BY <1>1, <1>4, <1>5, DeLista
<1>7. obtener_pagina(lista(p)[k].nro_marco) = lista(p)[k]
  BY <1>1, <1>4, <1>5, <1>6, ObtenerPagina
<1>. QED  BY <1>1, <1>2, <1>3, <1>4, <1>6, <1>7

\* The entry of page g of p becomes x, and no other changes.
SoloFila(p, g, x) ==
  /\ Entrada(p, g)' = x
  /\ \A q \in Pids : \A h \in Paginas(q) :
       Vivo(q) /\ ~(q = p /\ h = g) => Entrada(q, h)' = Entrada(q, h)

LEMMA LecturaBien ==
  ASSUME IInv, fase = "acceso", read_en_memoria(nro), NEW p, p = pcb, NEW g, g = instruccion.pag
  PROVE  /\ IMem' /\ \A q \in Pids : Quieta(q)
         /\ SoloFila(p, g, [Entrada(p, g) EXCEPT !.uso = TRUE])
<1>. DEFINE f == obtener_pagina(nro)
            x == [Entrada(p, g) EXCEPT !.uso = TRUE]
<1>1. /\ p \in Pids /\ pid_actual = p /\ Vivo(p) /\ g \in Paginas(p)
      /\ <<f.t, f.i>> = Donde(p, g) /\ Entrada(p, g) \in Fila
  BY PaginaDeAcceso
<1>2. /\ tablas2' = [tablas2 EXCEPT ![f.t + 1][f.i].uso = TRUE]
      /\ UNCHANGED <<memoria, ocupado, swap, estructuras, copiando, tablas1, tabla, pid_actual>>
  BY DEF read_en_memoria, tablasVars
<1>. HIDE DEF f
<1>3. PICK t, i : t = f.t /\ i = f.i
  OBVIOUS
<1>4. /\ fila(t, i) = Entrada(p, g)
      /\ \A z : [tablas2 EXCEPT ![t + 1][i] = z] = Escrita(tablas2, Donde(p, g), z)
  BY <1>1, <1>3, EsDonde
<1>5. tablas2' = [tablas2 EXCEPT ![t + 1][i] = [fila(t, i) EXCEPT !.uso = TRUE]]
  BY <1>2, <1>3 DEF fila
<1>6. tablas2' = Escrita(tablas2, Donde(p, g), x)
  <2>1. tablas2' = [tablas2 EXCEPT ![t + 1][i] = x]
    BY <1>4, <1>5
  <2>. HIDE DEF x
  <2>. QED  BY <1>4, <2>1
<1>7. x \in Fila /\ x.presencia = Entrada(p, g).presencia /\ x.nro_marco = Entrada(p, g).nro_marco
  BY <1>1 DEF Fila
<1>8. memoria' \in [NrosMarco -> Datos] /\ pid_actual' \in Pids \cup {Nadie}
  BY <1>2 DEF IInv, IMem, Tipos
<1>9. IMem
  BY DEF IInv
<1>. HIDE DEF x
<1>10. /\ IMem' /\ \A q \in Pids : Quieta(q)
       /\ Entrada(p, g)' = x
       /\ \A q \in Pids : \A h \in Paginas(q) :
              Vivo(q) /\ ~(q = p /\ h = g) => Entrada(q, h)' = Entrada(q, h)
  BY <1>1, <1>2, <1>6, <1>7, <1>8, <1>9, MarcaFila
<1>. QED  BY <1>10 DEF x, SoloFila

LEMMA EscrituraBien ==
  ASSUME IInv, fase = "acceso", NEW d \in Datos, write_en_memoria(nro, d),
         NEW p, p = pcb, NEW g, g = instruccion.pag
  PROVE  /\ IMem' /\ \A q \in Pids : Quieta(q)
         /\ SoloFila(p, g, [Entrada(p, g) EXCEPT !.uso = TRUE, !.modificado = TRUE])
<1>. DEFINE f == obtener_pagina(nro)
            x == [Entrada(p, g) EXCEPT !.uso = TRUE, !.modificado = TRUE]
<1>1. /\ p \in Pids /\ pid_actual = p /\ Vivo(p) /\ g \in Paginas(p)
      /\ <<f.t, f.i>> = Donde(p, g) /\ Entrada(p, g) \in Fila
  BY PaginaDeAcceso
<1>2. /\ tablas2' = [tablas2 EXCEPT ![f.t + 1][f.i] = [@ EXCEPT !.uso = TRUE, !.modificado = TRUE]]
      /\ memoria' = [memoria EXCEPT ![nro] = d]
      /\ UNCHANGED <<ocupado, swap, estructuras, copiando, tablas1, tabla, pid_actual>>
  BY DEF write_en_memoria, tablasVars
<1>. HIDE DEF f
<1>3. PICK t, i : t = f.t /\ i = f.i
  OBVIOUS
<1>4. /\ fila(t, i) = Entrada(p, g)
      /\ \A z : [tablas2 EXCEPT ![t + 1][i] = z] = Escrita(tablas2, Donde(p, g), z)
  BY <1>1, <1>3, EsDonde
<1>5. tablas2' = [tablas2 EXCEPT ![t + 1][i] = [fila(t, i) EXCEPT !.uso = TRUE, !.modificado = TRUE]]
  BY <1>2, <1>3 DEF fila
<1>6. tablas2' = Escrita(tablas2, Donde(p, g), x)
  <2>1. tablas2' = [tablas2 EXCEPT ![t + 1][i] = x]
    BY <1>4, <1>5
  <2>. HIDE DEF x
  <2>. QED  BY <1>4, <2>1
<1>7. x \in Fila /\ x.presencia = Entrada(p, g).presencia /\ x.nro_marco = Entrada(p, g).nro_marco
  BY <1>1 DEF Fila
<1>8. memoria' \in [NrosMarco -> Datos] /\ pid_actual' \in Pids \cup {Nadie}
  BY <1>2 DEF IInv, IMem, Tipos
<1>9. IMem
  BY DEF IInv
<1>. HIDE DEF x
<1>10. /\ IMem' /\ \A q \in Pids : Quieta(q)
       /\ Entrada(p, g)' = x
       /\ \A q \in Pids : \A h \in Paginas(q) :
              Vivo(q) /\ ~(q = p /\ h = g) => Entrada(q, h)' = Entrada(q, h)
  BY <1>1, <1>2, <1>6, <1>7, <1>8, <1>9, MarcaFila
<1>. QED  BY <1>10 DEF x, SoloFila

\* What is left of the step: the CPU ends its instruction, or goes on to write.
LEMMA PasoCpuLee ==
  ASSUME IInv, CpuLee, UNCHANGED <<estado, suspende>>
  PROVE  IInv'
<1>1. PICK p, g : p = pcb /\ g = instruccion.pag
  OBVIOUS
<1>2. /\ fase = "acceso" /\ read_en_memoria(nro) /\ UNCHANGED pcb
      /\ instruccion.op \in {"R", "C"}
  BY DEF CpuLee
<1>3. PICK entero \in BOOLEAN : \E v \in IF entero THEN {memoria[nro]} ELSE Datos :
         /\ leido' = IF entero THEN <<pcb, instruccion.pag, v>> ELSE Nada
         /\ IF instruccion.op = "C"
            THEN Traduce([op |-> "W", pag |-> instruccion.destino, dato |-> v])
            ELSE Termina
  BY DEF CpuLee
<1>3a. PICK v \in IF entero THEN {memoria[nro]} ELSE Datos :
         /\ leido' = IF entero THEN <<pcb, instruccion.pag, v>> ELSE Nada
         /\ IF instruccion.op = "C"
            THEN Traduce([op |-> "W", pag |-> instruccion.destino, dato |-> v])
            ELSE Termina
  BY <1>3
<1>4. /\ p \in Pids /\ pid_actual = p /\ Vivo(p) /\ instruccion \in Instrucciones(p)
      /\ g \in Paginas(p) /\ nro \in NrosMarco
  BY <1>1, <1>2, PaginaDeAcceso
<1>5. IMem' /\ \A q \in Pids : Quieta(q)
  BY <1>1, <1>2, LecturaBien
<1>6. UNCHANGED <<pid_actual, copiando>>
  BY <1>2 DEF read_en_memoria
<1>7. v \in Datos
  BY <1>3a, <1>4 DEF IInv, IMem, Tipos
<1>8. TlbBien(tlb)' /\ TlbDelPcb' /\ Ciclo'
  <2>1. /\ TlbBien(tlb) /\ TlbDelPcb /\ pcb \in Pids /\ Vivo(pcb) /\ EnListaDe(pcb) /\ Quieta(pcb)
        /\ UNCHANGED <<pcb, pid_actual>> /\ Nadie \notin Pids
    BY <1>1, <1>2, <1>4, <1>5, <1>6, MemoriaAssumption DEF IInv, IMem, EnLista
  <2>2. CASE instruccion.op = "C"
    <3>1. instruccion.destino \in Paginas(pcb)
      BY <1>1, <1>4, <2>2 DEF Instrucciones
    <3>2. PICK ins : ins = [op |-> "W", pag |-> instruccion.destino, dato |-> v]
      OBVIOUS
    <3>3. ins \in Instrucciones(pcb) /\ Traduce(ins)
      BY <1>3a, <1>7, <2>2, <3>1, <3>2 DEF Instrucciones
    <3>. QED  BY <2>1, <3>3, TraduceBien
  <2>3. CASE instruccion.op # "C"
    <3>1. fase' = "ciclo" /\ tlb' = tlb /\ pcb' = pcb /\ pid_actual' = pid_actual
      BY <1>2, <1>3a, <1>6, <2>3 DEF Termina
    <3>2. Ciclo' /\ TlbBien(tlb)'
      BY <2>1, <3>1 DEF Ciclo, TlbBien
    <3>3. \A h \in Paginas(pcb) : /\ Entrada(pcb, h)'.presencia = Entrada(pcb, h).presencia
                                  /\ Entrada(pcb, h)'.nro_marco = Entrada(pcb, h).nro_marco
      BY <2>1 DEF Quieta
    <3>4. TlbDelPcb'
      BY <2>1, <3>1, <3>3 DEF TlbDelPcb
    <3>. QED  BY <3>2, <3>4
  <2>. QED  BY <2>2, <2>3
<1>9. Nucleo'
  <2>1. \A q \in Pids : Vivo(q)' = Vivo(q)
    BY <1>5 DEF Quieta
  <2>. QED  BY <1>2, <1>5, <1>6, <2>1, NucleoSigue
<1>10. TiposResto'
  BY <1>1, <1>2, <1>3a, <1>4, <1>7 DEF IInv, TiposResto
<1>. QED  BY <1>5, <1>8, <1>9, <1>10 DEF IInv

LEMMA PasoCpuEscribe ==
  ASSUME IInv, CpuEscribe, UNCHANGED <<estado, suspende>>
  PROVE  IInv'
<1>1. PICK p, g, d : p = pcb /\ g = instruccion.pag /\ d = instruccion.dato
  OBVIOUS
<1>2. /\ fase = "acceso" /\ write_en_memoria(nro, d) /\ UNCHANGED pcb
      /\ instruccion.op = "W" /\ fase' = "ciclo" /\ tlb' = tlb /\ leido' = Nada
  BY <1>1 DEF CpuEscribe, Termina
<1>3. p \in Pids /\ instruccion \in Instrucciones(p) /\ Vivo(p)
  BY <1>1, <1>2, PaginaDeAcceso
<1>4. d \in Datos
  BY <1>1, <1>2, <1>3 DEF Instrucciones
<1>5. IMem' /\ \A q \in Pids : Quieta(q)
  BY <1>1, <1>2, <1>4, EscrituraBien
<1>6. UNCHANGED <<pid_actual, copiando>>
  BY <1>2 DEF write_en_memoria
<1>7. TlbBien(tlb)' /\ Ciclo'
  BY <1>2 DEF IInv, TlbBien, Ciclo
<1>8. TlbDelPcb'
  <2>1. \A h \in Paginas(pcb) : /\ Entrada(pcb, h)'.presencia = Entrada(pcb, h).presencia
                                /\ Entrada(pcb, h)'.nro_marco = Entrada(pcb, h).nro_marco
    <3>1. Quieta(pcb) /\ Vivo(pcb)
      BY <1>1, <1>3, <1>5
    <3>. QED  BY <3>1 DEF Quieta
  <2>. QED  BY <1>2, <1>6, <2>1 DEF IInv, TlbDelPcb
<1>9. Nucleo'
  <2>1. \A q \in Pids : Vivo(q)' = Vivo(q)
    BY <1>5 DEF Quieta
  <2>. QED  BY <1>2, <1>5, <1>6, <2>1, NucleoSigue
<1>10. TiposResto'
  BY <1>2 DEF IInv, TiposResto
<1>. QED  BY <1>5, <1>7, <1>8, <1>9, <1>10 DEF IInv

-----------------------------------------------------------------------------
(* The invariant                                                           *)

LEMMA IniciaInv ==
  ASSUME Init
  PROVE  IInv
<1>1. /\ memoria = [m \in NrosMarco |-> Cero] /\ ocupado = [m \in NrosMarco |-> FALSE]
      /\ tablas1 = << >> /\ tablas2 = << >> /\ swap = [p \in Pids |-> << >>]
      /\ estructuras = [p \in Pids |-> SinMarcos] /\ tabla = [p \in Pids |-> 0]
      /\ pid_actual = Nadie /\ copiando = Nadie
      /\ tlb = TlbVacia /\ pcb = Nadie /\ fase = "ciclo" /\ leido = Nada
      /\ estado = [p \in Pids |-> "llega"] /\ suspende = Nadie
  BY DEF Init, InitMemoria, InitMmu, K!Init
<1>2. /\ Nadie \notin Pids /\ Cero \in Datos /\ Marcos \in Nat /\ EntradasTlb \in Nat \ {0}
      /\ MarcosPorProceso \in Nat \ {0}
  BY MemoriaAssumption, TlbAssumption, MarcosAssumption
<1>3. \A p \in Pids : ~Vivo(p) /\ lista(p) = << >> /\ DOMAIN lista(p) = {}
  BY <1>1 DEF Vivo, lista, SinMarcos
<1>4. Tipos
  <2>1. SinMarcos \in [marcos_en_memoria : Seq(MarcoEnLista), puntero : Posiciones]
    <3>1. 0 \in Posiciones
      BY <1>2 DEF Posiciones
    <3>. HIDE DEF MarcoEnLista
    <3>. QED  BY <3>1 DEF SinMarcos
  <2>2. estructuras \in [Pids -> [marcos_en_memoria : Seq(MarcoEnLista), puntero : Posiciones]]
    BY <1>1, <2>1
  <2>3. \A p \in Pids : Len(lista(p)) <= MarcosPorProceso
    BY <1>2, <1>3
  <2>4. tablas1 \in Seq([Entradas -> -1 .. Len(tablas2) - 1]) /\ tablas2 \in Seq([Entradas -> Fila \cup {Basura}])
    BY <1>1
  <2>5. /\ swap = [p \in Pids |-> swap[p]]
        /\ \A p \in Pids : swap[p] \in [Paginas(p) -> Datos] \cup {<< >>}
        /\ memoria \in [NrosMarco -> Datos] /\ ocupado \in [NrosMarco -> BOOLEAN]
        /\ tabla \in [Pids -> Nat]
    BY <1>1, <1>2
  <2>. QED  BY <1>1, <2>2, <2>3, <2>4, <2>5 DEF Tipos
<1>5. Tablas /\ EnLista /\ Repartidos
  BY <1>1, <1>3 DEF Tablas, EnLista, EnListaDe, Repartidos
<1>6. TiposResto
  BY <1>1 DEF TiposResto, K!Valores
<1>7. Nucleo
  BY <1>1, <1>2, <1>3 DEF Nucleo
<1>8. TlbBien(tlb)
  <2>1. tlb \in [1 .. EntradasTlb -> EntradaTlb]
    BY <1>1, <1>2 DEF TlbVacia, EntradaTlb
  <2>. QED  BY <1>1, <2>1 DEF TlbBien, TlbVacia
<1>9. TlbDelPcb /\ Ciclo
  BY <1>1 DEF TlbDelPcb, Ciclo
<1>. QED  BY <1>4, <1>5, <1>6, <1>7, <1>8, <1>9 DEF IInv, IMem

LEMMA SigueInv ==
  ASSUME IInv, [Next]_vars
  PROVE  IInv'
<1>1. CASE UNCHANGED vars
  <2>1. UNCHANGED <<memoriaVars, mmuVars, estado, suspende>>
    BY <1>1 DEF vars
  <2>2. UNCHANGED <<pid_actual, copiando, swap, estructuras, pcb, leido>>
    BY <2>1 DEF memoriaVars, mmuVars
  <2>3. IMem' /\ \A q \in Pids : Quieta(q)
    BY <2>1, MemoriaQuieta DEF IInv
  <2>4. TlbBien(tlb)' /\ TlbDelPcb' /\ Ciclo'
    BY <2>1, <2>2, <2>3, CpuSigue
  <2>5. Nucleo' /\ TiposResto'
    BY <2>1, <2>2 DEF IInv, Nucleo, TiposResto, Vivo, lista
  <2>. QED  BY <2>3, <2>4, <2>5 DEF IInv
<1>2. ASSUME NEW p \in Pids, Planifica(p) PROVE IInv'
  BY <1>2, PasoPlanifica
<1>3. ASSUME NEW p \in Pids, Admite(p) PROVE IInv'
  BY <1>3, PasoAdmite
<1>4. ASSUME NEW p \in Pids, Ejecuta(p) PROVE IInv'
  BY <1>4, PasoEjecuta
<1>5. ASSUME NEW p \in Pids, Vuelve(p) PROVE IInv'
  BY <1>5, PasoVuelve
<1>6. ASSUME NEW p \in Pids, Elimina(p) PROVE IInv'
  BY <1>6, PasoElimina
<1>7. ASSUME NEW p \in Pids, SuspenderPide(p) PROVE IInv'
  BY <1>7, PasoSuspenderPide
<1>8. CASE SuspenderMarco
  BY <1>8, PasoSuspenderMarco
<1>9. CASE SuspenderFin
  BY <1>9, PasoSuspenderFin
<1>10. CASE Cpu
  <2>1. CASE CpuCiclo
    BY <1>10, <2>1, PasoCpuCiclo DEF Cpu
  <2>2. CASE CpuTabla
    BY <1>10, <2>2, PasoCpuTabla DEF Cpu
  <2>3. CASE CpuMarcoSolapa
    BY <1>10, <2>3, PasoCpuMarco DEF Cpu, CpuMarcoSolapa
  <2>4. CASE CpuLee
    BY <1>10, <2>4, PasoCpuLee DEF Cpu
  <2>5. CASE CpuEscribe
    BY <1>10, <2>5, PasoCpuEscribe DEF Cpu
  <2>. QED  BY <1>10, <2>1, <2>2, <2>3, <2>4, <2>5 DEF Cpu
<1>. QED  BY <1>1, <1>2, <1>3, <1>4, <1>5, <1>6, <1>7, <1>8, <1>9, <1>10 DEF Next

THEOREM Invariante == Spec => []IInv
<1>1. Init => IInv
  BY IniciaInv
<1>2. IInv /\ [Next]_vars => IInv'
  BY SigueInv
<1>. QED  BY <1>1, <1>2, PTL DEF Spec

\* What has overlapped stays so.
LEMMA SolapadoSigue ==
  ASSUME solapado \in BOOLEAN, [Next]_vars
  PROVE  solapado' \in BOOLEAN /\ (solapado => solapado')
<1>1. solapado' = solapado \/ CpuMarcoSolapa
  BY DEF Next, Planifica, Admite, Ejecuta, Vuelve, Elimina, SuspenderPide, SuspenderMarco,
         SuspenderFin, Cpu, vars
<1>2. CASE CpuMarcoSolapa
  <2>1. solapado' = (solapado \/ \E m \in NrosMarco : SeCopia(m) /\ ocupado'[m])
    BY <1>2 DEF CpuMarcoSolapa
  <2>. QED  BY <2>1
<1>. QED  BY <1>1, <1>2

\* Every variable keeps its type: in particular every list of frames has at most
\* MARCOS_POR_PROCESO elements, each of a page of its process.
THEOREM TypeOKSiempre == Spec => []TypeOK
<1>1. IInv /\ solapado \in BOOLEAN => TypeOK
  <2>. SUFFICES ASSUME IInv, solapado \in BOOLEAN PROVE TypeOK
    OBVIOUS
  <2>1. Tipos /\ Tablas /\ EnLista /\ TiposResto /\ Ciclo /\ TlbBien(tlb) /\ Nucleo
    BY DEF IInv, IMem
  <2>2. ASSUME NEW p \in Pids
        PROVE  /\ lista(p) \in Seq([nro_marco : NrosMarco, t : Nat, i : Entradas, nro_swap : Paginas(p)])
               /\ Len(lista(p)) <= MarcosPorProceso /\ estructuras[p].puntero \in Posiciones
    <3>. DEFINE D == [nro_marco : NrosMarco, t : Nat, i : Entradas, nro_swap : Paginas(p)]
    <3>1. /\ estructuras[p] \in [marcos_en_memoria : Seq(MarcoEnLista), puntero : Posiciones]
          /\ Len(lista(p)) <= MarcosPorProceso
      BY <2>1 DEF Tipos
    <3>2. lista(p) \in Seq(MarcoEnLista) /\ estructuras[p].puntero \in Posiciones
      <4>. HIDE DEF MarcoEnLista
      <4>. QED  BY <3>1 DEF lista
    <3>3. ASSUME NEW k \in 1 .. Len(lista(p)) PROVE lista(p)[k] \in D
      <4>1. lista(p)[k] \in MarcoEnLista
        <5>. HIDE DEF MarcoEnLista
        <5>. QED  BY <3>2
      <4>2. k \in DOMAIN lista(p)
        BY <3>2
      <4>3. lista(p)[k].nro_swap \in Paginas(p)
        BY <2>1, <4>2 DEF EnLista, EnListaDe
      <4>. QED  BY <4>1, <4>3 DEF MarcoEnLista
    <3>4. lista(p) = [k \in 1 .. Len(lista(p)) |-> lista(p)[k]] /\ Len(lista(p)) \in Nat
      <4>. HIDE DEF MarcoEnLista
      <4>. QED  BY <3>2
    <3>5. lista(p) \in Seq(D)
      <4>. HIDE DEF D
      <4>1. lista(p) \in [1 .. Len(lista(p)) -> D]
        BY <3>3, <3>4
      <4>. QED  BY <3>4, <4>1
    <3>. QED  BY <3>1, <3>2, <3>5
  <2>3. TypeMemoria
    <3>1. \A p \in Pids : estructuras[p].marcos_en_memoria = lista(p)
      BY DEF lista
    <3>2. /\ memoria \in [NrosMarco -> Datos] /\ ocupado \in [NrosMarco -> BOOLEAN]
          /\ tablas1 \in Seq([Entradas -> -1 .. Len(tablas2) - 1])
          /\ tablas2 \in Seq([Entradas -> Fila \cup {Basura}])
          /\ \A p \in Pids : swap[p] \in [Paginas(p) -> Datos] \cup {<< >>}
          /\ tabla \in [Pids -> Nat]
          /\ pid_actual \in Pids \cup {Nadie} /\ copiando \in Pids \cup {Nadie}
      BY <2>1 DEF Tipos
    <3>. QED  BY ONLY <2>2, <3>1, <3>2 DEF TypeMemoria
  <2>4. fase = "marco" => nro \in 0 .. Len(tablas2) - 1
    <3>. SUFFICES ASSUME fase = "marco" PROVE nro \in 0 .. Len(tablas2) - 1
      OBVIOUS
    <3>1. PICK p \in Pids : p = pcb /\ instruccion \in Instrucciones(p)
      BY <2>1 DEF Ciclo
    <3>2. PICK g \in Paginas(p) : g = instruccion.pag
      BY <3>1 DEF Instrucciones
    <3>3. nro = Donde(p, g)[1]
      BY <2>1, <3>1, <3>2 DEF Ciclo, Donde, entrada_tabla_1
    <3>4. Vivo(p)
      BY <3>1, DelPcb, MemoriaAssumption
    <3>5. Donde(p, g) \in Sitios(tablas2) /\ tablas2 \in TablasTipo
      BY <2>1, <3>4, SitioDe
    <3>. QED  BY <3>3, <3>5 DEF Sitios, TablasTipo
  <2>5. fase = "acceso" => nro \in NrosMarco
    BY PaginaDeAcceso
  <2>6. TypeMmu
    BY <2>1, <2>4, <2>5 DEF TypeMmu, TlbBien, EntradaTlb, Ciclo, TiposResto
  <2>. QED  BY <2>1, <2>3, <2>6 DEF TypeOK, TiposResto
<1>2. Init => solapado \in BOOLEAN
  BY DEF Init
<1>3. solapado \in BOOLEAN /\ [Next]_vars => (solapado \in BOOLEAN)'
  BY SolapadoSigue
<1>. QED  BY <1>1, <1>2, <1>3, Invariante, PTL DEF Spec

\* Each entry of the TLB names a page of the running process that is present,
\* and its frame, through every replacement and suspension of the pages behind it.
THEOREM TlbCoherenteSiempre == Spec => []TlbCoherente
<1>1. IInv => TlbCoherente
  BY TlbEntradas DEF IInv, TlbDelPcb, TlbCoherente
<1>. QED  BY <1>1, Invariante, PTL

\* The clock structures and the page tables say the same of every process.
THEOREM RelojCoherenteSiempre == Spec => []RelojCoherente
<1>1. IInv => RelojCoherente
  <2>. SUFFICES ASSUME IInv, NEW p \in Pids, Vivo(p)
                PROVE  /\ \A g \in Paginas(p) : Entrada(p, g).presencia =>
                            \E i \in DOMAIN lista(p) : /\ lista(p)[i].nro_swap = g
                                                       /\ lista(p)[i].nro_marco = Entrada(p, g).nro_marco
                       /\ \A i \in DOMAIN lista(p) :
                            /\ Entrada(p, lista(p)[i].nro_swap).presencia
                            /\ \A j \in DOMAIN lista(p) : lista(p)[i].nro_swap = lista(p)[j].nro_swap => i = j
    BY DEF RelojCoherente, Vivo
  <2>1. Tipos /\ Tablas /\ EnListaDe(p)
    BY DEF IInv, IMem, EnLista
  <2>2. \A g \in Paginas(p) : Entrada(p, g).presencia =>
          \E i \in DOMAIN lista(p) : /\ lista(p)[i].nro_swap = g
                                     /\ lista(p)[i].nro_marco = Entrada(p, g).nro_marco
    BY <2>1, EnMarco
  <2>3. \A i \in DOMAIN lista(p) : Entrada(p, lista(p)[i].nro_swap).presencia
    BY <2>1, DeLista
  <2>4. \A i, j \in DOMAIN lista(p) : lista(p)[i].nro_swap = lista(p)[j].nro_swap => i = j
    BY <2>1, PaginasDeLista
  <2>. QED  BY <2>2, <2>3, <2>4
<1>. QED  BY <1>1, Invariante, PTL

\* obtener_pagina finds the page it is asked for, of the process pid_actual
\* names, however many TLB hits memory has not heard of.
THEOREM PaginaHalladaSiempre == Spec => []PaginaHallada
<1>1. IInv => PaginaHallada
  BY DEF IInv, Ciclo, PaginaHallada
<1>. QED  BY <1>1, Invariante, PTL

-----------------------------------------------------------------------------
(* Who has a frame, until a page fault takes one that suspender_proceso has *)
(* freed and is yet to copy                                                *)

\* While a frame is being copied, no list changes but by a page fault.
LEMMA MientrasCopia ==
  ASSUME IInv, [Next]_vars, copiando' # Nadie
  PROVE  UNCHANGED estructuras \/ CpuMarcoSolapa
<1>1. CASE UNCHANGED vars
  BY <1>1 DEF vars, memoriaVars
<1>2. ASSUME NEW p \in Pids, Planifica(p) \/ Ejecuta(p) \/ Vuelve(p) \/ SuspenderPide(p)
      PROVE  UNCHANGED estructuras
  BY <1>2 DEF Planifica, Ejecuta, Vuelve, SuspenderPide, memoriaVars
<1>3. ASSUME NEW p \in Pids, Admite(p) \/ Elimina(p) PROVE FALSE
  <2>1. suspende = Nadie /\ copiando' = copiando
    BY <1>3 DEF Admite, Elimina, crear_tablas, eliminar_estructuras
  <2>. QED  BY <2>1 DEF IInv, Nucleo
<1>4. CASE SuspenderMarco
  BY <1>4 DEF SuspenderMarco, suspender_libera, suspender_copia
<1>5. CASE SuspenderFin
  BY <1>5 DEF SuspenderFin, memoriaVars
<1>6. CASE Cpu
  <2>1. CASE CpuCiclo \/ CpuTabla
    BY <2>1 DEF CpuCiclo, CpuTabla, obtener_nro_tabla_2do_nivel, memoriaVars
  <2>2. CASE CpuLee \/ CpuEscribe
    BY <2>2 DEF CpuLee, CpuEscribe, read_en_memoria, write_en_memoria
  <2>. QED  BY <1>6, <2>1, <2>2 DEF Cpu
<1>. QED  BY <1>1, <1>2, <1>3, <1>4, <1>5, <1>6 DEF Next

\* A frame marked free has no page in it, but for the one being copied.
LEMMA MarcoSinPagina ==
  ASSUME IMem, NEW m \in NrosMarco, ~ocupado[m], ~SeCopia(m),
         NEW q \in Pids, NEW k \in DOMAIN lista(q)
  PROVE  lista(q)[k].nro_marco # m
<1>1. CASE Firme(q, k)
  BY <1>1 DEF IMem, Repartidos
<1>2. CASE ~Firme(q, k)
  <2>1. copiando = q /\ k = 1 /\ q # Nadie
    BY <1>2, MemoriaAssumption DEF Firme
  <2>2. lista(q) \in Seq(MarcoEnLista)
    <3>1. estructuras[q] \in [marcos_en_memoria : Seq(MarcoEnLista), puntero : Posiciones]
      BY DEF IMem, Tipos
    <3>. HIDE DEF MarcoEnLista
    <3>. QED  BY <3>1 DEF lista
  <2>3. Head(lista(q)) = lista(q)[k]
    <3>. HIDE DEF MarcoEnLista
    <3>. QED  BY <2>1, <2>2
  <2>. QED  BY <2>1, <2>3 DEF SeCopia
<1>. QED  BY <1>1, <1>2

LEMMA DeADueno ==
  ASSUME IMem, copiando = Nadie
  PROVE  UnDueno
<1>1. \A p \in Pids : \A i : Firme(p, i)
  BY MemoriaAssumption DEF Firme
<1>. QED  BY <1>1 DEF IMem, Repartidos, UnDueno

\* A page fault that takes no frame being copied takes one of nobody's, or of its own
\* process.
LEMMA UnDuenoPaseo ==
  ASSUME IInv, UnDueno, CpuMarcoSolapa, ~solapado'
  PROVE  UnDueno'
<1>1. PICK p, g, t, i : p = pcb /\ g = instruccion.pag /\ t = nro /\ i = entrada_tabla_2
  OBVIOUS
<1>2. /\ p \in Pids /\ g \in Paginas(p) /\ <<t, i>> = Donde(p, g) /\ pid_actual' = p
      /\ MarcoPresente(t, i) \/ MarcoLibre(p, t, i, g) \/ MarcoReemplazado(p, t, i, g)
  BY <1>1, PaseoDe DEF CpuMarcoSolapa
<1>3. /\ Vivo(p) /\ copiando # p /\ IMem /\ Tipos /\ ocupado \in [NrosMarco -> BOOLEAN]
  BY <1>1, <1>2, DelPcb, MemoriaAssumption DEF IInv, IMem, Tipos
<1>4. \A q \in Pids : q # p => lista(q)' = lista(q)
  BY <1>2, <1>3, MarcoBien DEF Quieta
<1>5. CASE MarcoPresente(t, i)
  BY <1>5 DEF MarcoPresente, UnDueno, lista
<1>6. CASE MarcoLibre(p, t, i, g)
  <2>1. PICK m \in NrosMarco : TraeA(p, t, i, g, m)
    BY <1>6, TraeAlguno
  <2>2. ~ocupado[m] /\ ocupado'[m]
    BY <1>3, <2>1 DEF TraeA
  <2>3. ~SeCopia(m)
    BY <2>2 DEF CpuMarcoSolapa
  <2>4. \A q \in Pids : \A k \in DOMAIN lista(q) : lista(q)[k].nro_marco # m
    BY <1>3, <2>2, <2>3, MarcoSinPagina
  <2>5. PICK n : n = Len(lista(p)) + 1
    OBVIOUS
  <2>6. \A k \in DOMAIN lista(p)' :
          \/ k = n /\ lista(p)'[k].nro_marco = m
          \/ k \in DOMAIN lista(p) /\ lista(p)'[k] = lista(p)[k]
    <3>1. /\ DOMAIN lista(p)' = 1 .. Len(lista(p)) + 1
          /\ \A k \in 1 .. Len(lista(p)) + 1 : lista(p)'[k] =
               IF k = Len(lista(p)) + 1
               THEN [nro_marco |-> m, t |-> t, i |-> i, nro_swap |-> g] ELSE lista(p)[k]
      BY <1>2, <1>3, <2>1, LibreBien
    <3>2. DOMAIN lista(p) = 1 .. Len(lista(p)) /\ Len(lista(p)) \in Nat
      BY <1>3, ListaSeq
    <3>. QED  BY <2>5, <3>1, <3>2
  <2>. QED  BY <1>4, <2>4, <2>6 DEF UnDueno
<1>7. CASE MarcoReemplazado(p, t, i, g)
  <2>1. PICK v, f, D, ptr : CedeA(p, t, i, g, v, f, D, ptr)
    BY <1>2, <1>3, <1>7, CedeAlguno
  <2>2. Desaloja(p, g, v, f)
    BY <1>2, <1>3, <2>1, ReemplazoBien
  <2>3. /\ DOMAIN lista(p)' = DOMAIN lista(p)
        /\ \A k \in DOMAIN lista(p) : lista(p)'[k].nro_marco = lista(p)[k].nro_marco
    BY <2>2 DEF Desaloja
  <2>. QED  BY <1>4, <2>3 DEF UnDueno
<1>. QED  BY <1>2, <1>5, <1>6, <1>7

LEMMA UnDuenoSigue ==
  ASSUME IInv, UnDueno, [Next]_vars, ~solapado'
  PROVE  UnDueno'
<1>1. IMem'
  BY SigueInv DEF IInv
<1>2. CASE copiando' = Nadie
  <2>1. \A p \in Pids : \A i : Firme(p, i)'
    BY <1>2, MemoriaAssumption DEF Firme
  <2>. QED  BY <1>1, <2>1 DEF IMem, Repartidos, UnDueno
<1>3. CASE copiando' # Nadie
  <2>1. CASE UNCHANGED estructuras
    BY <2>1 DEF UnDueno, lista
  <2>. QED  BY <1>3, <2>1, MientrasCopia, UnDuenoPaseo
<1>. QED  BY <1>2, <1>3

\* One owner, until a frame that is being copied is taken.
Duenos == solapado \in BOOLEAN /\ (~solapado => UnDueno)

LEMMA UnDuenoSiempre == Spec => [](IInv /\ Duenos)
<1>1. Init => IInv /\ Duenos
  <2>1. Init => copiando = Nadie /\ solapado = FALSE
    BY DEF Init, InitMemoria
  <2>. QED  BY <2>1, IniciaInv, DeADueno DEF IInv, Duenos
<1>2. (IInv /\ Duenos) /\ [Next]_vars => (IInv /\ Duenos)'
  BY SigueInv, SolapadoSigue, UnDuenoSigue DEF Duenos
<1>. QED  BY <1>1, <1>2, PTL DEF Spec

\* A frame is marked busy exactly while one process, and only one, has a page in
\* it, and free while suspender_proceso copies it, until a page fault finds that frame
\* free and takes it.  Page faults between the two, which the code allows, are steps of
\* the model; after the first that takes such a frame it is false: PaginasSolapa.
THEOREM MarcosRepartidosSiempre == Spec => []MarcosRepartidos
<1>1. IInv /\ Duenos => MarcosRepartidos
  <2>. SUFFICES ASSUME IInv, UnDueno, NEW m \in NrosMarco
                PROVE  LET duenos == {d \in Pids \X (1 .. MarcosPorProceso) :
                             d[2] \in DOMAIN lista(d[1]) /\ lista(d[1])[d[2]].nro_marco = m}
                       IN Cardinality(duenos) = IF ocupado[m] \/ SeCopia(m) THEN 1 ELSE 0
    BY DEF MarcosRepartidos, Duenos
  <2>. DEFINE duenos == {d \in Pids \X (1 .. MarcosPorProceso) :
                             d[2] \in DOMAIN lista(d[1]) /\ lista(d[1])[d[2]].nro_marco = m}
              enCopia == SeCopia(m)
  <2>1. /\ Tipos /\ EnLista /\ Repartidos
        /\ copiando # Nadie => copiando \in Pids /\ lista(copiando) # << >>
    BY DEF IInv, IMem, Tipos, Nucleo
  <2>2. \A p \in Pids : /\ lista(p) \in Seq(MarcoEnLista)
                        /\ DOMAIN lista(p) = 1 .. Len(lista(p)) /\ Len(lista(p)) \in Nat
                        /\ Len(lista(p)) <= MarcosPorProceso
    <3>1. \A p \in Pids : /\ estructuras[p] \in [marcos_en_memoria : Seq(MarcoEnLista), puntero : Posiciones]
                          /\ Len(lista(p)) <= MarcosPorProceso
      BY <2>1 DEF Tipos
    <3>. HIDE DEF MarcoEnLista
    <3>2. \A p \in Pids : lista(p) \in Seq(MarcoEnLista)
      BY <3>1 DEF lista
    <3>. QED  BY <3>1, <3>2
  <2>3. MarcosPorProceso \in Nat
    BY MarcosAssumption
  <2>4. ASSUME NEW d \in duenos, NEW e \in duenos PROVE d = e
    <3>1. /\ d[1] \in Pids /\ d[2] \in DOMAIN lista(d[1]) /\ d = <<d[1], d[2]>>
          /\ e[1] \in Pids /\ e[2] \in DOMAIN lista(e[1]) /\ e = <<e[1], e[2]>>
          /\ lista(d[1])[d[2]].nro_marco = lista(e[1])[e[2]].nro_marco
      OBVIOUS
    <3>2. d[1] = e[1]
      BY <3>1 DEF UnDueno
    <3>3. d[2] = e[2]
      BY <2>1, <3>1, <3>2 DEF EnLista, EnListaDe
    <3>. QED  BY <3>1, <3>2, <3>3
  <2>5. ASSUME NEW d \in duenos PROVE duenos = {d}
    BY <2>4
  <2>6. CASE ocupado[m] \/ enCopia
    <3>1. \E d : d \in duenos
      <4>1. CASE ocupado[m]
        <5>1. PICK p \in Pids : \E i \in DOMAIN lista(p) : lista(p)[i].nro_marco = m
          BY <2>1, <4>1 DEF Repartidos
        <5>2. PICK i \in DOMAIN lista(p) : lista(p)[i].nro_marco = m
          BY <5>1
        <5>3. i \in 1 .. MarcosPorProceso
          BY <2>2, <2>3
        <5>4. <<p, i>> \in duenos
          BY <5>2, <5>3
        <5>. QED  BY <5>4
      <4>2. CASE enCopia
        <5>1. copiando \in Pids /\ lista(copiando) # << >> /\ Head(lista(copiando)).nro_marco = m
          BY <2>1, <4>2 DEF SeCopia
        <5>2. 1 \in DOMAIN lista(copiando) /\ lista(copiando)[1].nro_marco = m
          <6>. HIDE DEF MarcoEnLista
          <6>. QED  BY <2>2, <5>1
        <5>3. 1 \in 1 .. MarcosPorProceso
          BY <2>2, <2>3, <5>1, <5>2
        <5>4. <<copiando, 1>> \in duenos
          BY <5>1, <5>2, <5>3
        <5>. QED  BY <5>4
      <4>. QED  BY <2>6, <4>1, <4>2
    <3>2. PICK d : d \in duenos
      BY <3>1
    <3>3. duenos = {d}
      BY <2>5, <3>2
    <3>. HIDE DEF duenos
    <3>4. Cardinality(duenos) = 1
      BY <3>3, FS_Singleton
    <3>. QED  BY <2>6, <3>4 DEF duenos
  <2>7. CASE ~(ocupado[m] \/ enCopia)
    <3>1. ASSUME NEW d \in duenos PROVE FALSE
      <4>1. PICK p, i : p = d[1] /\ i = d[2]
        OBVIOUS
      <4>2. p \in Pids /\ i \in DOMAIN lista(p) /\ lista(p)[i].nro_marco = m
        BY <4>1
      <4>3. ~Firme(p, i)
        BY <2>1, <2>7, <4>2 DEF Repartidos
      <4>4. copiando = p /\ i = 1
        BY <4>3 DEF Firme
      <4>5. lista(p) # << >> /\ Head(lista(p)) = lista(p)[1]
        <5>. HIDE DEF MarcoEnLista
        <5>. QED  BY <2>2, <4>2
      <4>. QED  BY <2>7, <4>2, <4>4, <4>5, MemoriaAssumption DEF SeCopia
    <3>2. duenos = {}
      BY <3>1
    <3>. HIDE DEF duenos
    <3>3. Cardinality(duenos) = 0
      BY <3>2, FS_EmptySet
    <3>. QED  BY <2>7, <3>3 DEF duenos
  <2>. QED  BY <2>6, <2>7
<1>. QED  BY <1>1, UnDuenoSiempre, PTL

-----------------------------------------------------------------------------
(* What the pages hold                                                     *)

\* The swap file is right about a page that is not modified.
LimpiaDe(q, h) ==
  Entrada(q, h).presencia /\ ~Entrada(q, h).modificado
    => memoria[Entrada(q, h).nro_marco] = swap[q][h]

Limpia == \A q \in Pids : \A h \in Paginas(q) : Vivo(q) => LimpiaDe(q, h)

\* Of page h of q a step changes no more than the use bit.
Igual(q, h) ==
  /\ Vivo(q)'
  /\ Entrada(q, h)'.presencia = Entrada(q, h).presencia
  /\ Entrada(q, h)'.nro_marco = Entrada(q, h).nro_marco
  /\ Entrada(q, h)'.modificado = Entrada(q, h).modificado
  /\ Entrada(q, h).presencia =>
       memoria'[Entrada(q, h).nro_marco] = memoria[Entrada(q, h).nro_marco]
  /\ swap'[q][h] = swap[q][h]

\* Page h of q still holds what it held, and its copy in swap is still right.
Mantiene(q, h) == LimpiaDe(q, h)' /\ Contenido(q, h)' = Contenido(q, h)

\* It does so for every page but one.
SoloCambia(p, g) ==
  \A q \in Pids : \A h \in Paginas(q) : Vivo(q) /\ ~(q = p /\ h = g) => Mantiene(q, h)

LEMMA IgualMantiene ==
  ASSUME NEW q, NEW h, Vivo(q), LimpiaDe(q, h), Igual(q, h)
  PROVE  Mantiene(q, h)
<1>1. LimpiaDe(q, h)'
  BY DEF LimpiaDe, Igual
<1>2. Contenido(q, h)' = Contenido(q, h)
  BY DEF Contenido, Igual, Vivo
<1>. QED  BY <1>1, <1>2 DEF Mantiene

\* Two pages in memory are in two frames.
LEMMA OtroMarco ==
  ASSUME IMem, UnDueno, NEW p \in Pids, NEW q \in Pids, Vivo(p), Vivo(q),
         NEW g \in Paginas(p), NEW h \in Paginas(q),
         Entrada(p, g).presencia, Entrada(q, h).presencia,
         Entrada(p, g).nro_marco = Entrada(q, h).nro_marco
  PROVE  p = q /\ g = h
<1>1. Tipos /\ Tablas /\ EnListaDe(p) /\ EnListaDe(q)
  BY DEF IMem, EnLista
<1>2. PICK i \in DOMAIN lista(p) : lista(p)[i].nro_swap = g /\ lista(p)[i].nro_marco = Entrada(p, g).nro_marco
  BY <1>1, EnMarco
<1>3. PICK j \in DOMAIN lista(q) : lista(q)[j].nro_swap = h /\ lista(q)[j].nro_marco = Entrada(q, h).nro_marco
  BY <1>1, EnMarco
<1>4. p = q
  BY <1>2, <1>3 DEF UnDueno
<1>5. i = j
  BY <1>1, <1>2, <1>3, <1>4 DEF EnListaDe
<1>. QED  BY <1>2, <1>3, <1>4, <1>5


\* The steps that move no page and write none.
LEMMA NadaCambia ==
  ASSUME Limpia, UNCHANGED <<memoria, tablas1, tablas2, swap, tabla>>
  PROVE  /\ \A q \in Pids : \A h \in Paginas(q) : Vivo(q) => Mantiene(q, h)
         /\ \A q \in Pids : Vivo(q)' = Vivo(q)
<1>1. \A q, h : Entrada(q, h)' = Entrada(q, h) /\ Vivo(q)' = Vivo(q)
  BY DEF Entrada, fila, nro_tabla_2do_nivel, Vivo
<1>2. ASSUME NEW q \in Pids, NEW h \in Paginas(q), Vivo(q) PROVE Mantiene(q, h)
  <2>1. Igual(q, h)
    BY <1>1, <1>2 DEF Igual
  <2>2. LimpiaDe(q, h)
    BY <1>2 DEF Limpia
  <2>. QED  BY <1>2, <2>1, <2>2, IgualMantiene
<1>. QED  BY <1>1, <1>2

\* CREAR_TABLA: the pages of a new process hold zeros.
LEMMA CreaDatos ==
  ASSUME IInv, Limpia, NEW p \in Pids, ~Vivo(p), crear_tablas(p)
  PROVE  /\ \A q \in Pids : \A h \in Paginas(q) : Vivo(q)' => Mantiene(q, h)
<1>1. /\ \A q \in Pids : q # p => Quieta(q)
      /\ Vivo(p)' /\ \A q \in Pids : q # p => swap'[q] = swap[q]
      /\ \A g \in Paginas(p) : Entrada(p, g)' = FilaNueva /\ swap'[p][g] = Cero
      /\ \A q \in Pids : q # p /\ Vivo(q) => \A g \in Paginas(q) : Entrada(q, g)' = Entrada(q, g)
  BY CreaBien DEF IInv
<1>2. memoria' = memoria
  BY DEF crear_tablas
<1>3. ASSUME NEW q \in Pids, NEW h \in Paginas(q), Vivo(q)', q # p PROVE Mantiene(q, h)
  <2>1. Vivo(q)
    BY <1>1, <1>3 DEF Quieta
  <2>2. Entrada(q, h)' = Entrada(q, h) /\ swap'[q] = swap[q]
    BY <1>1, <1>3, <2>1
  <2>3. Igual(q, h)
    BY <1>2, <1>3, <2>2 DEF Igual
  <2>4. LimpiaDe(q, h)
    BY <2>1 DEF Limpia
  <2>. QED  BY <2>1, <2>3, <2>4, IgualMantiene
<1>4. ASSUME NEW h \in Paginas(p) PROVE Mantiene(p, h)
  <2>1. ~Entrada(p, h)'.presencia /\ swap'[p][h] = Cero
    BY <1>1, <1>4 DEF FilaNueva
  <2>2. LimpiaDe(p, h)'
    BY <2>1 DEF LimpiaDe
  <2>3. Contenido(p, h)' = Cero
    BY <1>1, <2>1 DEF Contenido, Vivo
  <2>4. Contenido(p, h) = Cero
    BY DEF Contenido, Vivo
  <2>. QED  BY <2>2, <2>3, <2>4 DEF Mantiene
<1>. QED  BY <1>3, <1>4

\* ELIMINAR_ESTRUCTURAS: the other processes keep theirs.
LEMMA EliminaDatos ==
  ASSUME IInv, Limpia, NEW p \in Pids, eliminar_estructuras(p), copiando = Nadie
  PROVE  /\ \A q \in Pids : \A h \in Paginas(q) : q # p /\ Vivo(q) => Mantiene(q, h)
         /\ ~Vivo(p)' /\ \A q \in Pids : q # p => Vivo(q)' = Vivo(q)
<1>1. /\ \A q \in Pids : q # p => Quieta(q)
      /\ ~Vivo(p)' /\ \A q \in Pids : q # p => swap'[q] = swap[q]
      /\ UNCHANGED <<tablas1, tablas2, tabla>>
  BY EliminaBien DEF IInv
<1>2. memoria' = memoria
  BY DEF eliminar_estructuras
<1>3. \A q, h : Entrada(q, h)' = Entrada(q, h)
  BY <1>1 DEF Entrada, fila, nro_tabla_2do_nivel
<1>4. ASSUME NEW q \in Pids, NEW h \in Paginas(q), q # p, Vivo(q) PROVE Mantiene(q, h)
  <2>1. Vivo(q)' /\ swap'[q] = swap[q]
    BY <1>1, <1>4 DEF Quieta
  <2>2. Igual(q, h)
    BY <1>2, <1>3, <2>1 DEF Igual
  <2>3. LimpiaDe(q, h)
    BY <1>4 DEF Limpia
  <2>. QED  BY <1>4, <2>2, <2>3, IgualMantiene
<1>5. \A q \in Pids : q # p => Vivo(q)' = Vivo(q)
  BY <1>1 DEF Quieta
<1>. QED  BY <1>1, <1>4, <1>5

\* SUSPENDER_PROCESO: the page that leaves memory is in swap.
LEMMA CopiaDatos ==
  ASSUME IInv, Limpia, NEW p \in Pids, suspender_copia(p), lista(p) # << >>
  PROVE  /\ \A q \in Pids : \A h \in Paginas(q) : Vivo(q) => Mantiene(q, h)
         /\ \A q \in Pids : Vivo(q)' = Vivo(q)
<1>1. PICK f, g : f = lista(p)[1] /\ g = f.nro_swap
  OBVIOUS
<1>0. IMem
  BY DEF IInv
<1>1a. (\A q \in Pids : Vivo(q)' = Vivo(q)) /\ Sacada(p, f, g)
  BY <1>0, <1>1, CopiaBien
<1>2. /\ \A q \in Pids : Vivo(q)' = Vivo(q)
      /\ 1 \in DOMAIN lista(p) /\ Vivo(p)
      /\ Entrada(p, g)' =
           [Entrada(p, g) EXCEPT !.presencia = FALSE, !.uso = FALSE, !.modificado = FALSE]
  BY <1>1a DEF Sacada
<1>2a. ASSUME NEW q \in Pids, NEW h \in Paginas(q), Vivo(q)
       PROVE  /\ ~(q = p /\ h = g) => Entrada(q, h)' = Entrada(q, h)
              /\ swap'[q][h] = IF q = p /\ h = g /\ Entrada(p, h).modificado
                               THEN memoria[f.nro_marco] ELSE swap[q][h]
  BY <1>1a, <1>2a DEF Sacada
<1>3. memoria' = memoria
  BY DEF suspender_copia
<1>4. /\ g \in Paginas(p) /\ Entrada(p, g) \in Fila /\ Entrada(p, g).presencia
      /\ Entrada(p, g).nro_marco = f.nro_marco
  BY <1>1, <1>2, DeLista DEF IInv, IMem, EnLista
<1>5. ASSUME NEW q \in Pids, NEW h \in Paginas(q), Vivo(q), ~(q = p /\ h = g) PROVE Mantiene(q, h)
  <2>1. Entrada(q, h)' = Entrada(q, h) /\ Vivo(q)'
    BY <1>2, <1>5, <1>2a
  <2>2. swap'[q][h] = swap[q][h]
    BY <1>5, <1>2a
  <2>3. Igual(q, h)
    BY <1>3, <2>1, <2>2 DEF Igual
  <2>4. LimpiaDe(q, h)
    BY <1>5 DEF Limpia
  <2>. QED  BY <1>5, <2>3, <2>4, IgualMantiene
<1>6. Mantiene(p, g)
  <2>1. ~Entrada(p, g)'.presencia
    BY <1>2, <1>4 DEF Fila
  <2>2. LimpiaDe(p, g)'
    BY <2>1 DEF LimpiaDe
  <2>3. LimpiaDe(p, g)
    BY <1>2, <1>4 DEF Limpia
  <2>4. swap'[p][g] = memoria[f.nro_marco]
    BY <1>2, <1>4, <1>2a, <2>3 DEF LimpiaDe
  <2>5. Contenido(p, g)' = memoria[f.nro_marco]
    BY <1>2, <2>1, <2>4 DEF Contenido, Vivo
  <2>6. Contenido(p, g) = memoria[f.nro_marco]
    BY <1>2, <1>4 DEF Contenido, Vivo
  <2>. QED  BY <2>2, <2>5, <2>6 DEF Mantiene
<1>7. ASSUME NEW q \in Pids, NEW h \in Paginas(q), Vivo(q) PROVE Mantiene(q, h)
  BY <1>5, <1>6, <1>7
<1>. QED  BY <1>2, <1>7

\* The steps that only record a use.
LEMMA UsoDatos ==
  ASSUME IMem, Limpia, NEW p \in Pids, Vivo(p), NEW g \in Paginas(p),
         \A q \in Pids : Quieta(q), Entrada(p, g)' = [Entrada(p, g) EXCEPT !.uso = TRUE],
         \A q \in Pids : \A h \in Paginas(q) :
           Vivo(q) /\ ~(q = p /\ h = g) => Entrada(q, h)' = Entrada(q, h),
         UNCHANGED <<memoria, swap>>
  PROVE  \A q \in Pids : \A h \in Paginas(q) : Vivo(q) => Mantiene(q, h)
<1>1. /\ \A q \in Pids : Quieta(q)
      /\ Entrada(p, g)' = [Entrada(p, g) EXCEPT !.uso = TRUE]
      /\ \A q \in Pids : \A h \in Paginas(q) :
           Vivo(q) /\ ~(q = p /\ h = g) => Entrada(q, h)' = Entrada(q, h)
  OBVIOUS
<1>2. UNCHANGED <<memoria, swap>> /\ Entrada(p, g) \in Fila
  BY DEF IMem, Tablas
<1>3. /\ Entrada(p, g)'.presencia = Entrada(p, g).presencia
      /\ Entrada(p, g)'.nro_marco = Entrada(p, g).nro_marco
      /\ Entrada(p, g)'.modificado = Entrada(p, g).modificado
  BY <1>1, <1>2 DEF Fila
<1>4. ASSUME NEW q \in Pids, NEW h \in Paginas(q), Vivo(q) PROVE Mantiene(q, h)
  <2>1. LimpiaDe(q, h)
    BY <1>4 DEF Limpia
  <2>2. Vivo(q)'
    BY <1>1, <1>4 DEF Quieta
  <2>3. Igual(q, h)
    <3>1. CASE q = p /\ h = g
      BY <1>2, <1>3, <2>2, <3>1 DEF Igual
    <3>2. CASE ~(q = p /\ h = g)
      <4>1. Entrada(q, h)' = Entrada(q, h)
        BY <1>1, <1>4, <3>2
      <4>. QED  BY <1>2, <2>2, <4>1 DEF Igual
    <3>. QED  BY <3>1, <3>2
  <2>. QED  BY <1>4, <2>1, <2>3, IgualMantiene
<1>. QED  BY <1>4

\* A page walk: the page brought in holds what swap kept of it, the one it takes
\* the frame from is in swap.
LEMMA LibreDatos ==
  ASSUME IMem, Limpia, NEW p \in Pids, Vivo(p), copiando # p, pid_actual' = p,
         NEW g \in Paginas(p), NEW t, NEW i, <<t, i>> = Donde(p, g),
         NEW m \in NrosMarco, TraeA(p, t, i, g, m), ~SeCopia(m)
  PROVE  \A q \in Pids : \A h \in Paginas(q) : Vivo(q) => Mantiene(q, h)
<1>1. Entrada(p, g)' = FilaCargada(m)
  BY LibreBien
<1>2. \A q \in Pids : \A h \in Paginas(q) :
        Vivo(q) /\ ~(q = p /\ h = g) => Entrada(q, h)' = Entrada(q, h)
  BY LibreBien
<1>3. /\ ~Entrada(p, g).presencia /\ ~ocupado[m] /\ UNCHANGED swap
      /\ memoria' = [memoria EXCEPT ![m] = swap[p][g]]
  BY EsDonde DEF TraeA
<1>4. memoria \in [NrosMarco -> Datos]
  BY DEF IMem, Tipos
<1>5. ASSUME NEW q \in Pids, NEW h \in Paginas(q), Vivo(q), ~(q = p /\ h = g) PROVE Mantiene(q, h)
  <2>1. LimpiaDe(q, h)
    BY <1>5 DEF Limpia
  <2>2. Entrada(q, h)' = Entrada(q, h)
    BY <1>2, <1>5
  <2>3. Entrada(q, h).presencia => memoria'[Entrada(q, h).nro_marco] = memoria[Entrada(q, h).nro_marco]
    <3>. SUFFICES ASSUME Entrada(q, h).presencia
                  PROVE  memoria'[Entrada(q, h).nro_marco] = memoria[Entrada(q, h).nro_marco]
      OBVIOUS
    <3>1. PICK k \in DOMAIN lista(q) : /\ lista(q)[k].nro_marco = Entrada(q, h).nro_marco
                                       /\ Entrada(q, h).nro_marco \in NrosMarco
      BY <1>5, EnMarco DEF IMem, EnLista
    <3>2. Entrada(q, h).nro_marco # m
      BY <1>3, <3>1, MarcoSinPagina
    <3>. QED  BY <1>3, <1>4, <3>1, <3>2
  <2>4. Vivo(q)'
    BY <1>3, <1>5 DEF Vivo
  <2>5. Igual(q, h)
    BY <1>3, <2>2, <2>3, <2>4 DEF Igual
  <2>. QED  BY <1>5, <2>1, <2>5, IgualMantiene
<1>6. Mantiene(p, g)
  <2>1. Entrada(p, g)'.presencia /\ Entrada(p, g)'.nro_marco = m
    BY <1>1 DEF FilaCargada
  <2>2. memoria'[m] = swap[p][g] /\ swap'[p][g] = swap[p][g] /\ Vivo(p)'
    BY <1>3, <1>4 DEF Vivo
  <2>3. LimpiaDe(p, g)'
    BY <2>1, <2>2 DEF LimpiaDe
  <2>4. Contenido(p, g)' = swap[p][g]
    BY <2>1, <2>2 DEF Contenido, Vivo
  <2>5. Contenido(p, g) = swap[p][g]
    BY <1>3 DEF Contenido, Vivo
  <2>. QED  BY <2>3, <2>4, <2>5 DEF Mantiene
<1>7. ASSUME NEW q \in Pids, NEW h \in Paginas(q), Vivo(q) PROVE Mantiene(q, h)
  BY <1>5, <1>6, <1>7
<1>. QED  BY <1>7

LEMMA CedeDatos ==
  ASSUME IMem, UnDueno, Limpia, NEW p \in Pids, Vivo(p), pid_actual' = p,
         NEW g \in Paginas(p), NEW t, NEW i, <<t, i>> = Donde(p, g),
         NEW v, NEW f, NEW D, NEW ptr, CedeA(p, t, i, g, v, f, D, ptr)
  PROVE  \A q \in Pids : \A h \in Paginas(q) : Vivo(q) => Mantiene(q, h)
<1>. DEFINE o == f.nro_swap
<1>1. (\A q \in Pids : Vivo(q)' = Vivo(q)) /\ Desaloja(p, g, v, f)
  BY ReemplazoBien
<1>2. /\ v \in DOMAIN lista(p) /\ f = lista(p)[v] /\ o # g /\ ~Entrada(p, g).presencia
      /\ Entrada(p, g)' = FilaCargada(f.nro_marco)
      /\ \A k \in NrosMarco : memoria'[k] = IF k = f.nro_marco THEN swap[p][g] ELSE memoria[k]
  BY <1>1 DEF Desaloja
<1>3. ASSUME NEW q \in Pids, NEW h \in Paginas(q), Vivo(q), ~(q = p /\ h = g)
      PROVE  /\ Entrada(q, h)' \in Fila
             /\ Entrada(q, h)'.nro_marco = Entrada(q, h).nro_marco
             /\ Entrada(q, h)'.presencia <=> Entrada(q, h).presencia /\ ~(q = p /\ h = o)
             /\ Entrada(q, h)'.modificado <=> Entrada(q, h).modificado /\ ~(q = p /\ h = o)
  BY <1>1, <1>3 DEF Desaloja
<1>4. ASSUME NEW q \in Pids, NEW h \in Paginas(q), Vivo(q)
      PROVE  swap'[q][h] = IF q = p /\ h = o /\ Entrada(p, h).modificado
                           THEN memoria[f.nro_marco] ELSE swap[q][h]
  BY <1>1, <1>4 DEF Desaloja
<1>5. /\ o \in Paginas(p) /\ Entrada(p, o).presencia
      /\ Entrada(p, o).nro_marco = f.nro_marco /\ f.nro_marco \in NrosMarco
      /\ Entrada(p, o) \in Fila
  BY <1>2, DeLista DEF IMem, EnLista
<1>. HIDE DEF o
<1>6. ASSUME NEW q \in Pids, NEW h \in Paginas(q), Vivo(q), ~(q = p /\ h = g), ~(q = p /\ h = o)
      PROVE  Mantiene(q, h)
  <2>1. LimpiaDe(q, h)
    BY <1>6 DEF Limpia
  <2>2. Entrada(q, h) \in Fila
    BY <1>6 DEF IMem, Tablas
  <2>3. /\ Entrada(q, h)'.nro_marco = Entrada(q, h).nro_marco
        /\ Entrada(q, h)'.presencia = Entrada(q, h).presencia
        /\ Entrada(q, h)'.modificado = Entrada(q, h).modificado
    <3>1. /\ Entrada(q, h)' \in Fila
          /\ Entrada(q, h)'.nro_marco = Entrada(q, h).nro_marco
          /\ Entrada(q, h)'.presencia <=> Entrada(q, h).presencia
          /\ Entrada(q, h)'.modificado <=> Entrada(q, h).modificado
      BY <1>3, <1>6
    <3>. QED  BY <2>2, <3>1 DEF Fila
  <2>4. Entrada(q, h).presencia => memoria'[Entrada(q, h).nro_marco] = memoria[Entrada(q, h).nro_marco]
    <3>. SUFFICES ASSUME Entrada(q, h).presencia
                  PROVE  memoria'[Entrada(q, h).nro_marco] = memoria[Entrada(q, h).nro_marco]
      OBVIOUS
    <3>1. Entrada(q, h).nro_marco \in NrosMarco
      BY <1>6, EnMarco DEF IMem, EnLista
    <3>2. Entrada(q, h).nro_marco # f.nro_marco
      BY <1>5, <1>6, OtroMarco
    <3>. QED  BY <1>2, <3>1, <3>2
  <2>5. swap'[q][h] = swap[q][h] /\ Vivo(q)'
    BY <1>1, <1>4, <1>6
  <2>6. Igual(q, h)
    BY <2>3, <2>4, <2>5 DEF Igual
  <2>. QED  BY <1>6, <2>1, <2>6, IgualMantiene
<1>7. Mantiene(p, g)
  <2>1. Entrada(p, g)'.presencia /\ Entrada(p, g)'.nro_marco = f.nro_marco
    BY <1>2 DEF FilaCargada
  <2>2. memoria'[f.nro_marco] = swap[p][g] /\ swap'[p][g] = swap[p][g] /\ Vivo(p)'
    BY <1>1, <1>2, <1>4, <1>5
  <2>3. LimpiaDe(p, g)'
    BY <2>1, <2>2 DEF LimpiaDe
  <2>4. Contenido(p, g)' = swap[p][g]
    BY <2>1, <2>2 DEF Contenido, Vivo
  <2>5. Contenido(p, g) = swap[p][g]
    BY <1>2 DEF Contenido, Vivo
  <2>. QED  BY <2>3, <2>4, <2>5 DEF Mantiene
<1>8. Mantiene(p, o)
  <2>1. ~Entrada(p, o)'.presencia
    BY <1>2, <1>3, <1>5
  <2>2. LimpiaDe(p, o)'
    BY <2>1 DEF LimpiaDe
  <2>3. LimpiaDe(p, o)
    BY <1>5 DEF Limpia
  <2>4. swap'[p][o] = memoria[f.nro_marco] /\ Vivo(p)'
    BY <1>1, <1>4, <1>5, <2>3 DEF LimpiaDe
  <2>5. Contenido(p, o)' = memoria[f.nro_marco]
    BY <2>1, <2>4 DEF Contenido, Vivo
  <2>6. Contenido(p, o) = memoria[f.nro_marco]
    BY <1>5 DEF Contenido, Vivo
  <2>. QED  BY <2>2, <2>5, <2>6 DEF Mantiene
<1>9. ASSUME NEW q \in Pids, NEW h \in Paginas(q), Vivo(q) PROVE Mantiene(q, h)
  BY <1>6, <1>7, <1>8, <1>9
<1>. QED  BY <1>9

LEMMA MarcoDatos ==
  ASSUME IMem, UnDueno, Limpia, NEW p \in Pids, Vivo(p), copiando # p, pid_actual' = p,
         \A m \in NrosMarco : SeCopia(m) => ~ocupado'[m],
         NEW g \in Paginas(p), NEW t, NEW i, <<t, i>> = Donde(p, g),
         MarcoPresente(t, i) \/ MarcoLibre(p, t, i, g) \/ MarcoReemplazado(p, t, i, g)
  PROVE  \A q \in Pids : \A h \in Paginas(q) : Vivo(q) => Mantiene(q, h)
<1>1. CASE MarcoPresente(t, i)
  <2>1. /\ \A q \in Pids : Quieta(q)
        /\ Entrada(p, g)' = [Entrada(p, g) EXCEPT !.uso = TRUE]
        /\ \A q \in Pids : \A h \in Paginas(q) :
             Vivo(q) /\ ~(q = p /\ h = g) => Entrada(q, h)' = Entrada(q, h)
    BY <1>1, PresenteBien
  <2>2. UNCHANGED <<memoria, swap>>
    BY <1>1 DEF MarcoPresente
  <2>. QED  BY <2>1, <2>2, UsoDatos
<1>2. CASE MarcoLibre(p, t, i, g)
  <2>1. PICK m \in NrosMarco : TraeA(p, t, i, g, m)
    BY <1>2, TraeAlguno
  <2>2. ocupado \in [NrosMarco -> BOOLEAN]
    BY DEF IMem, Tipos
  <2>3. ~SeCopia(m)
    BY <2>1, <2>2 DEF TraeA
  <2>. QED  BY <2>1, <2>3, LibreDatos
<1>3. CASE MarcoReemplazado(p, t, i, g)
  <2>1. PICK v, f, D, ptr : CedeA(p, t, i, g, v, f, D, ptr)
    BY <1>3, CedeAlguno
  <2>. QED  BY <2>1, CedeDatos
<1>. QED  BY <1>1, <1>2, <1>3

\* Reading gives what the page holds, and writing changes that page alone.
LEMMA LecturaDatos ==
  ASSUME IInv, Limpia, fase = "acceso", read_en_memoria(nro),
         NEW p, p = pcb, NEW g, g = instruccion.pag
  PROVE  /\ \A q \in Pids : \A h \in Paginas(q) : Vivo(q) => Mantiene(q, h)
         /\ \A q \in Pids : Vivo(q)' = Vivo(q)
         /\ memoria[nro] = Contenido(p, g)
<1>1. /\ p \in Pids /\ Vivo(p) /\ g \in Paginas(p)
      /\ Entrada(p, g).presencia /\ Entrada(p, g).nro_marco = nro
  BY PaginaDeAcceso
<1>2. /\ \A q \in Pids : Quieta(q)
      /\ Entrada(p, g)' = [Entrada(p, g) EXCEPT !.uso = TRUE]
      /\ \A q \in Pids : \A h \in Paginas(q) :
           Vivo(q) /\ ~(q = p /\ h = g) => Entrada(q, h)' = Entrada(q, h)
  <2>1. (\A q \in Pids : Quieta(q)) /\ SoloFila(p, g, [Entrada(p, g) EXCEPT !.uso = TRUE])
    BY LecturaBien
  <2>. QED  BY <2>1 DEF SoloFila
<1>3. UNCHANGED <<memoria, swap>> /\ IMem
  BY DEF read_en_memoria, IInv
<1>4. \A q \in Pids : \A h \in Paginas(q) : Vivo(q) => Mantiene(q, h)
  BY <1>1, <1>2, <1>3, UsoDatos
<1>5. memoria[nro] = Contenido(p, g)
  BY <1>1 DEF Contenido, Vivo
<1>. QED  BY <1>2, <1>4, <1>5 DEF Quieta

LEMMA EscrituraDatos ==
  ASSUME IInv, UnDueno, Limpia, fase = "acceso", NEW d \in Datos, write_en_memoria(nro, d),
         NEW p, p = pcb, NEW g, g = instruccion.pag
  PROVE  /\ \A q \in Pids : \A h \in Paginas(q) : Vivo(q) /\ ~(q = p /\ h = g) => Mantiene(q, h)
         /\ \A q \in Pids : Vivo(q)' = Vivo(q)
         /\ LimpiaDe(p, g)' /\ Contenido(p, g)' = d
<1>1. /\ p \in Pids /\ Vivo(p) /\ g \in Paginas(p) /\ nro \in NrosMarco
      /\ Entrada(p, g) \in Fila /\ Entrada(p, g).presencia /\ Entrada(p, g).nro_marco = nro
  BY PaginaDeAcceso
<1>2. /\ \A q \in Pids : Quieta(q)
      /\ Entrada(p, g)' = [Entrada(p, g) EXCEPT !.uso = TRUE, !.modificado = TRUE]
      /\ \A q \in Pids : \A h \in Paginas(q) :
           Vivo(q) /\ ~(q = p /\ h = g) => Entrada(q, h)' = Entrada(q, h)
  <2>1. (\A q \in Pids : Quieta(q)) /\ SoloFila(p, g, [Entrada(p, g) EXCEPT !.uso = TRUE, !.modificado = TRUE])
    BY EscrituraBien
  <2>. QED  BY <2>1 DEF SoloFila
<1>3. /\ memoria' = [memoria EXCEPT ![nro] = d] /\ UNCHANGED swap
      /\ memoria \in [NrosMarco -> Datos] /\ IMem
  BY DEF write_en_memoria, IInv, IMem, Tipos
<1>4. \A q \in Pids : Vivo(q)' = Vivo(q)
  BY <1>2 DEF Quieta
<1>5. ASSUME NEW q \in Pids, NEW h \in Paginas(q), Vivo(q), ~(q = p /\ h = g) PROVE Mantiene(q, h)
  <2>1. LimpiaDe(q, h)
    BY <1>5 DEF Limpia
  <2>2. Entrada(q, h)' = Entrada(q, h)
    BY <1>2, <1>5
  <2>3. Entrada(q, h).presencia => memoria'[Entrada(q, h).nro_marco] = memoria[Entrada(q, h).nro_marco]
    <3>. SUFFICES ASSUME Entrada(q, h).presencia
                  PROVE  memoria'[Entrada(q, h).nro_marco] = memoria[Entrada(q, h).nro_marco]
      OBVIOUS
    <3>1. Entrada(q, h).nro_marco \in NrosMarco
      BY <1>3, <1>5, EnMarco DEF IMem, EnLista
    <3>2. Entrada(q, h).nro_marco # nro
      BY <1>1, <1>3, <1>5, OtroMarco
    <3>. QED  BY <1>3, <3>1, <3>2
  <2>4. Vivo(q)' /\ swap'[q][h] = swap[q][h]
    BY <1>3, <1>4, <1>5
  <2>5. Igual(q, h)
    BY <2>2, <2>3, <2>4 DEF Igual
  <2>. QED  BY <1>5, <2>1, <2>5, IgualMantiene
<1>6. LimpiaDe(p, g)' /\ Contenido(p, g)' = d
  <2>1. /\ Entrada(p, g)'.presencia /\ Entrada(p, g)'.modificado
        /\ Entrada(p, g)'.nro_marco = nro
    BY <1>1, <1>2 DEF Fila
  <2>2. memoria'[nro] = d /\ Vivo(p)'
    BY <1>1, <1>3, <1>4
  <2>3. LimpiaDe(p, g)'
    BY <2>1 DEF LimpiaDe
  <2>4. Contenido(p, g)' = d
    BY <2>1, <2>2 DEF Contenido, Vivo
  <2>. QED  BY <2>3, <2>4
<1>. QED  BY <1>4, <1>5, <1>6

-----------------------------------------------------------------------------
(* What each step does to the address spaces                               *)

\* The page holds what it held, and if it is clean swap is right about it.
Sigue(q, h) == Contenido(q, h)' = Contenido(q, h) /\ (Vivo(q)' => LimpiaDe(q, h)')

SigueTodo == \A q \in Pids : \A h \in Paginas(q) : Sigue(q, h)
Leyo ==
  \/ leido' = leido \/ leido' = Nada
  \/ \E p \in Pids : \E g \in Paginas(p) : leido' = <<p, g, Contenido(p, g)>>
SeBorra(p) ==
  /\ ~Vivo(p)' /\ leido' = leido
  /\ \A q \in Pids : \A h \in Paginas(q) : q # p => Sigue(q, h)
SeEscribe(p, g, d) ==
  /\ LimpiaDe(p, g)' /\ Contenido(p, g)' = d /\ leido' = Nada
  /\ \A q \in Pids : \A h \in Paginas(q) : ~(q = p /\ h = g) => Sigue(q, h)

LEMMA SiguenVivos ==
  ASSUME NEW q \in Pids, NEW h \in Paginas(q), Vivo(q)' = Vivo(q), Vivo(q) => Mantiene(q, h)
  PROVE  Sigue(q, h)
<1>1. CASE Vivo(q)
  BY <1>1 DEF Mantiene, Sigue
<1>2. CASE ~Vivo(q)
  <2>1. ~Vivo(q)'
    BY <1>2
  <2>2. Contenido(q, h)' = Cero /\ Contenido(q, h) = Cero
    BY <1>2, <2>1 DEF Contenido, Vivo
  <2>. QED  BY <2>1, <2>2 DEF Sigue
<1>. QED  BY <1>1, <1>2

\* The steps that leave the page tables, the frames and the swap files alone.
LEMMA SinTocar ==
  ASSUME Limpia, UNCHANGED <<memoria, tablas1, tablas2, swap, tabla>>
  PROVE  SigueTodo
<1>1. /\ \A q \in Pids : \A h \in Paginas(q) : Vivo(q) => Mantiene(q, h)
      /\ \A q \in Pids : Vivo(q)' = Vivo(q)
  BY NadaCambia
<1>2. ASSUME NEW q \in Pids, NEW h \in Paginas(q) PROVE Sigue(q, h)
  BY <1>1, SiguenVivos
<1>. QED  BY <1>2 DEF SigueTodo

LEMMA TodosSiguen ==
  ASSUME \A q \in Pids : \A h \in Paginas(q) : Vivo(q) => Mantiene(q, h),
         \A q \in Pids : Vivo(q)' = Vivo(q)
  PROVE  SigueTodo
<1>1. ASSUME NEW q \in Pids, NEW h \in Paginas(q) PROVE Sigue(q, h)
  BY SiguenVivos
<1>. QED  BY <1>1 DEF SigueTodo

LEMMA KernelDatos ==
  ASSUME IInv, Limpia, NEW p \in Pids,
         Planifica(p) \/ Admite(p) \/ Ejecuta(p) \/ Vuelve(p) \/ Elimina(p) \/ SuspenderPide(p)
  PROVE  (SigueTodo /\ Leyo) \/ SeBorra(p)
<1>1. CASE Planifica(p) \/ Ejecuta(p) \/ Vuelve(p) \/ SuspenderPide(p)
  <2>1. UNCHANGED memoriaVars /\ (leido' = leido \/ leido' = Nada)
    BY <1>1 DEF Planifica, Ejecuta, Despacha, Vuelve, Devuelve, SuspenderPide, mmuVars
  <2>2. UNCHANGED <<memoria, tablas1, tablas2, swap, tabla>>
    BY <2>1 DEF memoriaVars
  <2>. QED  BY <2>1, <2>2, SinTocar DEF Leyo
<1>2. CASE Admite(p)
  <2>1. estado[p] = "new" /\ crear_tablas(p) /\ UNCHANGED leido
    BY <1>2 DEF Admite, K!Admite, K!Pasa, mmuVars
  <2>2. ~Vivo(p)
    BY <2>1 DEF IInv, Nucleo
  <2>3. \A q \in Pids : \A h \in Paginas(q) : Vivo(q)' => Mantiene(q, h)
    BY <2>1, <2>2, CreaDatos
  <2>4. \A q \in Pids : Vivo(q) => Vivo(q)'
    BY <2>1, <2>2, CreaBien DEF IInv, Quieta
  <2>5. ASSUME NEW q \in Pids, NEW h \in Paginas(q) PROVE Sigue(q, h)
    <3>1. CASE Vivo(q)'
      BY <2>3, <3>1 DEF Sigue, Mantiene
    <3>2. CASE ~Vivo(q)'
      <4>1. ~Vivo(q)
        BY <2>4, <3>2
      <4>2. Contenido(q, h)' = Cero /\ Contenido(q, h) = Cero
        BY <3>2, <4>1 DEF Contenido, Vivo
      <4>. QED  BY <3>2, <4>2 DEF Sigue
    <3>. QED  BY <3>1, <3>2
  <2>. QED  BY <2>1, <2>5 DEF SigueTodo, Leyo
<1>3. CASE Elimina(p)
  <2>1. suspende = Nadie /\ eliminar_estructuras(p) /\ UNCHANGED leido
    BY <1>3 DEF Elimina, mmuVars
  <2>2. copiando = Nadie
    BY <2>1 DEF IInv, Nucleo
  <2>3. /\ \A q \in Pids : \A h \in Paginas(q) : q # p /\ Vivo(q) => Mantiene(q, h)
        /\ ~Vivo(p)' /\ \A q \in Pids : q # p => Vivo(q)' = Vivo(q)
    BY <2>1, <2>2, EliminaDatos
  <2>4. ASSUME NEW q \in Pids, NEW h \in Paginas(q), q # p PROVE Sigue(q, h)
    <3>1. Vivo(q)' = Vivo(q) /\ (Vivo(q) => Mantiene(q, h))
      BY <2>3, <2>4
    <3>. QED  BY <3>1, SiguenVivos
  <2>. QED  BY <2>1, <2>3, <2>4 DEF SeBorra
<1>. QED  BY <1>1, <1>2, <1>3

LEMMA SuspenderDatos ==
  ASSUME IInv, Limpia, SuspenderMarco \/ SuspenderFin
  PROVE  SigueTodo /\ Leyo
<1>1. UNCHANGED leido
  BY DEF SuspenderMarco, SuspenderFin, mmuVars
<1>2. CASE SuspenderFin
  <2>1. UNCHANGED <<memoria, tablas1, tablas2, swap, tabla>>
    BY <1>2 DEF SuspenderFin, memoriaVars
  <2>. QED  BY <1>1, <2>1, SinTocar DEF Leyo
<1>3. CASE SuspenderMarco
  <2>1. PICK p \in Pids : p = suspende /\ (suspender_libera(p) \/ suspender_copia(p))
    BY <1>3 DEF SuspenderMarco, IInv, TiposResto
  <2>2. CASE suspender_libera(p)
    <3>1. UNCHANGED <<memoria, tablas1, tablas2, swap, tabla>>
      BY <2>2 DEF suspender_libera, tablasVars
    <3>. QED  BY <1>1, <3>1, SinTocar DEF Leyo
  <2>3. CASE suspender_copia(p)
    <3>1. lista(p) # << >>
      BY <2>3, MemoriaAssumption DEF suspender_copia, IInv, Nucleo
    <3>2. /\ \A q \in Pids : \A h \in Paginas(q) : Vivo(q) => Mantiene(q, h)
          /\ \A q \in Pids : Vivo(q)' = Vivo(q)
      BY <2>3, <3>1, CopiaDatos
    <3>. QED  BY <1>1, <3>2, TodosSiguen DEF Leyo
  <2>. QED  BY <2>1, <2>2, <2>3
<1>. QED  BY <1>2, <1>3

LEMMA PaseoDatos ==
  ASSUME IInv, UnDueno, Limpia, CpuMarcoSolapa, ~solapado'
  PROVE  SigueTodo /\ Leyo
<1>1. PICK p, g, t, i : p = pcb /\ g = instruccion.pag /\ t = nro /\ i = entrada_tabla_2
  OBVIOUS
<1>2. /\ p \in Pids /\ g \in Paginas(p) /\ <<t, i>> = Donde(p, g) /\ pid_actual' = p
      /\ MarcoPresente(t, i) \/ MarcoLibre(p, t, i, g) \/ MarcoReemplazado(p, t, i, g)
  BY <1>1, PaseoDe DEF CpuMarcoSolapa
<1>3. Vivo(p) /\ copiando # p /\ IMem
  BY <1>1, <1>2, DelPcb, MemoriaAssumption DEF IInv
<1>4. \A m \in NrosMarco : SeCopia(m) => ~ocupado'[m]
  BY DEF CpuMarcoSolapa
<1>5. \A q \in Pids : \A h \in Paginas(q) : Vivo(q) => Mantiene(q, h)
  BY <1>2, <1>3, <1>4, MarcoDatos
<1>6. \A q \in Pids : Vivo(q)' = Vivo(q)
  BY <1>2, <1>3, MarcoBien
<1>7. UNCHANGED leido
  BY DEF CpuMarcoSolapa, CpuMarco
<1>. QED  BY <1>5, <1>6, <1>7, TodosSiguen DEF Leyo

LEMMA AccesoDatos ==
  ASSUME IInv, UnDueno, Limpia, CpuLee \/ CpuEscribe
  PROVE  \/ SigueTodo /\ Leyo
         \/ \E p \in Pids : \E g \in Paginas(p) : \E d \in Datos : SeEscribe(p, g, d)
<1>1. PICK p, g : p = pcb /\ g = instruccion.pag
  OBVIOUS
<1>2. p \in Pids /\ g \in Paginas(p) /\ instruccion \in Instrucciones(p)
  BY <1>1, PaginaDeAcceso DEF CpuLee, CpuEscribe
<1>3. CASE CpuLee
  <2>1. fase = "acceso" /\ read_en_memoria(nro)
    BY <1>3 DEF CpuLee
  <2>2. /\ \A q \in Pids : \A h \in Paginas(q) : Vivo(q) => Mantiene(q, h)
        /\ \A q \in Pids : Vivo(q)' = Vivo(q)
    BY <1>1, <2>1, LecturaDatos
  <2>3. memoria[nro] = Contenido(p, g)
    BY <1>1, <2>1, LecturaDatos
  <2>4. leido' = Nada \/ leido' = <<p, g, memoria[nro]>>
    BY <1>1, <1>3 DEF CpuLee
  <2>5. Leyo
    BY <1>2, <2>3, <2>4 DEF Leyo
  <2>. QED  BY <2>2, <2>5, TodosSiguen
<1>4. CASE CpuEscribe
  <2>1. PICK d : d = instruccion.dato
    OBVIOUS
  <2>2. fase = "acceso" /\ write_en_memoria(nro, d) /\ leido' = Nada /\ instruccion.op = "W"
    BY <1>4, <2>1 DEF CpuEscribe
  <2>3. d \in Datos
    BY <1>2, <2>1, <2>2 DEF Instrucciones
  <2>4. /\ \A q \in Pids : \A h \in Paginas(q) : Vivo(q) /\ ~(q = p /\ h = g) => Mantiene(q, h)
        /\ \A q \in Pids : Vivo(q)' = Vivo(q)
        /\ LimpiaDe(p, g)' /\ Contenido(p, g)' = d
    BY <1>1, <2>2, <2>3, EscrituraDatos
  <2>5. ASSUME NEW q \in Pids, NEW h \in Paginas(q), ~(q = p /\ h = g) PROVE Sigue(q, h)
    <3>1. Vivo(q)' = Vivo(q) /\ (Vivo(q) => Mantiene(q, h))
      BY <2>4, <2>5
    <3>. QED  BY <3>1, SiguenVivos
  <2>6. SeEscribe(p, g, d)
    BY <2>2, <2>4, <2>5 DEF SeEscribe
  <2>. QED  BY <1>2, <2>3, <2>6
<1>. QED  BY <1>3, <1>4

LEMMA PasoDatos ==
  ASSUME IInv, UnDueno, Limpia, ~solapado', [Next]_vars
  PROVE  \/ SigueTodo /\ Leyo
         \/ \E p \in Pids : SeBorra(p)
         \/ \E p \in Pids : \E g \in Paginas(p) : \E d \in Datos : SeEscribe(p, g, d)
<1>1. CASE UNCHANGED vars
  <2>1. UNCHANGED <<memoria, tablas1, tablas2, swap, tabla, leido>>
    BY <1>1 DEF vars, memoriaVars, mmuVars
  <2>. QED  BY <2>1, SinTocar DEF Leyo
<1>2. ASSUME NEW p \in Pids,
             Planifica(p) \/ Admite(p) \/ Ejecuta(p) \/ Vuelve(p) \/ Elimina(p) \/ SuspenderPide(p)
      PROVE  (SigueTodo /\ Leyo) \/ SeBorra(p)
  BY <1>2, KernelDatos
<1>3. CASE SuspenderMarco \/ SuspenderFin
  BY <1>3, SuspenderDatos
<1>4. CASE Cpu
  <2>1. CASE CpuCiclo \/ CpuTabla
    <3>1. UNCHANGED <<memoria, tablas1, tablas2, swap, tabla>> /\ (leido' = leido \/ leido' = Nada)
      BY <2>1 DEF CpuCiclo, CpuTabla, obtener_nro_tabla_2do_nivel, memoriaVars
    <3>. QED  BY <3>1, SinTocar DEF Leyo
  <2>2. CASE CpuMarcoSolapa
    BY <2>2, PaseoDatos
  <2>3. CASE CpuLee \/ CpuEscribe
    BY <2>3, AccesoDatos
  <2>. QED  BY <1>4, <2>1, <2>2, <2>3 DEF Cpu
<1>. QED  BY <1>1, <1>2, <1>3, <1>4 DEF Next

LEMMA LimpiaSigue ==
  ASSUME IInv, UnDueno, Limpia, ~solapado', [Next]_vars
  PROVE  Limpia'
<1>1. \A q \in Pids : \A h \in Paginas(q) : Vivo(q)' => LimpiaDe(q, h)'
  <2>1. CASE SigueTodo
    BY <2>1 DEF SigueTodo, Sigue
  <2>2. ASSUME NEW p \in Pids, SeBorra(p)
        PROVE  \A q \in Pids : \A h \in Paginas(q) : Vivo(q)' => LimpiaDe(q, h)'
    BY <2>2 DEF SeBorra, Sigue
  <2>3. ASSUME NEW p \in Pids, NEW g \in Paginas(p), NEW d \in Datos, SeEscribe(p, g, d)
        PROVE  \A q \in Pids : \A h \in Paginas(q) : Vivo(q)' => LimpiaDe(q, h)'
    BY <2>3 DEF SeEscribe, Sigue
  <2>. QED  BY <2>1, <2>2, <2>3, PasoDatos
<1>. QED  BY <1>1 DEF Limpia

\* One owner and clean copies, until a frame that is being copied is taken.
Limpios == ~solapado => Limpia

LEMMA LimpioSiempre == Spec => [](IInv /\ Duenos /\ Limpios)
<1>1. Init => Limpios
  <2>1. Init => \A p \in Pids : ~Vivo(p)
    BY DEF Init, InitMemoria, Vivo
  <2>. QED  BY <2>1 DEF Limpios, Limpia
<1>2. (IInv /\ Duenos /\ Limpios) /\ [Next]_vars => Limpios'
  BY SolapadoSigue, LimpiaSigue DEF Duenos, Limpios
<1>. QED  BY <1>1, <1>2, UnDuenoSiempre, PTL DEF Spec

\* The swap file of a process is right about every page that is not modified, so
\* that a clean page may be taken out of its frame without a copy, until a page fault
\* takes a frame suspender_proceso is copying.
THEOREM LimpiaEnSwapSiempre == Spec => []LimpiaEnSwap
<1>1. Limpios => LimpiaEnSwap
  BY DEF Limpios, Limpia, LimpiaEnSwap, LimpiaDe, Vivo
<1>. QED  BY <1>1, LimpioSiempre, PTL

-----------------------------------------------------------------------------
(* The address space of each process                                       *)

EspacioDe == [p \in Pids |-> [g \in Paginas(p) |-> Contenido(p, g)]]

LEMMA PasoEspacio ==
  ASSUME IInv, UnDueno, Limpia, ~solapado', [Next]_vars
  PROVE  [Virtual!Next]_(Virtual!vars)
<1>1. CASE SigueTodo /\ Leyo
  <2>1. EspacioDe' = EspacioDe
    BY <1>1 DEF SigueTodo, Sigue, EspacioDe
  <2>2. CASE leido' = leido
    BY <2>1, <2>2 DEF Virtual!vars, EspacioDe
  <2>3. CASE leido' = Nada
    <3>1. Virtual!Olvida
      BY <2>1, <2>3 DEF Virtual!Olvida, EspacioDe
    <3>. QED  BY <3>1 DEF Virtual!Next
  <2>4. ASSUME NEW p \in Pids, NEW g \in Paginas(p), leido' = <<p, g, Contenido(p, g)>>
        PROVE  Virtual!Next
    <3>1. Virtual!Lee(p, g)
      BY <2>1, <2>4 DEF Virtual!Lee, EspacioDe
    <3>. QED  BY <3>1 DEF Virtual!Next
  <2>. QED  BY <1>1, <2>2, <2>3, <2>4 DEF Leyo
<1>2. ASSUME NEW p \in Pids, SeBorra(p)
      PROVE  Virtual!Next
  <2>1. \A g \in Paginas(p) : Contenido(p, g)' = Cero
    BY <1>2 DEF SeBorra, Contenido, Vivo
  <2>2. \A q \in Pids : \A h \in Paginas(q) : q # p => Contenido(q, h)' = Contenido(q, h)
    BY <1>2 DEF SeBorra, Sigue
  <2>3. EspacioDe' = [EspacioDe EXCEPT ![p] = [g \in Paginas(p) |-> Cero]]
    BY <2>1, <2>2 DEF EspacioDe
  <2>4. Virtual!Borra(p)
    BY <1>2, <2>3 DEF SeBorra, Virtual!Borra, EspacioDe
  <2>. QED  BY <2>4 DEF Virtual!Next
<1>3. ASSUME NEW p \in Pids, NEW g \in Paginas(p), NEW d \in Datos, SeEscribe(p, g, d)
      PROVE  Virtual!Next
  <2>1. Contenido(p, g)' = d /\ leido' = Nada
    BY <1>3 DEF SeEscribe
  <2>2. \A q \in Pids : \A h \in Paginas(q) : ~(q = p /\ h = g) => Contenido(q, h)' = Contenido(q, h)
    BY <1>3 DEF SeEscribe, Sigue
  <2>3. EspacioDe' = [EspacioDe EXCEPT ![p][g] = d]
    BY <2>1, <2>2 DEF EspacioDe
  <2>4. Virtual!Escribe(p, g, d)
    BY <2>1, <2>3 DEF Virtual!Escribe, EspacioDe
  <2>. QED  BY <2>4 DEF Virtual!Next
<1>. QED  BY <1>1, <1>2, <1>3, PasoDatos

\* Together the frames, the replacement, the swap files, the tables and the TLB
\* give each process an address space of its own, in which a read returns what the
\* last write left, in every step taken until a page fault takes a frame that
\* suspender_proceso has freed and is yet to copy (PaginasSolapa shows what happens
\* then), and whatever reads elsewhere the offsets of READ sent by halves have caused.
THEOREM ImplementaEspacioSiempre == Spec => ImplementaEspacio
<1>1. Init => Virtual!Init
  <2>1. Init => (\A p \in Pids : swap[p] = << >>) /\ leido = Nada
    BY DEF Init, InitMemoria, InitMmu
  <2>. QED  BY <2>1 DEF Virtual!Init, Contenido
<1>2. (IInv /\ Duenos /\ Limpios) /\ [Next]_vars
        => [~solapado' => [Virtual!Next]_(Virtual!vars)]_vars
  BY SolapadoSigue, PasoEspacio DEF Duenos, Limpios
<1>. QED  BY <1>1, <1>2, LimpioSiempre, PTL DEF Spec, ImplementaEspacio
=============================================================================
