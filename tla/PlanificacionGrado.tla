------------------------- MODULE PlanificacionGrado -------------------------
(***************************************************************************)
(* The multiprogramming degree and the diagram of states: that no slot of  *)
(* the degree is lost or invented, that the threads which suspend blocked  *)
(* processes suspend the right process at the right time, and that the     *)
(* threads together implement Estados, under FIFO and under SRT.           *)
(***************************************************************************)
EXTENDS PlanificacionProofs

-----------------------------------------------------------------------------
(* A console's thread is done before its process is planned                *)

\* A process that is past cola_new belongs to a console whose thread is done.
SoloNueva == \A p \in Pids : consola[p] # "fin" => \A l \in Lugares \ {"new"} : p \notin ToSet(En[l])

\* A process leaves cola_new only when its console is done.
SaleDeNew ==
  \/ Quieto
  \/ \E p \in Pids : Entra(En, En', p, "new")
  \/ \E p : Sale(En, En', p, "salida")
  \/ \E p : \E l \in Lugares : \E m \in Lugares \ {"new"} :
       Traslada(p, l, m) /\ (l = "new" => consola[p] = "fin")

LEMMA SoloNuevaPaso ==
  ASSUME SoloNueva, SaleDeNew, \A p \in Pids : consola[p] = "fin" => consola'[p] = "fin"
  PROVE  SoloNueva'
<1>. SUFFICES ASSUME NEW q \in Pids, consola[q] # "fin", NEW k \in Lugares \ {"new"},
                     \A l \in Lugares \ {"new"} : q \notin ToSet(En[l])
              PROVE  q \notin ToSet(En'[k])
  BY DEF SoloNueva
<1>1. CASE Quieto
  BY <1>1 DEF Quieto
<1>2. CASE \E p \in Pids : Entra(En, En', p, "new")
  BY <1>2 DEF Entra
<1>3. CASE \E p : Sale(En, En', p, "salida")
  <2>1. PICK p : Sale(En, En', p, "salida")
    BY <1>3
  <2>2. ToSet(En'[k]) \subseteq ToSet(En[k])
    BY <2>1 DEF Sale, Quita
  <2>. QED  BY <2>2
<1>4. ASSUME NEW p, NEW l \in Lugares, NEW m \in Lugares \ {"new"}, Traslada(p, l, m),
             l = "new" => consola[p] = "fin"
      PROVE  q \notin ToSet(En'[k])
  <2>1. /\ p \in ToSet(En[l]) /\ ToSet(En'[l]) = ToSet(En[l]) \ {p}
        /\ ToSet(En'[m]) = ToSet(En[m]) \cup {p} /\ \A j \in Lugares \ {l, m} : En'[j] = En[j]
    BY <1>4 DEF Traslada, Mueve, Quita, Pone
  <2>2. p # q
    BY <1>4, <2>1
  <2>3. ToSet(En'[k]) \subseteq ToSet(En[k]) \cup {p}
    BY <2>1
  <2>. QED  BY <2>2, <2>3
<1>. QED  BY <1>1, <1>2, <1>3, <1>4 DEF SaleDeNew

LEMMA SoloNuevaPasaje ==
  ASSUME ~RegistroTardio, Unico, UNCHANGED cpuVars, pasaje_a_ready
  PROVE  SaleDeNew /\ consola' = consola
<1>1. \/ Quieto
      \/ Traslada(Head(cola_new), "new", "pasaje") /\ consola[Head(cola_new)] = "fin"
      \/ Traslada(Head(cola_suspended_ready), "sready", "pasaje")
      \/ Traslada(mano["pasaje"], "pasaje", "ready")
  BY LugaresPasaje DEF pasaje_a_ready, PasajeNew
<1>2. {"new", "sready"} \subseteq Lugares /\ {"pasaje", "ready"} \subseteq Lugares \ {"new"}
  BY DEF Lugares, Hilos
<1>3. SaleDeNew
  BY <1>1, <1>2 DEF SaleDeNew
<1>. QED  BY <1>3 DEF pasaje_a_ready, Espera, Postea, PasajeMira, PasajeNew, PasajeSusp, Lista,
            registroVars

LEMMA SoloNuevaExecute ==
  ASSUME Unico, UNCHANGED cpuVars, ready_execute
  PROVE  SaleDeNew /\ consola' = consola
<1>1. \/ Quieto \/ \E p : Traslada(p, "ready", "execute")
      \/ Traslada(mano["execute"], "execute", "dispatch")
  BY LugaresFifo, LugaresSrt, EnviaTraslada DEF ready_execute, fifo_ready_execute, srt_ready_execute
<1>2. SaleDeNew
  BY <1>1 DEF SaleDeNew, Lugares, Hilos
<1>. QED  BY <1>2 DEF ready_execute, fifo_ready_execute, srt_ready_execute, Espera, Postea, Saca,
            ExecuteEnvia, SrtElige, SrtSalta, SrtHayInterrupcion, SrtMira, SrtCpu, SrtInterrumpe,
            SrtOcupa, registroVars

LEMMA SoloNuevaEsperar ==
  ASSUME Unico, UNCHANGED cpuVars, esperar_cpu
  PROVE  SaleDeNew /\ consola' = consola
<1>1. {"retorno", "esperar", "salida", "ready", "blocked"} \subseteq Lugares \ {"new"}
  BY Nombres DEF Lugares
<1>2. \/ Quieto \/ \E p : Traslada(p, "retorno", "esperar")
      \/ Traslada(mano["esperar"], "esperar", "salida")
      \/ Sale(En, En', mano["esperar"], "salida")
      \/ Traslada(mano["esperar"], "esperar", "ready")
      \/ Traslada(mano["esperar"], "esperar", "blocked")
  BY EsperarQuieto, LugaresEsperar, RecibeTraslada DEF esperar_cpu
<1>3. SaleDeNew
  BY <1>1, <1>2 DEF SaleDeNew
<1>. QED  BY <1>3 DEF esperar_cpu, Espera, Postea, EsperarRecibe, EsperarLibera, ExitConsola,
            ExitMemoria, Lista, BlockedLista, BlockedHilo, FinInterrupcion, registroVars

LEMMA SoloNuevaIo ==
  ASSUME Unico, UNCHANGED cpuVars, ejecutar_io
  PROVE  SaleDeNew /\ consola' = consola
<1>1. {"io", "suspendido", "listo", "sready", "ready", "blocked"} \subseteq Lugares \ {"new"}
  BY DEF Lugares, Hilos
<1>2. \/ Quieto
      \/ Traslada(mano["io"], "blocked", "io") \/ Traslada(mano["io"], "io", "suspendido")
      \/ Traslada(mano["io"], "io", "listo") \/ Traslada(mano["io"], "suspendido", "sready")
      \/ Traslada(mano["io"], "listo", "ready")
  BY LugaresIo DEF ejecutar_io
<1>3. SaleDeNew
  BY <1>1, <1>2 DEF SaleDeNew
<1>. QED  BY <1>3 DEF ejecutar_io, Espera, Postea, IoToma, IoTermina, IoIteracion, IoSuspendido,
            IoListo, IoEncola, Lista, registroVars

LEMMA SoloNuevaNext ==
  ASSUME ~RegistroTardio
  PROVE  Unico /\ SoloNueva /\ [Next]_vars => SoloNueva'
<1>. SUFFICES ASSUME Unico, SoloNueva, [Next]_vars PROVE SoloNueva'
  OBVIOUS
<1>1. CASE (\E v \in suspendiendo : hilo_suspendido(v)) /\ UNCHANGED cpuVars
  <2>1. consola' = consola
    BY <1>1 DEF hilo_suspendido, SuspendiendoArranca, SuspendiendoDespierta, SuspendiendoSuelta,
       registroVars
  <2>. QED  BY <1>1, <2>1, LugaresSuspendiendo, SoloNuevaPaso DEF SaleDeNew
<1>2. CASE Cpu
  <2>1. consola' = consola
    BY <1>2 DEF Cpu, NextCpu, CpuMain, CpuRecibe, CpuCiclo, CpuFinRafaga, CpuDevuelve, CpuInterrupcion,
       kernelVars, registroVars
  <2>2. Quieto \/ Traslada(Head(dispatch), "dispatch", "cpu") \/ Traslada(cpuPcb, "cpu", "retorno")
    BY <1>2, LugaresCpu DEF Cpu, NextCpu, CpuMain
  <2>. QED  BY <2>1, <2>2, SoloNuevaPaso DEF SaleDeNew, Lugares
<1>3. CASE MemoriaElimina
  <2>1. consola' = consola
    BY <1>3 DEF MemoriaElimina, kernelVars, registroVars
  <2>. QED  BY <1>3, <2>1, LugaresMemoria, SoloNuevaPaso DEF SaleDeNew
<1>4. CASE UNCHANGED vars
  <2>1. UNCHANGED <<hilo, mano, consola, bajas, En>>
    BY <1>4 DEF vars, kernelVars, registroVars, memVars, colaVars, canalVars, cpuVars, En, Enlazado, PidsDe
  <2>. QED  BY <2>1 DEF SoloNueva
<1>5. ASSUME NEW p \in Pids, procesar_socket(p), UNCHANGED cpuVars
      PROVE  SoloNueva'
  <2>1. \A q \in Pids : consola[q] = "fin" => consola'[q] = "fin"
    BY <1>5 DEF procesar_socket, ConsolaEncola, ConsolaSocket, ConsolaIteracion, ConsolaAvisa, Unico,
       Tipos, TypeOK, TypeKernel, TypeRegistro
  <2>2. SaleDeNew
    BY <1>5, LugaresConsola DEF procesar_socket, SaleDeNew
  <2>. QED  BY <2>1, <2>2, SoloNuevaPaso
<1>. QED  BY <1>1, <1>2, <1>3, <1>4, <1>5, SoloNuevaPaso, SoloNuevaPasaje, SoloNuevaExecute,
          SoloNuevaEsperar, SoloNuevaIo DEF Next, Kernel, NextKernel

LEMMA SoloNuevaInit == Init => SoloNueva
<1>. SUFFICES ASSUME Init PROVE SoloNueva
  OBVIOUS
<1>1. \A p \in Pids : consola[p] = "conectada"
  BY DEF Init, InitKernel
<1>2. Unico
  BY UnicoInit DEF UnicoSalidas
<1>. QED  BY <1>1, <1>2 DEF Unico, SinLlegar, SoloNueva

-----------------------------------------------------------------------------
(* The threads suspendiendo                                                *)

\* The thread may still find its process blocked in the I/O it was created for.
Vigente(v) ==
  v.fase = "arranque" \/ (v.fase = "dormido" /\ v.iter = iteracion_blocked[v.pid])

\* A thread that has not made its first read watches a blocked process whose
\* PCB has not been freed; one that sleeps has read its own process's key, and if
\* the iteration it read is the current one the I/O is not over.
Vigilan ==
  \A v \in suspendiendo :
    /\ v.fase = "arranque" => ~v.liberado /\ v.pid \in ToSet(cola_blocked)
    /\ v.fase = "dormido" =>
         /\ v.clave = v.pid /\ v.iter <= iteracion_blocked[v.pid]
         /\ v.iter = iteracion_blocked[v.pid] =>
              /\ ~v.liberado
              /\ \/ v.pid \in ToSet(cola_blocked)
                 \/ hilo["io"] = "iteracion" /\ v.pid \in ToSet(En["io"])
    /\ consola[v.pid] = "fin"

\* There is one such thread for a process, and none once it is suspended.
UnVigente ==
  /\ \A v, w \in suspendiendo : Vigente(v) /\ Vigente(w) /\ v.pid = w.pid => v = w
  /\ \A v \in suspendiendo : Vigente(v) => v.pid \notin ToSet(cola_suspended_blocked)

\* The process esperar_cpu has listed and has not created the thread of is the
\* last blocked, and nobody watches it.
Listando ==
  hilo["esperar"] = "b_hilo" =>
    /\ cola_blocked # << >> /\ cola_blocked[Len(cola_blocked)] = mano["esperar"]
    /\ mano["esperar"] \notin ToSet(cola_suspended_blocked)
    /\ \A v \in suspendiendo : Vigente(v) => v.pid # mano["esperar"]

Suspendidos ==
  /\ IsInjective(cola_suspended_blocked)
  /\ ToSet(cola_suspended_blocked) \subseteq ToSet(En["blocked"]) \cup ToSet(En["io"])

Vigila == Vigilan /\ UnVigente /\ Listando /\ Suspendidos

LEMMA VigilaTipos ==
  ASSUME Unico, Vigila
  PROVE  /\ suspendiendo \subseteq Vigilantes /\ iteracion_blocked \in [Pids -> Nat]
         /\ cola_blocked \in Seq(Pids) /\ cola_suspended_blocked \in Seq(Pids)
         /\ hilo \in [Hilos -> Etiquetas] /\ Tipos /\ Repartida(En)
         /\ En["blocked"] = cola_blocked
         /\ \A v \in suspendiendo : Vigente(v) =>
              v.pid \in ToSet(En["blocked"]) \cup ToSet(En["io"])
<1>1. Tipos /\ Repartida(En)
  BY DEF Unico
<1>2. /\ suspendiendo \subseteq Vigilantes /\ iteracion_blocked \in [Pids -> Nat]
      /\ cola_blocked \in Seq(Pids) /\ cola_suspended_blocked \in Seq(Pids)
      /\ hilo \in [Hilos -> Etiquetas]
  BY <1>1 DEF Tipos, TypeOK, TypeKernel, TypeColas, TypeRegistro, TypeHilos, TypeSuspendiendo
<1>. QED  BY <1>1, <1>2, EnValores DEF Vigila, Vigilan, Vigente

\* A step that touches neither the threads nor what they look at.
LEMMA VigilaAjeno ==
  ASSUME Vigila, UNCHANGED <<suspendiendo, cola_blocked, cola_suspended_blocked>>,
         \A v \in suspendiendo : /\ iteracion_blocked'[v.pid] = iteracion_blocked[v.pid]
                                /\ consola'[v.pid] = consola[v.pid],
         En'["blocked"] = En["blocked"], En'["io"] = En["io"],
         hilo["io"] = "iteracion" => hilo'["io"] = "iteracion",
         hilo'["esperar"] = "b_hilo" =>
           hilo["esperar"] = "b_hilo" /\ mano'["esperar"] = mano["esperar"]
  PROVE  Vigila'
<1>1. \A v \in suspendiendo : Vigente(v)' <=> Vigente(v)
  BY DEF Vigente
<1>2. Vigilan'
  BY DEF Vigila, Vigilan
<1>3. UnVigente'
  BY <1>1 DEF Vigila, UnVigente
<1>4. Listando'
  BY <1>1 DEF Vigila, Listando
<1>5. Suspendidos'
  BY DEF Vigila, Suspendidos
<1>. QED  BY <1>2, <1>3, <1>4, <1>5 DEF Vigila

LEMMA VigilaOtros ==
  ASSUME Tipos, Vigila,
         UNCHANGED <<suspendiendo, cola_blocked, cola_suspended_blocked, iteracion_blocked, consola>>,
         hilo'["io"] = hilo["io"], mano'["io"] = mano["io"],
         hilo'["esperar"] = "b_hilo" =>
           hilo["esperar"] = "b_hilo" /\ mano'["esperar"] = mano["esperar"]
  PROVE  Vigila'
<1>1. En'["blocked"] = En["blocked"] /\ En'["io"] = En["io"]
  BY DEF En, Lugares, Enlazado
<1>. QED  BY <1>1, VigilaAjeno

LEMMA VigilaPasaje ==
  ASSUME Unico, Vigila, pasaje_a_ready
  PROVE  Vigila'
<1>1. Tipos /\ "pasaje" \in Hilos /\ {"io", "esperar"} \subseteq Hilos \ {"pasaje"}
  BY DEF Unico, Hilos
<1>2. \A h \in {"io", "esperar"} : hilo'[h] = hilo[h] /\ mano'[h] = mano[h]
  BY <1>1, OtrosHilos
  DEF pasaje_a_ready, Espera, Postea, PasajeMira, PasajeNew, PasajeSusp, Lista, Toma, Suelta
<1>3. UNCHANGED <<suspendiendo, cola_blocked, cola_suspended_blocked, iteracion_blocked, consola>>
  BY DEF pasaje_a_ready, Espera, Postea, PasajeMira, PasajeNew, PasajeSusp, Lista, colaVars,
     registroVars
<1>. QED  BY <1>1, <1>2, <1>3, VigilaOtros

\* pcb_destroy frees the PCB of a process nobody watches blocked.
LEMMA VigilaEnvia ==
  ASSUME Unico, Vigila, ExecuteEnvia
  PROVE  Vigila'
<1>0. /\ Tipos /\ "execute" \in Hilos /\ {"io", "esperar"} \subseteq Hilos \ {"execute"}
      /\ {"execute", "blocked", "io"} \subseteq Lugares
  BY DEF Unico, Hilos, Lugares
<1>. DEFINE P == mano["execute"]
<1>1. /\ \A h \in {"io", "esperar"} : hilo'[h] = hilo[h] /\ mano'[h] = mano[h]
      /\ hilo["execute"] = "enviar"
  BY <1>0, OtrosHilos DEF ExecuteEnvia, Suelta
<1>2. UNCHANGED <<cola_blocked, cola_suspended_blocked, iteracion_blocked, consola>>
  BY DEF ExecuteEnvia, colaVars, registroVars
<1>3. En'["blocked"] = En["blocked"] /\ En'["io"] = En["io"]
  BY <1>1, <1>2 DEF En, Lugares, Enlazado
<1>4. \A v \in suspendiendo : v.pid = P => ~Vigente(v)
  <2>1. P \in ToSet(En["execute"])
    BY <1>1, ListaUno, EnValores DEF Enlazado
  <2>2. P \notin ToSet(En["blocked"]) \cup ToSet(En["io"])
    BY <1>0, <2>1 DEF Unico, Repartida
  <2>. QED  BY <2>2, VigilaTipos
<1>5. \A w \in suspendiendo' : \E v \in suspendiendo :
        /\ w.pid = v.pid /\ w.fase = v.fase /\ w.clave = v.clave /\ w.iter = v.iter
        /\ v.pid # P => w = v
  <2>1. suspendiendo' = {IF v.pid = P THEN [v EXCEPT !.liberado = TRUE] ELSE v : v \in suspendiendo}
    BY DEF ExecuteEnvia
  <2>2. suspendiendo \subseteq Vigilantes
    BY VigilaTipos
  <2>. QED  BY <2>1, <2>2 DEF Vigilantes
<1>6. \A w \in suspendiendo' : Vigente(w)' => w \in suspendiendo /\ Vigente(w)
  BY <1>2, <1>4, <1>5 DEF Vigente
<1>7. Vigilan'
  <2>. SUFFICES ASSUME NEW w \in suspendiendo'
                PROVE  /\ w.fase = "arranque" => ~w.liberado /\ w.pid \in ToSet(cola_blocked)
                       /\ w.fase = "dormido" =>
                            /\ w.clave = w.pid /\ w.iter <= iteracion_blocked[w.pid]
                            /\ w.iter = iteracion_blocked[w.pid] =>
                                 /\ ~w.liberado
                                 /\ \/ w.pid \in ToSet(cola_blocked)
                                    \/ hilo["io"] = "iteracion" /\ w.pid \in ToSet(En["io"])
                       /\ consola[w.pid] = "fin"
    BY <1>1, <1>2, <1>3 DEF Vigilan
  <2>1. w.fase = "arranque" => w \in suspendiendo
    BY <1>6 DEF Vigente
  <2>2. w.fase = "dormido" /\ w.iter = iteracion_blocked[w.pid] => w \in suspendiendo
    BY <1>2, <1>6 DEF Vigente
  <2>3. PICK v \in suspendiendo : w.pid = v.pid /\ w.fase = v.fase /\ w.clave = v.clave /\ w.iter = v.iter
    BY <1>5
  <2>. QED  BY <2>1, <2>2, <2>3 DEF Vigila, Vigilan
<1>8. UnVigente'
  BY <1>2, <1>6 DEF Vigila, UnVigente
<1>9. Listando'
  BY <1>1, <1>2, <1>6 DEF Vigila, Listando
<1>10. Suspendidos'
  BY <1>2, <1>3 DEF Vigila, Suspendidos
<1>. QED  BY <1>7, <1>8, <1>9, <1>10 DEF Vigila

LEMMA VigilaExecute ==
  ASSUME Unico, Vigila, ready_execute
  PROVE  Vigila'
<1>1. Tipos /\ "execute" \in Hilos /\ {"io", "esperar"} \subseteq Hilos \ {"execute"}
  BY DEF Unico, Hilos
<1>2. CASE ExecuteEnvia
  BY <1>2, VigilaEnvia
<1>3. CASE ~ExecuteEnvia
  <2>1. \A h \in {"io", "esperar"} : hilo'[h] = hilo[h] /\ mano'[h] = mano[h]
    BY <1>1, <1>3, OtrosHilos DEF ready_execute, fifo_ready_execute, srt_ready_execute, Espera, Postea,
       Saca, SrtElige, SrtSalta, SrtHayInterrupcion, SrtMira, SrtCpu, SrtInterrumpe, SrtOcupa, Toma
  <2>2. UNCHANGED <<suspendiendo, cola_blocked, cola_suspended_blocked, iteracion_blocked, consola>>
    BY <1>3 DEF ready_execute, fifo_ready_execute, srt_ready_execute, Espera, Postea, Saca, SrtElige,
       SrtSalta, SrtHayInterrupcion, SrtMira, SrtCpu, SrtInterrumpe, SrtOcupa, colaVars, registroVars
  <2>. QED  BY <1>1, <2>1, <2>2, VigilaOtros
<1>. QED  BY <1>2, <1>3

\* The process esperar_cpu lists is watched by nobody.
LEMMA VigilaLista ==
  ASSUME Unico, Vigila, BlockedLista
  PROVE  Vigila'
<1>0. /\ Tipos /\ "esperar" \in Hilos /\ "io" \in Hilos \ {"esperar"}
      /\ {"esperar", "blocked", "io"} \subseteq Lugares
  BY DEF Unico, Hilos, Lugares
<1>. DEFINE P == mano["esperar"]
<1>1. /\ hilo'["io"] = hilo["io"] /\ mano' = mano /\ hilo["esperar"] = "b_listar"
      /\ cola_blocked' = Append(cola_blocked, P)
      /\ UNCHANGED <<suspendiendo, cola_suspended_blocked, iteracion_blocked, consola>>
  BY <1>0, OtrosHilos DEF BlockedLista, registroVars
<1>2. P \in Pids /\ P \in ToSet(En["esperar"])
  BY <1>0, <1>1, ListaUno, EnValores DEF Enlazado, Tipos, Manos, ConProceso
<1>3. P \notin ToSet(En["blocked"]) \cup ToSet(En["io"])
  BY <1>0, <1>2 DEF Unico, Repartida
<1>4. /\ cola_blocked \in Seq(Pids) /\ ToSet(cola_blocked') = ToSet(cola_blocked) \cup {P}
      /\ cola_blocked' # << >> /\ cola_blocked'[Len(cola_blocked')] = P
  <2>1. cola_blocked \in Seq(Pids)
    BY VigilaTipos
  <2>2. /\ cola_blocked' \in Seq(Pids) /\ Len(cola_blocked') = Len(cola_blocked) + 1
        /\ ToSet(cola_blocked') = ToSet(cola_blocked) \cup {P}
    BY <1>1, <1>2, <2>1, ListaAgrega
  <2>3. cola_blocked'[Len(cola_blocked) + 1] = P /\ cola_blocked' # << >>
    BY <1>1, <1>2, <2>1, AppendProperties
  <2>. QED  BY <2>1, <2>2, <2>3
<1>5. En'["io"] = En["io"] /\ En["blocked"] = cola_blocked /\ En'["blocked"] = cola_blocked'
  BY <1>1 DEF En, Lugares, Enlazado
<1>6. \A v \in suspendiendo : (Vigente(v)' <=> Vigente(v)) /\ (Vigente(v) => v.pid # P)
  BY <1>1, <1>3, VigilaTipos DEF Vigente
<1>7. Vigilan' /\ UnVigente' /\ Suspendidos'
  BY <1>1, <1>4, <1>5, <1>6 DEF Vigila, Vigilan, UnVigente, Suspendidos
<1>8. P \notin ToSet(cola_suspended_blocked)
  BY <1>3 DEF Vigila, Suspendidos
<1>9. Listando'
  BY <1>1, <1>4, <1>6, <1>8 DEF Listando
<1>. QED  BY <1>7, <1>9 DEF Vigila

\* The thread esperar_cpu creates is the only one that watches its process.
LEMMA VigilaHilo ==
  ASSUME Unico, SoloNueva, Vigila, BlockedHilo
  PROVE  Vigila'
<1>0. /\ Tipos /\ "esperar" \in Hilos /\ "io" \in Hilos \ {"esperar"}
      /\ "blocked" \in Lugares \ {"new"}
  BY DEF Unico, Hilos, Lugares
<1>. DEFINE P == mano["esperar"]
            w == [pid |-> P, nro |-> pc[P], fase |-> "arranque", clave |-> Nadie, iter |-> 0,
                  liberado |-> FALSE]
<1>1. /\ hilo'["io"] = hilo["io"] /\ mano'["io"] = mano["io"] /\ hilo["esperar"] = "b_hilo"
      /\ hilo'["esperar"] = "b_blocked" /\ suspendiendo' = suspendiendo \cup {w}
      /\ UNCHANGED <<cola_blocked, cola_suspended_blocked, iteracion_blocked, consola>>
  BY <1>0, OtrosHilos DEF BlockedHilo, Suelta, colaVars, registroVars
<1>2. w.pid = P /\ w.fase = "arranque" /\ ~w.liberado
  OBVIOUS
<1>. HIDE DEF w
<1>3. /\ P \in ToSet(cola_blocked) /\ P \in Pids /\ P \notin ToSet(cola_suspended_blocked)
      /\ \A v \in suspendiendo : Vigente(v) => v.pid # P
  <2>1. cola_blocked \in Seq(Pids) /\ cola_blocked # << >> /\ cola_blocked[Len(cola_blocked)] = P
    BY <1>1, VigilaTipos DEF Vigila, Listando
  <2>2. Len(cola_blocked) \in 1 .. Len(cola_blocked)
    BY <2>1, EmptySeq
  <2>. QED  BY <1>1, <2>1, <2>2, ToSetPosiciones DEF Vigila, Listando
<1>4. consola[P] = "fin"
  BY <1>0, <1>3, EnValores DEF SoloNueva
<1>5. En'["io"] = En["io"] /\ En'["blocked"] = En["blocked"]
  BY <1>1 DEF En, Lugares, Enlazado
<1>6. \A v \in suspendiendo : Vigente(v)' <=> Vigente(v)
  BY <1>1 DEF Vigente
<1>7. Vigilan'
  BY <1>1, <1>2, <1>3, <1>4, <1>5 DEF Vigila, Vigilan
<1>8. UnVigente'
  BY <1>1, <1>2, <1>3, <1>6 DEF Vigila, UnVigente
<1>9. Listando' /\ Suspendidos'
  BY <1>1, <1>5 DEF Vigila, Listando, Suspendidos
<1>. QED  BY <1>7, <1>8, <1>9 DEF Vigila

LEMMA VigilaEsperar ==
  ASSUME Unico, SoloNueva, Vigila, esperar_cpu
  PROVE  Vigila'
<1>1. Tipos /\ "esperar" \in Hilos /\ "io" \in Hilos \ {"esperar"}
  BY DEF Unico, Hilos
<1>2. CASE BlockedLista \/ BlockedHilo
  BY <1>2, VigilaLista, VigilaHilo
<1>3. CASE ~(BlockedLista \/ BlockedHilo)
  <2>1. hilo'["io"] = hilo["io"] /\ mano'["io"] = mano["io"]
    BY <1>1, <1>3, OtrosHilos DEF esperar_cpu, Espera, Postea, EsperarRecibe, EsperarLibera, ExitConsola,
       ExitMemoria, Lista, FinInterrupcion, Toma, Suelta
  <2>2. hilo'["esperar"] # "b_hilo"
    <3>1. CASE EsperarRecibe
      <4>1. retorno \in Seq(Retornos \X Pids)
        BY <1>1 DEF Tipos, TypeOK, TypeCanales
      <4>2. Head(retorno) \in Retornos \X Pids
        BY <3>1, <4>1, HeadTailProperties DEF EsperarRecibe
      <4>3. hilo'["esperar"] = Head(retorno)[1]
        BY <1>1, <3>1, VigilaTipos DEF EsperarRecibe, Va
      <4>. QED  BY <4>2, <4>3 DEF Retornos
    <3>2. CASE ~EsperarRecibe
      BY <1>1, <1>3, <3>2, OtrosHilos DEF esperar_cpu, Espera, Postea, EsperarLibera, ExitConsola,
         ExitMemoria, Lista, FinInterrupcion, Suelta
    <3>. QED  BY <3>1, <3>2
  <2>3. UNCHANGED <<suspendiendo, cola_blocked, cola_suspended_blocked, iteracion_blocked, consola>>
    BY <1>3 DEF esperar_cpu, Espera, Postea, EsperarRecibe, EsperarLibera, ExitConsola, ExitMemoria,
       Lista, FinInterrupcion, colaVars, registroVars
  <2>. QED  BY <1>1, <2>1, <2>2, <2>3, VigilaOtros
<1>. QED  BY <1>2, <1>3

\* A thread that reads its process's iteration reads that of the I/O it was
\* created for, and the one that suspends its process finds it in that I/O.
LEMMA VigilaSuspendiendo ==
  ASSUME Unico, Vigila, NEW v \in suspendiendo, hilo_suspendido(v), UNCHANGED cpuVars
  PROVE  Vigila'
<1>0. /\ suspendiendo \subseteq Vigilantes /\ iteracion_blocked \in [Pids -> Nat] /\ v \in Vigilantes
      /\ cola_suspended_blocked \in Seq(Pids)
  BY VigilaTipos
<1>1. UNCHANGED <<hilo, mano, cola_blocked, iteracion_blocked, consola>>
  BY DEF hilo_suspendido, SuspendiendoArranca, SuspendiendoDespierta, SuspendiendoSuelta, colaVars,
     registroVars
<1>2. En'["io"] = En["io"] /\ En'["blocked"] = En["blocked"] /\ En["blocked"] = cola_blocked
  BY <1>1 DEF En, Lugares, Enlazado
<1>3. \A w \in suspendiendo : Vigente(w)' <=> Vigente(w)
  BY <1>1 DEF Vigente
<1>4. CASE SuspendiendoArranca(v)
  <2>. DEFINE u == [v EXCEPT !.fase = "dormido", !.clave = v.pid, !.iter = iteracion_blocked[v.pid]]
  <2>1. v.fase = "arranque" /\ Vigente(v) /\ ~v.liberado /\ v.pid \in ToSet(cola_blocked) /\ v.pid \in Pids
    BY <1>0, <1>4 DEF SuspendiendoArranca, Vigila, Vigilan, Vigente, Vigilantes
  <2>2. suspendiendo' = (suspendiendo \ {v}) \cup {u} /\ UNCHANGED cola_suspended_blocked
    BY <1>4, <2>1 DEF SuspendiendoArranca, PidLeido, CambiaVigilante, colaVars
  <2>3. /\ u.pid = v.pid /\ u.fase = "dormido" /\ u.clave = v.pid /\ u.liberado = v.liberado
        /\ u.iter = iteracion_blocked[v.pid]
    BY <1>0, <2>1 DEF Vigilantes
  <2>. HIDE DEF u
  <2>4. Vigilan'
    BY <1>0, <1>1, <1>2, <2>1, <2>2, <2>3 DEF Vigila, Vigilan
  <2>5. UnVigente'
    BY <1>3, <2>1, <2>2, <2>3 DEF Vigila, UnVigente
  <2>6. Listando' /\ Suspendidos'
    BY <1>1, <1>2, <1>3, <2>1, <2>2, <2>3 DEF Vigila, Listando, Suspendidos
  <2>. QED  BY <2>4, <2>5, <2>6 DEF Vigila
<1>5. ASSUME suspendiendo' = suspendiendo \ {v}, UNCHANGED cola_suspended_blocked PROVE Vigila'
  <2>1. Vigilan'
    BY <1>1, <1>2, <1>5 DEF Vigila, Vigilan
  <2>2. UnVigente' /\ Listando' /\ Suspendidos'
    BY <1>1, <1>2, <1>3, <1>5 DEF Vigila, UnVigente, Listando, Suspendidos
  <2>. QED  BY <2>1, <2>2 DEF Vigila
<1>6. CASE SuspendiendoSuelta(v)
  <2>1. suspendiendo' = suspendiendo \ {v} /\ UNCHANGED cola_suspended_blocked
    BY <1>6 DEF SuspendiendoSuelta, CambiaVigilante, colaVars
  <2>. QED  BY <1>5, <2>1
<1>7. ASSUME SuspendiendoDespierta(v), NEW l \in PidLeido(v), DebeSuspender(v, l),
             cola_suspended_blocked' = Append(cola_suspended_blocked, l),
             memoria' = [memoria EXCEPT ![l] = "tablas"],
             CambiaVigilante(v, {[v EXCEPT !.fase = "soltar"]})
      PROVE  Vigila'
  <2>. DEFINE u == [v EXCEPT !.fase = "soltar"]
  <2>1. v.fase = "dormido" /\ v.clave = v.pid /\ v.pid \in Pids
    BY <1>0, <1>7 DEF SuspendiendoDespierta, Vigila, Vigilan, Vigilantes
  <2>2. Vigente(v) /\ ~v.liberado
    BY <1>7, <2>1 DEF DebeSuspender, Vigente, Vigila, Vigilan
  <2>3. l = v.pid /\ l \in ToSet(cola_blocked)
    BY <1>7, <2>2 DEF PidLeido, DebeSuspender
  <2>4. l \notin ToSet(cola_suspended_blocked)
    BY <2>2, <2>3 DEF Vigila, UnVigente
  <2>5. /\ ToSet(cola_suspended_blocked') = ToSet(cola_suspended_blocked) \cup {l}
        /\ IsInjective(cola_suspended_blocked')
    BY <1>0, <1>7, <2>1, <2>3, <2>4, ListaAgrega DEF Vigila, Suspendidos
  <2>6. suspendiendo' = (suspendiendo \ {v}) \cup {u}
    BY <1>7 DEF CambiaVigilante
  <2>7. u.pid = v.pid /\ u.fase = "soltar"
    BY <1>0 DEF Vigilantes
  <2>. HIDE DEF u
  <2>8. \A w \in suspendiendo' : Vigente(w)' => w \in suspendiendo \ {v} /\ Vigente(w)
    BY <1>3, <2>6, <2>7 DEF Vigente
  <2>9. \A w \in suspendiendo' : Vigente(w)' => w.pid # l
    BY <2>2, <2>3, <2>8 DEF Vigila, UnVigente
  <2>10. Vigilan'
    BY <1>1, <1>2, <2>6, <2>7 DEF Vigila, Vigilan
  <2>11. UnVigente'
    BY <2>5, <2>8, <2>9 DEF Vigila, UnVigente
  <2>12. Listando' /\ Suspendidos'
    BY <1>1, <1>2, <2>2, <2>3, <2>5, <2>8 DEF Vigila, Listando, Suspendidos
  <2>. QED  BY <2>10, <2>11, <2>12 DEF Vigila
<1>8. CASE SuspendiendoDespierta(v)
  <2>1. PICK l \in PidLeido(v) :
          \/ /\ DebeSuspender(v, l)
             /\ cola_suspended_blocked' = Append(cola_suspended_blocked, l)
             /\ memoria' = [memoria EXCEPT ![l] = "tablas"]
             /\ CambiaVigilante(v, {[v EXCEPT !.fase = "soltar"]})
          \/ suspendiendo' = suspendiendo \ {v} /\ UNCHANGED cola_suspended_blocked
    BY <1>8 DEF SuspendiendoDespierta, CambiaVigilante
  <2>. QED  BY <1>5, <1>7, <1>8, <2>1
<1>. QED  BY <1>4, <1>6, <1>8 DEF hilo_suspendido

LEMMA VigilaTermina ==
  ASSUME ~ArranqueTardio, Unico, Bloqueada, Vigila, IoTermina
  PROVE  Vigila'
<1>0. /\ Tipos /\ "io" \in Hilos /\ "esperar" \in Hilos \ {"io"} /\ cola_blocked \in Seq(Pids)
      /\ "blocked" \in Lugares /\ sem["s_blocked"] \in Nat
  BY VigilaTipos, ColasTipos DEF Hilos, Lugares
<1>. DEFINE P == mano["io"]
<1>1. /\ hilo'["esperar"] = hilo["esperar"] /\ mano' = mano
      /\ hilo["io"] = "dormir" /\ hilo'["io"] = "iteracion"
      /\ cola_blocked # << >> /\ cola_blocked' = Tail(cola_blocked)
      /\ UNCHANGED <<suspendiendo, cola_suspended_blocked, iteracion_blocked, consola>>
      /\ \A v \in suspendiendo : v.pid = P => v.fase # "arranque"
  BY <1>0, OtrosHilos DEF IoTermina, registroVars
<1>2. Head(cola_blocked) = P
  BY <1>1 DEF Unico, Servido
<1>3. ToSet(cola_blocked') = ToSet(cola_blocked) \ {P} /\ P \in ToSet(cola_blocked)
  <2>1. IsInjective(cola_blocked)
    BY <1>0, EnValores DEF Unico, Repartida
  <2>. QED  BY <1>0, <1>1, <1>2, <2>1, ListaPrimero
<1>4. ToSet(En["io"]) = {} /\ ToSet(En'["io"]) = {P} /\ En'["blocked"] = cola_blocked'
  BY <1>1, ListaVacia, ListaUno DEF En, Lugares, Enlazado
<1>5. \A v \in suspendiendo : Vigente(v)' <=> Vigente(v)
  BY <1>1 DEF Vigente
<1>6. Vigilan'
  BY <1>1, <1>3, <1>4 DEF Vigila, Vigilan
<1>7. UnVigente'
  BY <1>1, <1>5 DEF Vigila, UnVigente
<1>8. Suspendidos'
  BY <1>1, <1>3, <1>4, EnValores DEF Vigila, Suspendidos
<1>9. Listando'
  <2>. SUFFICES ASSUME hilo["esperar"] = "b_hilo"
                PROVE  cola_blocked' # << >> /\ cola_blocked'[Len(cola_blocked')] = mano["esperar"]
    BY <1>1, <1>5 DEF Vigila, Listando
  <2>1. Len(cola_blocked) >= 2
    BY <1>0, <1>1 DEF Bloqueada, Uno
  <2>2. cola_blocked[Len(cola_blocked)] = mano["esperar"]
    BY DEF Vigila, Listando
  <2>3. /\ cola_blocked' \in Seq(Pids) /\ Len(cola_blocked') = Len(cola_blocked) - 1
        /\ \A i \in 1 .. Len(cola_blocked') : cola_blocked'[i] = cola_blocked[i + 1]
    BY <1>0, <1>1, HeadTailProperties
  <2>4. Len(cola_blocked') \in 1 .. Len(cola_blocked') /\ Len(cola_blocked') + 1 = Len(cola_blocked)
    BY <1>0, <2>1, <2>3
  <2>. QED  BY <2>2, <2>3, <2>4
<1>. QED  BY <1>6, <1>7, <1>8, <1>9 DEF Vigila

\* Once the iteration is counted, the threads of the I/O that ended are stale.
LEMMA VigilaIteracion ==
  ASSUME Unico, Vigila, IoIteracion
  PROVE  Vigila'
<1>0. /\ Tipos /\ "io" \in Hilos /\ "esperar" \in Hilos \ {"io"} /\ {"blocked", "io"} \subseteq Lugares
      /\ iteracion_blocked \in [Pids -> Nat] /\ suspendiendo \subseteq Vigilantes
      /\ En["blocked"] = cola_blocked
  BY VigilaTipos DEF Hilos, Lugares
<1>. DEFINE P == mano["io"]
<1>1. /\ hilo'["esperar"] = hilo["esperar"] /\ mano' = mano
      /\ hilo["io"] = "iteracion" /\ hilo'["io"] = "clasificar"
      /\ iteracion_blocked' = [iteracion_blocked EXCEPT ![P] = @ + 1]
      /\ UNCHANGED <<suspendiendo, cola_blocked, cola_suspended_blocked, consola>>
  BY <1>0, OtrosHilos DEF IoIteracion, colaVars
<1>2. P \in Pids /\ ToSet(En["io"]) = {P} /\ En'["io"] = En["io"] /\ En'["blocked"] = En["blocked"]
  BY <1>0, <1>1, ListaUno DEF En, Lugares, Enlazado, Tipos, Manos, ConProceso
<1>3. P \notin ToSet(cola_blocked)
  BY <1>0, <1>2 DEF Unico, Repartida
<1>4. \A v \in suspendiendo :
        /\ v.pid # P => iteracion_blocked'[v.pid] = iteracion_blocked[v.pid]
        /\ v.pid = P => iteracion_blocked'[v.pid] = iteracion_blocked[P] + 1
  BY <1>0, <1>1, <1>2 DEF Vigilantes
<1>5. \A v \in suspendiendo : v.pid = P /\ v.fase = "dormido" =>
        v.iter < iteracion_blocked[P] + 1 /\ v.iter # iteracion_blocked[P] + 1
  <2>1. \A v \in suspendiendo : v.iter \in Nat
    BY <1>0 DEF Vigilantes
  <2>. QED  BY <1>0, <1>2, <2>1 DEF Vigila, Vigilan
<1>6. \A v \in suspendiendo : Vigente(v)' => Vigente(v) /\ v.pid # P
  BY <1>1, <1>3, <1>4, <1>5 DEF Vigente, Vigila, Vigilan
<1>7. Vigilan'
  <2>1. \A v \in suspendiendo : iteracion_blocked[v.pid] \in Nat /\ v.iter \in Nat
    BY <1>0 DEF Vigilantes
  <2>2. \A v \in suspendiendo : v.fase = "dormido" => v.iter <= iteracion_blocked'[v.pid]
    BY <1>4, <1>5, <2>1 DEF Vigila, Vigilan
  <2>3. \A v \in suspendiendo : v.fase = "dormido" /\ v.iter = iteracion_blocked'[v.pid] =>
          ~v.liberado /\ v.pid \in ToSet(cola_blocked)
    BY <1>1, <1>2, <1>4, <1>5 DEF Vigila, Vigilan
  <2>. QED  BY <1>1, <2>2, <2>3 DEF Vigila, Vigilan
<1>8. UnVigente'
  BY <1>1, <1>6 DEF Vigila, UnVigente
<1>9. Listando' /\ Suspendidos'
  BY <1>1, <1>2, <1>6 DEF Vigila, Listando, Suspendidos
<1>. QED  BY <1>7, <1>8, <1>9 DEF Vigila

LEMMA VigilaIo ==
  ASSUME ~ArranqueTardio, Unico, Bloqueada, Vigila, ejecutar_io
  PROVE  Vigila'
<1>0. /\ Tipos /\ "io" \in Hilos /\ "esperar" \in Hilos \ {"io"}
      /\ suspendiendo \subseteq Vigilantes /\ cola_suspended_blocked \in Seq(Pids)
  BY VigilaTipos DEF Hilos
<1>1. CASE IoTermina \/ IoIteracion
  BY <1>1, VigilaTermina, VigilaIteracion
<1>2. CASE IoSuspendido \/ IoListo
  <2>1. /\ hilo'["esperar"] = hilo["esperar"] /\ mano' = mano
        /\ hilo["io"] = "clasificar" /\ hilo'["io"] \in {"suspendido", "listo"}
        /\ UNCHANGED <<suspendiendo, cola_blocked, iteracion_blocked, consola>>
    BY <1>0, <1>2, OtrosHilos DEF IoSuspendido, IoListo, colaVars, registroVars
  <2>2. /\ ToSet(En["io"]) = {mano["io"]} /\ ToSet(En'["io"]) = {} /\ En["blocked"] = cola_blocked
        /\ En'["blocked"] = cola_blocked
    BY <2>1, ListaUno, ListaVacia DEF En, Lugares, Enlazado
  <2>3. /\ ToSet(cola_suspended_blocked') = ToSet(cola_suspended_blocked) \ {mano["io"]}
        /\ IsInjective(cola_suspended_blocked')
    <3>1. CASE IoSuspendido
      BY <1>0, <3>1, ListaSaca DEF IoSuspendido, Vigila, Suspendidos
    <3>2. CASE IoListo
      BY <3>2 DEF IoListo, colaVars, Vigila, Suspendidos
    <3>. QED  BY <1>2, <3>1, <3>2
  <2>4. \A v \in suspendiendo : Vigente(v)' <=> Vigente(v)
    BY <2>1 DEF Vigente
  <2>5. Vigilan'
    BY <2>1, <2>2 DEF Vigila, Vigilan
  <2>6. UnVigente' /\ Listando'
    BY <2>1, <2>3, <2>4 DEF Vigila, UnVigente, Listando
  <2>7. Suspendidos'
    BY <2>2, <2>3 DEF Vigila, Suspendidos
  <2>. QED  BY <2>5, <2>6, <2>7 DEF Vigila
<1>3. CASE ~(IoTermina \/ IoIteracion \/ IoSuspendido \/ IoListo)
  <2>1. hilo'["esperar"] = hilo["esperar"] /\ mano'["esperar"] = mano["esperar"]
    BY <1>0, <1>3, OtrosHilos DEF ejecutar_io, Espera, Postea, IoToma, IoEncola, Lista, Toma, Suelta
  <2>2. /\ hilo["io"] \notin {"iteracion", "clasificar"}
        /\ hilo'["io"] \notin {"iteracion", "clasificar"}
    BY <1>0, <1>3, OtrosHilos DEF ejecutar_io, Espera, Postea, IoToma, IoEncola, Lista, Toma, Suelta
  <2>3. UNCHANGED <<suspendiendo, cola_blocked, cola_suspended_blocked, iteracion_blocked, consola>>
    BY <1>3 DEF ejecutar_io, Espera, Postea, IoToma, IoEncola, Lista, colaVars, registroVars
  <2>4. En'["blocked"] = En["blocked"] /\ En'["io"] = En["io"]
    BY <2>2, <2>3 DEF En, Lugares, Enlazado
  <2>. QED  BY <2>1, <2>2, <2>3, <2>4, VigilaAjeno
<1>. QED  BY <1>1, <1>2, <1>3

LEMMA VigilaConsola ==
  ASSUME Unico, Vigila, NEW p \in Pids, procesar_socket(p), UNCHANGED cpuVars
  PROVE  Vigila'
<1>0. /\ consola \in [Pids -> EtiquetasConsola] /\ iteracion_blocked \in [Pids -> Nat]
      /\ suspendiendo \subseteq Vigilantes
  BY VigilaTipos DEF Unico, Tipos, TypeOK, TypeKernel, TypeRegistro
<1>1. UNCHANGED <<hilo, mano, suspendiendo, cola_blocked, cola_suspended_blocked>>
  BY DEF procesar_socket, ConsolaEncola, ConsolaSocket, ConsolaIteracion, ConsolaAvisa, colaVars
<1>2. \A v \in suspendiendo : v.pid # p
  BY <1>0 DEF procesar_socket, ConsolaEncola, ConsolaSocket, ConsolaIteracion, ConsolaAvisa, Vigila, Vigilan
<1>3. \A v \in suspendiendo : /\ iteracion_blocked'[v.pid] = iteracion_blocked[v.pid]
                             /\ consola'[v.pid] = consola[v.pid]
  BY <1>0, <1>2 DEF procesar_socket, ConsolaEncola, ConsolaSocket, ConsolaIteracion, ConsolaAvisa,
     Vigilantes
<1>4. En'["blocked"] = En["blocked"] /\ En'["io"] = En["io"]
  BY <1>1 DEF En, Lugares, Enlazado
<1>. QED  BY <1>1, <1>3, <1>4, VigilaAjeno

LEMMA VigilaNext ==
  ASSUME ~ArranqueTardio
  PROVE  Unico /\ Bloqueada /\ SoloNueva /\ Vigila /\ [Next]_vars => Vigila'
<1>. SUFFICES ASSUME Unico, Bloqueada, SoloNueva, Vigila, [Next]_vars PROVE Vigila'
  OBVIOUS
<1>1. CASE Cpu \/ MemoriaElimina \/ UNCHANGED vars
  <2>1. UNCHANGED <<hilo, mano, suspendiendo, cola_blocked, cola_suspended_blocked, iteracion_blocked,
                    consola>>
    BY <1>1 DEF Cpu, MemoriaElimina, vars, kernelVars, colaVars, registroVars
  <2>2. Tipos
    BY DEF Unico
  <2>. QED  BY <2>1, <2>2, VigilaOtros
<1>. QED  BY <1>1, VigilaPasaje, VigilaExecute, VigilaEsperar, VigilaIo, VigilaSuspendiendo, VigilaConsola
          DEF Next, Kernel, NextKernel

LEMMA VigilaInit == Init => Vigila
<1>. SUFFICES ASSUME Init PROVE Vigila
  OBVIOUS
<1>1. suspendiendo = {} /\ cola_suspended_blocked = << >> /\ hilo["esperar"] = "esperar"
  BY DEF Init, InitKernel, Hilos
<1>. QED  BY <1>1, ListaVacia DEF Vigila, Vigilan, UnVigente, Listando, Suspendidos

\* What the degree and the suspensions rest on.
Vigilado == UnicoSalidas /\ Colas /\ SoloNueva /\ Vigila

LEMMA VigiladoInit == Init => Vigilado
BY UnicoInit, ColasInit, SoloNuevaInit, VigilaInit DEF Vigilado

LEMMA VigiladoNext ==
  ASSUME ~ArranqueTardio, ~RegistroTardio
  PROVE  Vigilado /\ [Next]_vars => Vigilado'
BY UnicoNext, ColasNext, SoloNuevaNext, VigilaNext DEF Vigilado, UnicoSalidas, Colas

\* cola_suspended_blocked lists a process at most once and only while its I/O
\* lasts, so that esta_suspendido never finds an entry of an earlier I/O, if each
\* thread suspendiendo makes its first read before the I/O it watches ends.
THEOREM SuspendidosCorrecto ==
  ASSUME ~ArranqueTardio, ~RegistroTardio
  PROVE  Spec => []SuspendidosBloqueados
<1>1. Vigilado => SuspendidosBloqueados
  BY EnValores DEF Vigilado, Vigila, Suspendidos, SuspendidosBloqueados, Bloqueados
<1>. QED  BY <1>1, VigiladoInit, VigiladoNext, PTL DEF Spec

-----------------------------------------------------------------------------
(* Two threads of one process are told apart by the burst they end         *)

\* The processes that have executed an instruction since they were last
\* dispatched.
Corridos ==
  ToSet(En["retorno"]) \cup ToSet(En["esperar"])
    \cup {p \in {cpuPcb} : cpuFase \in {"fin", "devolver"}}
    \cup {p \in {mano["esperar"]} : hilo["esperar"] = "b_hilo"}

\* The threads of a process were created at the end of different bursts, so that
\* two of them are never the same element of suspendiendo.
Rafagueo ==
  /\ IsFiniteSet(suspendiendo)
  /\ \A v \in suspendiendo :
       v.nro <= pc[v.pid] /\ (v.pid \in Corridos => v.nro < pc[v.pid])
  /\ \A v, w \in suspendiendo : v.pid = w.pid /\ v.nro = w.nro => v = w

LEMMA RafagueoAjeno ==
  ASSUME Rafagueo, UNCHANGED <<suspendiendo, pc>>, Corridos' \subseteq Corridos
  PROVE  Rafagueo'
BY DEF Rafagueo

LEMMA CorridosQuietos ==
  ASSUME UNCHANGED <<retorno, cpuPcb, cpuFase>>,
         hilo'["esperar"] = hilo["esperar"], mano'["esperar"] = mano["esperar"]
  PROVE  Corridos' = Corridos
<1>1. En'["retorno"] = En["retorno"] /\ En'["esperar"] = En["esperar"]
  BY DEF En, Lugares, Enlazado, PidsDe
<1>. QED  BY <1>1 DEF Corridos

\* What keeps a finite set finite and its size: a change of its elements that
\* tells them apart.
LEMMA CardinalImagen ==
  ASSUME NEW S, IsFiniteSet(S), NEW T, NEW f \in [S -> T],
         \A x, y \in S : f[x] = f[y] => x = y, \A z \in T : \E x \in S : f[x] = z
  PROVE  IsFiniteSet(T) /\ Cardinality(T) = Cardinality(S)
<1>1. f \in Bijection(S, T)
  BY DEF Bijection, Injection, Surjection, IsInjective
<1>2. ExistsBijection(S, T)
  BY <1>1 DEF ExistsBijection
<1>. QED  BY <1>2, FS_Bijection

LEMMA RafagueoEnvia ==
  ASSUME Unico, Rafagueo, ExecuteEnvia, UNCHANGED cpuVars
  PROVE  /\ Rafagueo'
         /\ \A f : Cardinality({v \in suspendiendo' : v.fase = f})
                    = Cardinality({v \in suspendiendo : v.fase = f})
<1>0. /\ "execute" \in Hilos /\ "esperar" \in Hilos \ {"execute"} /\ Tipos
      /\ suspendiendo \subseteq Vigilantes
  BY DEF Unico, Hilos, Tipos, TypeOK, TypeKernel, TypeSuspendiendo
<1>1. hilo'["esperar"] = hilo["esperar"] /\ mano'["esperar"] = mano["esperar"]
  BY <1>0, OtrosHilos DEF ExecuteEnvia, Suelta
<1>2. Corridos' = Corridos /\ pc' = pc
  BY <1>1, CorridosQuietos DEF ExecuteEnvia, cpuVars, pcbVars
<1>. DEFINE P == mano["execute"]
            f(v) == IF v.pid = P THEN [v EXCEPT !.liberado = TRUE] ELSE v
<1>3. suspendiendo' = {f(v) : v \in suspendiendo}
  BY DEF ExecuteEnvia
<1>4. \A v \in suspendiendo : f(v).pid = v.pid /\ f(v).nro = v.nro /\ f(v).fase = v.fase
  BY <1>0 DEF Vigilantes
<1>. HIDE DEF f
<1>5. \A v, w \in suspendiendo : f(v) = f(w) => v = w
  BY <1>4 DEF Rafagueo
<1>6. IsFiniteSet(suspendiendo')
  <2>. DEFINE g == [v \in suspendiendo |-> f(v)]
  <2>1. /\ g \in [suspendiendo -> suspendiendo'] /\ \A x, y \in suspendiendo : g[x] = g[y] => x = y
        /\ \A z \in suspendiendo' : \E x \in suspendiendo : g[x] = z
    BY <1>3, <1>5
  <2>. HIDE DEF g
  <2>. QED  BY <2>1, CardinalImagen DEF Rafagueo
<1>7. Rafagueo'
  BY <1>2, <1>3, <1>4, <1>6 DEF Rafagueo
<1>8. ASSUME NEW e
      PROVE  Cardinality({v \in suspendiendo' : v.fase = e}) = Cardinality({v \in suspendiendo : v.fase = e})
  <2>. DEFINE S == {v \in suspendiendo : v.fase = e}
              T == {v \in suspendiendo' : v.fase = e}
              g == [v \in S |-> f(v)]
  <2>1. IsFiniteSet(S)
    BY FS_Subset DEF Rafagueo
  <2>2. /\ g \in [S -> T] /\ \A x, y \in S : g[x] = g[y] => x = y
        /\ \A z \in T : \E x \in S : g[x] = z
    BY <1>3, <1>4, <1>5
  <2>. HIDE DEF S, T, g
  <2>3. Cardinality(T) = Cardinality(S)
    BY <2>1, <2>2, CardinalImagen
  <2>. QED  BY <2>3 DEF S, T
<1>. QED  BY <1>7, <1>8

LEMMA RafagueoExecute ==
  ASSUME Unico, Rafagueo, ready_execute, UNCHANGED cpuVars
  PROVE  Rafagueo'
<1>1. Tipos /\ "execute" \in Hilos /\ "esperar" \in Hilos \ {"execute"}
  BY DEF Unico, Hilos
<1>2. CASE ~ExecuteEnvia
  <2>1. hilo'["esperar"] = hilo["esperar"] /\ mano'["esperar"] = mano["esperar"]
    BY <1>1, <1>2, OtrosHilos DEF ready_execute, fifo_ready_execute, srt_ready_execute, Espera, Postea,
       Saca, SrtElige, SrtSalta, SrtHayInterrupcion, SrtMira, SrtCpu, SrtInterrumpe, SrtOcupa, Toma
  <2>2. UNCHANGED <<suspendiendo, pc, retorno>>
    BY <1>2 DEF ready_execute, fifo_ready_execute, srt_ready_execute, Espera, Postea, Saca, SrtElige,
       SrtSalta, SrtHayInterrupcion, SrtMira, SrtCpu, SrtInterrumpe, SrtOcupa, entornoVars, pcbVars,
       canalVars
  <2>. QED  BY <2>1, <2>2, CorridosQuietos, RafagueoAjeno DEF cpuVars
<1>. QED  BY <1>2, RafagueoEnvia

LEMMA RafagueoHilo ==
  ASSUME Unico, Vigila, Rafagueo, BlockedHilo, UNCHANGED cpuVars
  PROVE  Rafagueo'
<1>0. /\ Tipos /\ "esperar" \in Hilos /\ Repartida(En) /\ pc \in [Pids -> Nat]
      /\ {"blocked", "cpu", "retorno", "esperar"} \subseteq Lugares
  BY DEF Unico, Hilos, Lugares, Tipos, TypeOK, TypeCanales
<1>. DEFINE P == mano["esperar"]
            w == [pid |-> P, nro |-> pc[P], fase |-> "arranque", clave |-> Nadie, iter |-> 0,
                  liberado |-> FALSE]
<1>1. /\ hilo["esperar"] = "b_hilo" /\ hilo'["esperar"] = "b_blocked"
      /\ suspendiendo' = suspendiendo \cup {w} /\ UNCHANGED <<pc, retorno>>
  BY <1>0, OtrosHilos DEF BlockedHilo, Suelta, entornoVars, pcbVars, canalVars
<1>2. P \in Pids /\ P \in ToSet(En["blocked"])
  <2>1. cola_blocked \in Seq(Pids) /\ cola_blocked # << >> /\ cola_blocked[Len(cola_blocked)] = P
    BY <1>1, VigilaTipos DEF Vigila, Listando
  <2>2. Len(cola_blocked) \in 1 .. Len(cola_blocked)
    BY <2>1, EmptySeq
  <2>. QED  BY <2>1, <2>2, ToSetPosiciones, VigilaTipos
<1>3. En'["retorno"] = En["retorno"] /\ ToSet(En'["esperar"]) = {} /\ P # cpuPcb
  <2>1. P \notin ToSet(En["cpu"])
    BY <1>0, <1>2 DEF Repartida
  <2>2. cpuPcb # Nadie => ToSet(En["cpu"]) = {cpuPcb}
    BY ListaUno, EnValores
  <2>3. P # cpuPcb
    BY <1>2, <2>1, <2>2, NadieAssumption
  <2>. QED  BY <1>1, <2>3, ListaVacia DEF En, Lugares, Enlazado, PidsDe, Retornos
<1>4. P \notin Corridos' /\ Corridos' \subseteq Corridos
  <2>1. P \notin ToSet(En["retorno"])
    BY <1>0, <1>2 DEF Repartida
  <2>. QED  BY <1>1, <1>3, <2>1 DEF Corridos, cpuVars
<1>5. P \in Corridos
  BY <1>1 DEF Corridos
<1>6. w.pid = P /\ w.nro = pc[P]
  OBVIOUS
<1>. HIDE DEF w
<1>7. \A v \in suspendiendo : v.pid = P => v.nro < pc[P]
  BY <1>5 DEF Rafagueo
<1>8. IsFiniteSet(suspendiendo')
  BY <1>1, FS_AddElement DEF Rafagueo
<1>9. \A v \in suspendiendo' :
        v.nro <= pc'[v.pid] /\ (v.pid \in Corridos' => v.nro < pc'[v.pid])
  BY <1>0, <1>1, <1>2, <1>4, <1>6 DEF Rafagueo
<1>10. \A u, v \in suspendiendo' : u.pid = v.pid /\ u.nro = v.nro => u = v
  <2>1. \A v \in suspendiendo : ~(v.pid = w.pid /\ v.nro = w.nro)
    BY <1>0, <1>2, <1>6, <1>7
  <2>. QED  BY <1>1, <2>1 DEF Rafagueo
<1>. QED  BY <1>8, <1>9, <1>10 DEF Rafagueo

LEMMA RafagueoEsperar ==
  ASSUME Unico, Vigila, Rafagueo, esperar_cpu, UNCHANGED cpuVars
  PROVE  Rafagueo'
<1>0. /\ Tipos /\ "esperar" \in Hilos /\ hilo \in [Hilos -> Etiquetas]
      /\ {"retorno", "esperar", "salida", "ready", "blocked"} \subseteq Lugares
  BY VigilaTipos DEF Hilos, Lugares
<1>1. CASE BlockedHilo
  BY <1>1, RafagueoHilo
<1>2. CASE ~BlockedHilo
  <2>1. UNCHANGED <<suspendiendo, pc>>
    BY <1>2 DEF esperar_cpu, Espera, Postea, EsperarRecibe, EsperarLibera, ExitConsola, ExitMemoria,
       Lista, BlockedLista, FinInterrupcion, entornoVars, pcbVars
  <2>2. ToSet(En'["retorno"]) \cup ToSet(En'["esperar"])
          \subseteq ToSet(En["retorno"]) \cup ToSet(En["esperar"])
    <3>1. \/ Quieto \/ \E p : Traslada(p, "retorno", "esperar")
          \/ \E p : \E m \in {"salida", "ready", "blocked"} : Traslada(p, "esperar", m)
          \/ \E p : Sale(En, En', p, "salida")
      BY <1>2, EsperarQuieto, LugaresEsperar, RecibeTraslada DEF esperar_cpu
    <3>. QED  BY <1>0, <3>1 DEF Quieto, Traslada, Mueve, Quita, Pone, Sale
  <2>3. CASE BlockedLista
    <3>1. hilo["esperar"] = "b_listar" /\ mano' = mano /\ UNCHANGED cpuVars
      BY <2>3 DEF BlockedLista, Va
    <3>2. mano["esperar"] \in ToSet(En["esperar"])
      BY <3>1, ListaUno, EnValores DEF Enlazado
    <3>. QED  BY <2>1, <2>2, <3>1, <3>2, RafagueoAjeno DEF Corridos, cpuVars
  <2>4. CASE ~BlockedLista
    <3>1. hilo'["esperar"] # "b_hilo"
      <4>1. CASE EsperarRecibe
        <5>1. Head(retorno) \in Retornos \X Pids
          BY <1>0, <4>1, HeadTailProperties DEF EsperarRecibe, Tipos, TypeOK, TypeCanales
        <5>2. hilo'["esperar"] = Head(retorno)[1]
          BY <1>0, <4>1 DEF EsperarRecibe, Va
        <5>. QED  BY <5>1, <5>2 DEF Retornos
      <4>2. CASE ~EsperarRecibe
        BY <1>0, <1>2, <2>4, <4>2 DEF esperar_cpu, Espera, Postea, EsperarLibera, ExitConsola,
           ExitMemoria, Lista, FinInterrupcion, Va
      <4>. QED  BY <4>1, <4>2
    <3>. QED  BY <2>1, <2>2, <3>1, RafagueoAjeno DEF Corridos, cpuVars
  <2>. QED  BY <2>3, <2>4
<1>. QED  BY <1>1, <1>2

LEMMA RafagueoSuspendiendo ==
  ASSUME Unico, Rafagueo, NEW v \in suspendiendo, hilo_suspendido(v), UNCHANGED cpuVars
  PROVE  Rafagueo'
<1>0. suspendiendo \subseteq Vigilantes /\ v \in Vigilantes
  BY DEF Unico, Tipos, TypeOK, TypeKernel, TypeSuspendiendo
<1>1. UNCHANGED <<hilo, mano, pc, retorno>>
  BY DEF hilo_suspendido, SuspendiendoArranca, SuspendiendoDespierta, SuspendiendoSuelta, entornoVars,
     pcbVars, canalVars
<1>2. Corridos' = Corridos
  BY <1>1, CorridosQuietos DEF cpuVars
<1>3. \/ suspendiendo' = suspendiendo \ {v}
      \/ \E u : u.pid = v.pid /\ u.nro = v.nro /\ suspendiendo' = (suspendiendo \ {v}) \cup {u}
  <2>1. CASE SuspendiendoArranca(v)
    <3>1. PICK k : CambiaVigilante(v, {[v EXCEPT !.fase = "dormido", !.clave = k,
                     !.iter = IF k \in Pids THEN iteracion_blocked[k] ELSE 0]})
      BY <2>1 DEF SuspendiendoArranca
    <3>. DEFINE u == [v EXCEPT !.fase = "dormido", !.clave = k,
                       !.iter = IF k \in Pids THEN iteracion_blocked[k] ELSE 0]
    <3>2. u.pid = v.pid /\ u.nro = v.nro
      BY <1>0 DEF Vigilantes
    <3>. QED  BY <3>1, <3>2 DEF CambiaVigilante
  <2>2. CASE CambiaVigilante(v, {[v EXCEPT !.fase = "soltar"]})
    <3>. DEFINE u == [v EXCEPT !.fase = "soltar"]
    <3>1. u.pid = v.pid /\ u.nro = v.nro
      BY <1>0 DEF Vigilantes
    <3>. QED  BY <2>2, <3>1 DEF CambiaVigilante
  <2>. QED  BY <2>1, <2>2 DEF hilo_suspendido, SuspendiendoDespierta, SuspendiendoSuelta, CambiaVigilante
<1>4. IsFiniteSet(suspendiendo')
  BY <1>3, FS_AddElement, FS_RemoveElement, ZenonT(60) DEF Rafagueo
<1>5. \A w \in suspendiendo' : \E x \in suspendiendo : w.pid = x.pid /\ w.nro = x.nro /\ (x # v => w = x)
  BY <1>3
<1>6. \A w, x \in suspendiendo' : w.pid = x.pid /\ w.nro = x.nro => w = x
  BY <1>3 DEF Rafagueo
<1>. QED  BY <1>1, <1>2, <1>4, <1>5, <1>6 DEF Rafagueo

LEMMA RafagueoCpu ==
  ASSUME Unico, Rafagueo, NextCpu, UNCHANGED kernelVars
  PROVE  Rafagueo'
<1>0. /\ pc \in [Pids -> Nat] /\ suspendiendo \subseteq Vigilantes /\ Tipos
      /\ {"dispatch", "cpu", "retorno", "esperar"} \subseteq Lugares
      /\ UNCHANGED <<suspendiendo, hilo, mano>> /\ Repartida(En)
  BY DEF Unico, Tipos, TypeOK, TypeKernel, TypeCanales, TypeSuspendiendo, Lugares, kernelVars
<1>1. CASE CpuRecibe
  <2>1. En'["retorno"] = En["retorno"] /\ En'["esperar"] = En["esperar"] /\ cpuFase' = "ciclo" /\ pc' = pc
    BY <1>0, <1>1 DEF CpuRecibe, En, Enlazado, PidsDe, pcbVars
  <2>. QED  BY <1>0, <2>1, RafagueoAjeno DEF Corridos
<1>2. CASE CpuCiclo
  <2>1. /\ pc' = [pc EXCEPT ![cpuPcb] = @ + 1] /\ cpuPcb' = cpuPcb /\ cpuPcb \in Pids
        /\ retorno' = retorno
    BY <1>0, <1>2 DEF CpuCiclo, canalVars, Tipos, Manos
  <2>2. En'["retorno"] = En["retorno"] /\ En'["esperar"] = En["esperar"]
    BY <1>0, <2>1 DEF En, Enlazado, PidsDe
  <2>3. Corridos' \subseteq Corridos \cup {cpuPcb}
    BY <1>0, <2>1, <2>2 DEF Corridos
  <2>4. \A v \in suspendiendo : pc[v.pid] \in Nat /\ v.nro \in Nat /\ v.pid \in Pids
    BY <1>0 DEF Vigilantes
  <2>5. \A v \in suspendiendo :
          /\ v.pid = cpuPcb => pc'[v.pid] = pc[v.pid] + 1
          /\ v.pid # cpuPcb => pc'[v.pid] = pc[v.pid]
    BY <1>0, <2>1, <2>4
  <2>6. \A v \in suspendiendo :
          v.nro <= pc'[v.pid] /\ (v.pid \in Corridos' => v.nro < pc'[v.pid])
    BY <2>3, <2>4, <2>5 DEF Rafagueo
  <2>. QED  BY <1>0, <2>6 DEF Rafagueo
<1>3. CASE CpuFinRafaga
  <2>1. UNCHANGED <<retorno, cpuPcb, pc>> /\ cpuFase = "fin"
    BY <1>3 DEF CpuFinRafaga, canalVars
  <2>2. En'["retorno"] = En["retorno"] /\ En'["esperar"] = En["esperar"]
    BY <1>0, <2>1 DEF En, Enlazado, PidsDe
  <2>. QED  BY <1>0, <2>1, <2>2, RafagueoAjeno DEF Corridos
<1>4. CASE CpuDevuelve
  <2>1. cpuFase = "devolver" /\ cpuFase' = "libre" /\ pc' = pc
    BY <1>4 DEF CpuDevuelve, pcbVars
  <2>2. Traslada(cpuPcb, "cpu", "retorno")
    BY <1>4, LugaresCpu
  <2>3. ToSet(En'["retorno"]) = ToSet(En["retorno"]) \cup {cpuPcb} /\ En'["esperar"] = En["esperar"]
    BY <1>0, <2>2 DEF Traslada, Mueve, Pone
  <2>. QED  BY <1>0, <2>1, <2>3, RafagueoAjeno DEF Corridos
<1>5. CASE CpuInterrupcion
  BY <1>0, <1>5, CorridosQuietos, RafagueoAjeno DEF CpuInterrupcion, pcbVars
<1>. QED  BY <1>1, <1>2, <1>3, <1>4, <1>5 DEF NextCpu, CpuMain

LEMMA RafagueoNext == Unico /\ Vigila /\ Rafagueo /\ [Next]_vars => Rafagueo'
<1>. SUFFICES ASSUME Unico, Vigila, Rafagueo, [Next]_vars PROVE Rafagueo'
  OBVIOUS
<1>0. /\ Tipos /\ "pasaje" \in Hilos /\ "io" \in Hilos /\ "esperar" \in Hilos \ {"pasaje", "io"}
  BY DEF Unico, Hilos
<1>1. CASE (pasaje_a_ready \/ ejecutar_io) /\ UNCHANGED cpuVars
  <2>1. hilo'["esperar"] = hilo["esperar"] /\ mano'["esperar"] = mano["esperar"]
    BY <1>0, <1>1, OtrosHilos
    DEF pasaje_a_ready, ejecutar_io, Espera, Postea, PasajeMira, PasajeNew, PasajeSusp, Lista, IoToma,
        IoTermina, IoIteracion, IoSuspendido, IoListo, IoEncola, Toma, Suelta
  <2>2. UNCHANGED <<suspendiendo, pc, retorno>>
    BY <1>1 DEF pasaje_a_ready, ejecutar_io, Espera, Postea, PasajeMira, PasajeNew, PasajeSusp, Lista,
       IoToma, IoTermina, IoIteracion, IoSuspendido, IoListo, IoEncola, entornoVars, pcbVars, canalVars
  <2>. QED  BY <1>1, <2>1, <2>2, CorridosQuietos, RafagueoAjeno DEF cpuVars
<1>2. CASE ((\E p \in Pids : procesar_socket(p)) /\ UNCHANGED cpuVars) \/ MemoriaElimina \/ UNCHANGED vars
  <2>1. UNCHANGED <<hilo, mano, suspendiendo, pc, retorno, cpuPcb, cpuFase>>
    BY <1>2 DEF procesar_socket, ConsolaEncola, ConsolaSocket, ConsolaIteracion, ConsolaAvisa,
       MemoriaElimina, vars, kernelVars, entornoVars, pcbVars, canalVars, cpuVars
  <2>. QED  BY <2>1, CorridosQuietos, RafagueoAjeno
<1>. QED  BY <1>1, <1>2, RafagueoExecute, RafagueoEsperar, RafagueoSuspendiendo, RafagueoCpu
          DEF Next, Kernel, Cpu, NextKernel

LEMMA RafagueoInit == Init => Rafagueo
BY FS_EmptySet DEF Init, InitKernel, Rafagueo

-----------------------------------------------------------------------------
(* The state of the diagram a process is in, by its place                  *)

Estado == [p \in Pids |-> EstadoDe(p)]

Etapa(l, suspendido) ==
  CASE l = "new" -> "new"
    [] l \in {"pasaje", "ready", "listo"} -> "ready"
    [] l \in EnLaCpu -> "exec"
    [] l \in {"blocked", "io"} -> IF suspendido THEN "susp_blocked" ELSE "blocked"
    [] l \in {"suspendido", "sready"} -> "susp_ready"
    [] l = "salida" -> "exit"

EstadoSegun ==
  \A p \in Pids :
    /\ consola[p] = "conectada" => Estado[p] = "llega"
    /\ \A l \in Lugares : p \in ToSet(En[l]) => Estado[p] = Etapa(l, p \in ToSet(cola_suspended_blocked))
    /\ consola[p] # "conectada" /\ (\A l \in Lugares : p \notin ToSet(En[l])) => Estado[p] = "exit"

LEMMA EstadoSegunLugares == Unico => EstadoSegun
<1>. SUFFICES ASSUME Unico, NEW p \in Pids
              PROVE  /\ consola[p] = "conectada" => EstadoDe(p) = "llega"
                     /\ \A l \in Lugares : p \in ToSet(En[l]) =>
                          EstadoDe(p) = Etapa(l, p \in ToSet(cola_suspended_blocked))
                     /\ consola[p] # "conectada" /\ (\A l \in Lugares : p \notin ToSet(En[l]))
                          => EstadoDe(p) = "exit"
  BY DEF EstadoSegun, Estado
<1>1. /\ \A l \in Lugares : p \in ToSet(En[l]) => consola[p] # "conectada"
      /\ \A l, m \in Lugares : p \in ToSet(En[l]) /\ p \in ToSet(En[m]) => l = m
  BY DEF Unico, SinLlegar, Repartida
<1>2. /\ p \in ToSet(cola_new) <=> p \in ToSet(En["new"])
      /\ p \in Listos <=> \E l \in {"ready", "pasaje", "listo"} : p \in ToSet(En[l])
      /\ p \in Bloqueados <=> \E l \in {"blocked", "io"} : p \in ToSet(En[l])
      /\ p \in SuspReady <=> \E l \in {"suspendido", "sready"} : p \in ToSet(En[l])
  BY EnValores DEF Listos, Bloqueados, SuspReady
<1>3. p \in ToSet(EnCpu) <=> \E l \in EnLaCpu : p \in ToSet(En[l])
  BY PcbsLugares DEF EnLaCpu
<1>4. Lugares = {"new", "salida", "blocked", "io", "suspendido", "sready", "ready", "pasaje", "listo"}
                  \cup EnLaCpu
  BY DEF Lugares, EnLaCpu
<1>5. ASSUME consola[p] = "conectada" PROVE EstadoDe(p) = "llega"
  <2>1. /\ p \notin ToSet(cola_new) /\ p \notin Listos /\ p \notin ToSet(EnCpu)
        /\ p \notin Bloqueados /\ p \notin SuspReady
    BY <1>1, <1>2, <1>3, <1>4, <1>5
  <2>. QED  BY <1>5, <2>1 DEF EstadoDe
<1>6. consola[p] # "conectada" /\ (\A l \in Lugares : p \notin ToSet(En[l])) => EstadoDe(p) = "exit"
  BY <1>2, <1>3, <1>4 DEF EstadoDe
<1>7. ASSUME NEW l \in Lugares, p \in ToSet(En[l])
      PROVE  EstadoDe(p) = Etapa(l, p \in ToSet(cola_suspended_blocked))
  <2>1. consola[p] # "conectada" /\ \A m \in Lugares : p \in ToSet(En[m]) => m = l
    BY <1>1, <1>7
  <2>2. CASE l = "new"
    <3>1. /\ p \in ToSet(cola_new) /\ p \notin Listos /\ p \notin ToSet(EnCpu)
          /\ p \notin Bloqueados /\ p \notin SuspReady
      BY <1>2, <1>3, <1>4, <1>7, <2>1, <2>2 DEF EnLaCpu
    <3>. QED  BY <2>1, <2>2, <3>1 DEF EstadoDe, Etapa, EnLaCpu
  <2>3. CASE l \in {"ready", "pasaje", "listo"}
    <3>1. /\ p \notin ToSet(cola_new) /\ p \in Listos /\ p \notin ToSet(EnCpu)
          /\ p \notin Bloqueados /\ p \notin SuspReady
      BY <1>2, <1>3, <1>4, <1>7, <2>1, <2>3 DEF EnLaCpu
    <3>. QED  BY <2>1, <2>3, <3>1 DEF EstadoDe, Etapa, EnLaCpu
  <2>4. CASE l \in EnLaCpu
    <3>1. /\ p \notin ToSet(cola_new) /\ p \notin Listos /\ p \in ToSet(EnCpu)
          /\ p \notin Bloqueados /\ p \notin SuspReady
      BY <1>2, <1>3, <1>4, <1>7, <2>1, <2>4 DEF EnLaCpu
    <3>. QED  BY <2>1, <2>4, <3>1 DEF EstadoDe, Etapa, EnLaCpu
  <2>5. CASE l \in {"blocked", "io"}
    <3>1. /\ p \notin ToSet(cola_new) /\ p \notin Listos /\ p \notin ToSet(EnCpu)
          /\ p \in Bloqueados /\ p \notin SuspReady
      BY <1>2, <1>3, <1>4, <1>7, <2>1, <2>5 DEF EnLaCpu
    <3>. QED  BY <2>1, <2>5, <3>1 DEF EstadoDe, Etapa, EnLaCpu
  <2>6. CASE l \in {"suspendido", "sready"}
    <3>1. /\ p \notin ToSet(cola_new) /\ p \notin Listos /\ p \notin ToSet(EnCpu)
          /\ p \notin Bloqueados /\ p \in SuspReady
      BY <1>2, <1>3, <1>4, <1>7, <2>1, <2>6 DEF EnLaCpu
    <3>. QED  BY <2>1, <2>6, <3>1 DEF EstadoDe, Etapa, EnLaCpu
  <2>7. CASE l = "salida"
    <3>1. /\ p \notin ToSet(cola_new) /\ p \notin Listos /\ p \notin ToSet(EnCpu)
          /\ p \notin Bloqueados /\ p \notin SuspReady
      BY <1>2, <1>3, <1>4, <1>7, <2>1, <2>7 DEF EnLaCpu
    <3>. QED  BY <2>1, <2>7, <3>1 DEF EstadoDe, Etapa, EnLaCpu
  <2>. QED  BY <1>4, <2>2, <2>3, <2>4, <2>5, <2>6, <2>7
<1>. QED  BY <1>5, <1>6, <1>7

LEMMA EstadoSegunLuego == Unico' => EstadoSegun'
BY EstadoSegunLugares, PTL

\* One process changes state.
Pasan(p, a, b) == p \in Pids /\ Estado[p] = a /\ Estado' = [Estado EXCEPT ![p] = b]

LEMMA EstadoQuieto ==
  ASSUME Unico, Unico', Quieto,
         \A q \in Pids : consola'[q] = "conectada" <=> consola[q] = "conectada",
         \A q \in ToSet(En["blocked"]) \cup ToSet(En["io"]) :
            q \in ToSet(cola_suspended_blocked') <=> q \in ToSet(cola_suspended_blocked)
  PROVE  Estado' = Estado
<1>1. EstadoSegun /\ EstadoSegun'
  BY EstadoSegunLugares, EstadoSegunLuego
<1>2. ASSUME NEW q \in Pids PROVE Estado'[q] = Estado[q]
  <2>1. CASE consola[q] = "conectada"
    BY <1>1, <2>1 DEF EstadoSegun
  <2>2. CASE consola[q] # "conectada" /\ \A l \in Lugares : q \notin ToSet(En[l])
    BY <1>1, <2>2 DEF EstadoSegun, Quieto
  <2>3. ASSUME NEW l \in Lugares, q \in ToSet(En[l]) PROVE Estado'[q] = Estado[q]
    <3>1. /\ Estado[q] = Etapa(l, q \in ToSet(cola_suspended_blocked))
          /\ Estado'[q] = Etapa(l, q \in ToSet(cola_suspended_blocked'))
      BY <1>1, <2>3 DEF EstadoSegun, Quieto
    <3>2. l \in {"blocked", "io"} =>
            (q \in ToSet(cola_suspended_blocked') <=> q \in ToSet(cola_suspended_blocked))
      BY <2>3
    <3>. QED  BY <3>1, <3>2 DEF Etapa, Lugares, EnLaCpu
  <2>. QED  BY <2>1, <2>2, <2>3
<1>. QED  BY <1>2 DEF Estado

LEMMA EstadoTraslada ==
  ASSUME Unico, Unico', UNCHANGED consola, NEW p, NEW l \in Lugares, NEW m \in Lugares,
         Traslada(p, l, m),
         \A q \in Pids \ {p} :
            q \in ToSet(cola_suspended_blocked') <=> q \in ToSet(cola_suspended_blocked)
  PROVE  /\ p \in Pids /\ p \in ToSet(En[l]) /\ p \in ToSet(En'[m])
         /\ Estado[p] = Etapa(l, p \in ToSet(cola_suspended_blocked))
         /\ Estado' = [Estado EXCEPT ![p] = Etapa(m, p \in ToSet(cola_suspended_blocked'))]
<1>1. EstadoSegun /\ EstadoSegun'
  BY EstadoSegunLugares, EstadoSegunLuego
<1>2. /\ l # m /\ p \in ToSet(En[l]) /\ ToSet(En'[l]) = ToSet(En[l]) \ {p}
      /\ ToSet(En'[m]) = ToSet(En[m]) \cup {p} /\ \A j \in Lugares \ {l, m} : En'[j] = En[j]
  BY DEF Traslada, Mueve, Quita, Pone
<1>3. p \in Pids
  BY <1>2, ToSetPosiciones DEF Unico, Repartida
<1>4. Estado[p] = Etapa(l, p \in ToSet(cola_suspended_blocked))
  BY <1>1, <1>2, <1>3 DEF EstadoSegun
<1>5. Estado'[p] = Etapa(m, p \in ToSet(cola_suspended_blocked'))
  BY <1>1, <1>2, <1>3 DEF EstadoSegun
<1>6. ASSUME NEW q \in Pids \ {p} PROVE Estado'[q] = Estado[q]
  <2>1. \A j \in Lugares : q \in ToSet(En'[j]) <=> q \in ToSet(En[j])
    BY <1>2
  <2>. QED  BY <1>1, <2>1 DEF EstadoSegun
<1>. QED  BY <1>2, <1>3, <1>4, <1>5, <1>6 DEF Estado

-----------------------------------------------------------------------------
(* What each thread's step does to the states                              *)

\* A PCB that goes between two places of the same state.
LEMMA EstadoMismo ==
  ASSUME Unico, Unico', UNCHANGED <<consola, cola_suspended_blocked>>, NEW p,
         \E C \in {{"pasaje", "ready", "listo"}, EnLaCpu, {"blocked", "io"}, {"suspendido", "sready"}} :
           \E l, m \in C \cap Lugares : Traslada(p, l, m)
  PROVE  Estado' = Estado
<1>1. PICK C \in {{"pasaje", "ready", "listo"}, EnLaCpu, {"blocked", "io"}, {"suspendido", "sready"}} :
        \E l, m \in C \cap Lugares : Traslada(p, l, m)
  OBVIOUS
<1>2. PICK l \in C \cap Lugares, m \in C \cap Lugares : Traslada(p, l, m)
  BY <1>1
<1>. DEFINE s == p \in ToSet(cola_suspended_blocked)
<1>3. p \in Pids /\ Estado[p] = Etapa(l, s) /\ Estado' = [Estado EXCEPT ![p] = Etapa(m, s)]
  BY <1>2, EstadoTraslada
<1>4. Etapa(l, s) = Etapa(m, s)
  BY <1>1, <1>2 DEF Etapa, EnLaCpu
<1>. QED  BY <1>3, <1>4 DEF Estado

\* The processes the degree counts are not among the suspended.
LEMMA SuspendidosLugares ==
  ASSUME Unico, Vigila
  PROVE  \A l \in Lugares \ {"blocked", "io"} :
           ToSet(En[l]) \cap ToSet(cola_suspended_blocked) = {}
<1>1. ToSet(cola_suspended_blocked) \subseteq ToSet(En["blocked"]) \cup ToSet(En["io"])
  BY DEF Vigila, Suspendidos
<1>2. {"blocked", "io"} \subseteq Lugares
  BY DEF Lugares
<1>. QED  BY <1>1, <1>2 DEF Unico, Repartida

LEMMA EstadoPasaje ==
  ASSUME Unico, Unico', UNCHANGED cpuVars
  PROVE  /\ PasajeNew => Pasan(Head(cola_new), "new", "ready")
         /\ PasajeSusp => Pasan(Head(cola_suspended_ready), "susp_ready", "ready")
         /\ pasaje_a_ready => PasajeNew \/ PasajeSusp \/ Estado' = Estado
<1>0. {"new", "sready", "pasaje", "ready"} \subseteq Lugares
  BY DEF Lugares
<1>1. ASSUME PasajeNew PROVE Pasan(Head(cola_new), "new", "ready")
  <2>1. Traslada(Head(cola_new), "new", "pasaje") /\ UNCHANGED <<consola, cola_suspended_blocked>>
    BY <1>1, LugaresPasaje DEF PasajeNew, registroVars
  <2>2. PICK p : p = Head(cola_new)
    OBVIOUS
  <2>3. /\ p \in Pids /\ Estado[p] = Etapa("new", p \in ToSet(cola_suspended_blocked))
        /\ Estado' = [Estado EXCEPT ![p] = Etapa("pasaje", p \in ToSet(cola_suspended_blocked'))]
    BY <1>0, <2>1, <2>2, EstadoTraslada
  <2>4. Pasan(p, "new", "ready")
    BY <2>3 DEF Pasan, Etapa, EnLaCpu
  <2>. QED  BY <2>2, <2>4
<1>2. ASSUME PasajeSusp PROVE Pasan(Head(cola_suspended_ready), "susp_ready", "ready")
  <2>1. /\ Traslada(Head(cola_suspended_ready), "sready", "pasaje")
        /\ UNCHANGED <<consola, cola_suspended_blocked>>
    BY <1>2, LugaresPasaje DEF PasajeSusp, registroVars
  <2>. QED  BY <1>0, <2>1, EstadoTraslada DEF Pasan, Etapa, EnLaCpu
<1>3. ASSUME pasaje_a_ready, ~(PasajeNew \/ PasajeSusp) PROVE Estado' = Estado
  <2>1. Quieto \/ Traslada(mano["pasaje"], "pasaje", "ready")
    BY <1>3, LugaresPasaje DEF pasaje_a_ready
  <2>2. UNCHANGED <<consola, cola_suspended_blocked>>
    BY <1>3 DEF pasaje_a_ready, Espera, Postea, PasajeMira, Lista, colaVars, registroVars
  <2>. QED  BY <1>0, <2>1, <2>2, EstadoQuieto, EstadoMismo
<1>. QED  BY <1>1, <1>2, <1>3

LEMMA EstadoExecute ==
  ASSUME Unico, Unico', UNCHANGED cpuVars, ready_execute
  PROVE  \/ Estado' = Estado
         \/ /\ hilo["execute"] \in {"f_sacar", "s_elegir"}
            /\ \E p \in Pids : Pasan(p, "ready", "exec")
<1>0. {"ready", "execute", "dispatch"} \subseteq Lugares /\ {"execute", "dispatch"} \subseteq EnLaCpu
  BY DEF Lugares, EnLaCpu
<1>1. UNCHANGED <<consola, cola_suspended_blocked>>
  BY DEF ready_execute, fifo_ready_execute, srt_ready_execute, Espera, Postea, Saca, ExecuteEnvia,
     SrtElige, SrtSalta, SrtHayInterrupcion, SrtMira, SrtCpu, SrtInterrumpe, SrtOcupa, colaVars,
     registroVars
<1>2. CASE Saca("f_sacar", 1, "enviar") \/ SrtElige
  <2>1. hilo["execute"] \in {"f_sacar", "s_elegir"}
    BY <1>2 DEF Saca, SrtElige, Va
  <2>2. PICK p : Traslada(p, "ready", "execute")
    BY <1>2, LugaresFifo, LugaresSrt
  <2>3. Pasan(p, "ready", "exec")
    BY <1>0, <1>1, <2>2, EstadoTraslada DEF Pasan, Etapa, EnLaCpu
  <2>. QED  BY <2>1, <2>3 DEF Pasan
<1>3. CASE ~(Saca("f_sacar", 1, "enviar") \/ SrtElige)
  <2>1. Quieto \/ Traslada(mano["execute"], "execute", "dispatch")
    BY <1>3, LugaresFifo, LugaresSrt DEF ready_execute, fifo_ready_execute, srt_ready_execute
  <2>. QED  BY <1>0, <1>1, <2>1, EstadoQuieto, EstadoMismo
<1>. QED  BY <1>2, <1>3

LEMMA EstadoEsperar ==
  ASSUME Unico, Vigila, Unico', UNCHANGED cpuVars
  PROVE  /\ Postea("esperar", "x_grado", "s_multiprogramacion_actual", "x_memoria")
              => Pasan(mano["esperar"], "exec", "exit")
         /\ Lista("esperar", "i_listar", "i_cr") => Pasan(mano["esperar"], "exec", "ready")
         /\ BlockedLista => Pasan(mano["esperar"], "exec", "blocked")
         /\ esperar_cpu =>
              \/ Postea("esperar", "x_grado", "s_multiprogramacion_actual", "x_memoria")
              \/ Lista("esperar", "i_listar", "i_cr") \/ BlockedLista \/ Estado' = Estado
<1>0. /\ {"retorno", "esperar", "salida", "ready", "blocked"} \subseteq Lugares
      /\ {"retorno", "esperar"} \subseteq EnLaCpu
  BY DEF Lugares, EnLaCpu
<1>1. ASSUME Postea("esperar", "x_grado", "s_multiprogramacion_actual", "x_memoria")
      PROVE  Pasan(mano["esperar"], "exec", "exit")
  <2>1. Traslada(mano["esperar"], "esperar", "salida") /\ UNCHANGED <<consola, cola_suspended_blocked>>
    BY <1>1, LugaresEsperar DEF Postea, colaVars, registroVars
  <2>. QED  BY <1>0, <2>1, EstadoTraslada, ZenonT(60) DEF Pasan, Etapa, EnLaCpu
<1>2. ASSUME Lista("esperar", "i_listar", "i_cr") PROVE Pasan(mano["esperar"], "exec", "ready")
  <2>1. Traslada(mano["esperar"], "esperar", "ready") /\ UNCHANGED <<consola, cola_suspended_blocked>>
    BY <1>2, LugaresEsperar DEF Lista, registroVars
  <2>2. PICK p : p = mano["esperar"]
    OBVIOUS
  <2>3. /\ p \in Pids /\ Estado[p] = Etapa("esperar", p \in ToSet(cola_suspended_blocked))
        /\ Estado' = [Estado EXCEPT ![p] = Etapa("ready", p \in ToSet(cola_suspended_blocked'))]
    BY <1>0, <2>1, <2>2, EstadoTraslada
  <2>4. Pasan(p, "exec", "ready")
    BY <1>0, <2>3 DEF Pasan, Etapa, EnLaCpu
  <2>. QED  BY <2>2, <2>4
<1>3. ASSUME BlockedLista PROVE Pasan(mano["esperar"], "exec", "blocked")
  <2>1. Traslada(mano["esperar"], "esperar", "blocked") /\ UNCHANGED <<consola, cola_suspended_blocked>>
    BY <1>3, LugaresEsperar DEF BlockedLista, registroVars
  <2>2. mano["esperar"] \in ToSet(En["esperar"])
    BY <2>1 DEF Traslada, Mueve, Quita
  <2>3. mano["esperar"] \notin ToSet(cola_suspended_blocked)
    BY <1>0, <2>2, SuspendidosLugares
  <2>. QED  BY <1>0, <2>1, <2>3, EstadoTraslada, ZenonT(60) DEF Pasan, Etapa, EnLaCpu
<1>4. ASSUME esperar_cpu, ~Postea("esperar", "x_grado", "s_multiprogramacion_actual", "x_memoria"),
             ~Lista("esperar", "i_listar", "i_cr"), ~BlockedLista
      PROVE  Estado' = Estado
  <2>1. UNCHANGED <<consola, cola_suspended_blocked>>
    BY <1>4 DEF esperar_cpu, Espera, Postea, EsperarRecibe, EsperarLibera, ExitConsola, ExitMemoria,
       BlockedHilo, FinInterrupcion, colaVars, registroVars
  <2>2. Quieto \/ Traslada(Head(retorno)[2], "retorno", "esperar") \/ ExitMemoria
    BY <1>4, EsperarQuieto, LugaresEsperar, RecibeTraslada DEF esperar_cpu
  <2>3. CASE ExitMemoria
    <3>1. Sale(En, En', mano["esperar"], "salida")
      BY <2>3, LugaresEsperar
    <3>2. EstadoSegun /\ EstadoSegun'
      BY EstadoSegunLugares, EstadoSegunLuego
    <3>3. /\ mano["esperar"] \in ToSet(En["salida"]) /\ ToSet(En'["salida"]) = ToSet(En["salida"]) \ {mano["esperar"]}
          /\ \A k \in Lugares \ {"salida"} : En'[k] = En[k]
      BY <3>1 DEF Sale, Quita
    <3>4. /\ mano["esperar"] \in Pids /\ consola[mano["esperar"]] # "conectada"
          /\ \A l \in Lugares : mano["esperar"] \notin ToSet(En'[l])
      BY <1>0, <3>3, ToSetPosiciones DEF Unico, SinLlegar, Repartida
    <3>5. Estado[mano["esperar"]] = "exit" /\ Estado'[mano["esperar"]] = "exit"
      BY <1>0, <2>1, <3>2, <3>3, <3>4 DEF EstadoSegun, Etapa, EnLaCpu
    <3>6. \A q \in Pids \ {mano["esperar"]} : Estado'[q] = Estado[q]
      BY <2>1, <3>2, <3>3 DEF EstadoSegun
    <3>. QED  BY <3>5, <3>6 DEF Estado
  <2>. QED  BY <1>0, <2>1, <2>2, <2>3, EstadoQuieto, EstadoMismo
<1>. QED  BY <1>1, <1>2, <1>3, <1>4

LEMMA EstadoIo ==
  ASSUME Unico, Vigila, Unico', UNCHANGED cpuVars, ejecutar_io
  PROVE  \/ Estado' = Estado
         \/ \E p \in Pids : Pasan(p, "blocked", "ready") \/ Pasan(p, "susp_blocked", "susp_ready")
<1>0. {"blocked", "io", "suspendido", "listo", "sready", "ready"} \subseteq Lugares
  BY DEF Lugares
<1>. DEFINE P == mano["io"]
<1>1. CASE IoSuspendido
  <2>1. Traslada(P, "io", "suspendido") /\ consola' = consola
    BY <1>1, LugaresIo DEF IoSuspendido, registroVars
  <2>2. cola_suspended_blocked \in Seq(Pids) /\ IsInjective(cola_suspended_blocked)
    BY VigilaTipos DEF Vigila, Suspendidos
  <2>3. /\ P \in ToSet(cola_suspended_blocked)
        /\ ToSet(cola_suspended_blocked') = ToSet(cola_suspended_blocked) \ {P}
    BY <1>1, <2>2, ListaSaca DEF IoSuspendido
  <2>4. Pasan(P, "susp_blocked", "susp_ready")
    BY <1>0, <2>1, <2>3, EstadoTraslada DEF Pasan, Etapa, EnLaCpu
  <2>. QED  BY <2>4 DEF Pasan
<1>2. CASE IoListo
  <2>1. /\ Traslada(P, "io", "listo") /\ UNCHANGED <<consola, cola_suspended_blocked>>
        /\ P \notin ToSet(cola_suspended_blocked)
    BY <1>2, LugaresIo DEF IoListo, colaVars, registroVars
  <2>2. Pasan(P, "blocked", "ready")
    BY <1>0, <2>1, EstadoTraslada, ZenonT(60) DEF Pasan, Etapa, EnLaCpu
  <2>. QED  BY <2>2 DEF Pasan
<1>3. CASE ~(IoSuspendido \/ IoListo)
  <2>1. UNCHANGED <<consola, cola_suspended_blocked>>
    BY <1>3 DEF ejecutar_io, Espera, Postea, IoToma, IoTermina, IoIteracion, IoEncola, Lista, colaVars,
       registroVars
  <2>2. \/ Quieto \/ Traslada(P, "blocked", "io") \/ Traslada(P, "suspendido", "sready")
        \/ Traslada(P, "listo", "ready")
    BY <1>3, LugaresIo DEF ejecutar_io
  <2>. QED  BY <1>0, <2>1, <2>2, EstadoQuieto, EstadoMismo
<1>. QED  BY <1>1, <1>2, <1>3

LEMMA EstadoConsola ==
  ASSUME Unico, Unico', UNCHANGED cpuVars, NEW p \in Pids, procesar_socket(p)
  PROVE  Estado' = Estado \/ Pasan(p, "llega", "new")
<1>0. consola \in [Pids -> EtiquetasConsola] /\ "new" \in Lugares
  BY DEF Unico, Tipos, TypeOK, TypeKernel, TypeRegistro, Lugares
<1>1. CASE ConsolaEncola(p)
  <2>1. Entra(En, En', p, "new")
    BY <1>1, LugaresConsola
  <2>2. /\ consola[p] = "conectada" /\ consola'[p] # "conectada"
        /\ \A q \in Pids \ {p} : consola'[q] = consola[q]
        /\ cola_suspended_blocked' = cola_suspended_blocked
    BY <1>0, <1>1 DEF ConsolaEncola
  <2>3. EstadoSegun /\ EstadoSegun'
    BY EstadoSegunLugares, EstadoSegunLuego
  <2>4. ToSet(En'["new"]) = ToSet(En["new"]) \cup {p} /\ \A k \in Lugares \ {"new"} : En'[k] = En[k]
    BY <2>1 DEF Entra, Pone
  <2>5. Estado[p] = "llega" /\ Estado'[p] = "new"
    BY <1>0, <2>2, <2>3, <2>4 DEF EstadoSegun, Etapa, EnLaCpu
  <2>6. \A q \in Pids \ {p} : Estado'[q] = Estado[q]
    <3>1. \A q \in Pids \ {p} : \A l \in Lugares : q \in ToSet(En'[l]) <=> q \in ToSet(En[l])
      BY <2>4
    <3>. QED  BY <2>2, <2>3, <3>1 DEF EstadoSegun
  <2>. QED  BY <2>5, <2>6 DEF Pasan, Estado
<1>2. CASE ConsolaSocket(p) \/ ConsolaIteracion(p) \/ ConsolaAvisa(p)
  <2>1. Quieto
    BY <1>2, LugaresConsola
  <2>2. /\ \A q \in Pids : consola'[q] = "conectada" <=> consola[q] = "conectada"
        /\ cola_suspended_blocked' = cola_suspended_blocked
    BY <1>0, <1>2 DEF ConsolaSocket, ConsolaIteracion, ConsolaAvisa, colaVars
  <2>. QED  BY <2>1, <2>2, EstadoQuieto
<1>. QED  BY <1>1, <1>2 DEF procesar_socket

\* Only the thread that finds its process in the I/O it watches suspends it.
Suspende(v) ==
  /\ SuspendiendoDespierta(v)
  /\ suspendiendo' = (suspendiendo \ {v}) \cup {[v EXCEPT !.fase = "soltar"]}
  /\ memoria' = [memoria EXCEPT ![v.pid] = "tablas"]
  /\ Pasan(v.pid, "blocked", "susp_blocked")

LEMMA EstadoSuspendiendo ==
  ASSUME Unico, Vigila, Unico', UNCHANGED cpuVars, NEW v \in suspendiendo, hilo_suspendido(v)
  PROVE  \/ Suspende(v)
         \/ Estado' = Estado /\ (SuspendiendoDespierta(v) => suspendiendo' = suspendiendo \ {v})
<1>0. /\ v \in Vigilantes /\ cola_suspended_blocked \in Seq(Pids) /\ "blocked" \in Lugares
      /\ En["blocked"] = cola_blocked /\ consola \in [Pids -> EtiquetasConsola]
  BY VigilaTipos DEF Lugares, Unico, Tipos, TypeOK, TypeKernel, TypeRegistro
<1>1. Quieto /\ consola' = consola
  BY LugaresSuspendiendo DEF hilo_suspendido, SuspendiendoArranca, SuspendiendoDespierta,
     SuspendiendoSuelta, registroVars
<1>2. ASSUME UNCHANGED cola_suspended_blocked PROVE Estado' = Estado
  BY <1>1, <1>2, EstadoQuieto
<1>3. CASE SuspendiendoArranca(v) \/ SuspendiendoSuelta(v)
  <2>1. UNCHANGED cola_suspended_blocked /\ v.fase # "dormido"
    BY <1>3 DEF SuspendiendoArranca, SuspendiendoSuelta, colaVars
  <2>. QED  BY <1>2, <2>1 DEF SuspendiendoDespierta
<1>4. ASSUME SuspendiendoDespierta(v), NEW l \in PidLeido(v), DebeSuspender(v, l),
             cola_suspended_blocked' = Append(cola_suspended_blocked, l),
             memoria' = [memoria EXCEPT ![l] = "tablas"],
             CambiaVigilante(v, {[v EXCEPT !.fase = "soltar"]})
      PROVE  Suspende(v)
  <2>1. v.fase = "dormido" /\ v.clave = v.pid /\ v.pid \in Pids
    BY <1>0, <1>4 DEF SuspendiendoDespierta, Vigila, Vigilan, Vigilantes
  <2>2. Vigente(v) /\ ~v.liberado
    BY <1>4, <2>1 DEF DebeSuspender, Vigente, Vigila, Vigilan
  <2>3. l = v.pid /\ l \in ToSet(En["blocked"])
    BY <1>0, <1>4, <2>2 DEF PidLeido, DebeSuspender
  <2>4. v.pid \notin ToSet(cola_suspended_blocked)
    BY <2>2 DEF Vigila, UnVigente
  <2>5. ToSet(cola_suspended_blocked') = ToSet(cola_suspended_blocked) \cup {v.pid}
    BY <1>0, <1>4, <2>1, <2>3, ListaAgrega
  <2>6. EstadoSegun /\ EstadoSegun'
    BY EstadoSegunLugares, EstadoSegunLuego
  <2>7. En'["blocked"] = En["blocked"]
    BY <1>0, <1>1 DEF Quieto
  <2>8. Estado[v.pid] = "blocked" /\ Estado'[v.pid] = "susp_blocked"
    BY <1>0, <2>1, <2>3, <2>4, <2>5, <2>6, <2>7 DEF EstadoSegun, Etapa, EnLaCpu
  <2>9. ASSUME NEW q \in Pids \ {v.pid} PROVE Estado'[q] = Estado[q]
    BY <1>1, <2>5, <2>6 DEF EstadoSegun, Quieto
  <2>. QED  BY <1>4, <2>1, <2>3, <2>8, <2>9 DEF Suspende, CambiaVigilante, Pasan, Estado
<1>5. CASE SuspendiendoDespierta(v)
  <2>1. PICK l \in PidLeido(v) :
          \/ /\ DebeSuspender(v, l)
             /\ cola_suspended_blocked' = Append(cola_suspended_blocked, l)
             /\ memoria' = [memoria EXCEPT ![l] = "tablas"]
             /\ CambiaVigilante(v, {[v EXCEPT !.fase = "soltar"]})
          \/ suspendiendo' = suspendiendo \ {v} /\ UNCHANGED cola_suspended_blocked
    BY <1>5 DEF SuspendiendoDespierta, CambiaVigilante
  <2>. QED  BY <1>2, <1>4, <1>5, <2>1
<1>. QED  BY <1>3, <1>5 DEF hilo_suspendido

LEMMA EstadoResto ==
  ASSUME Unico, Unico', Cpu \/ MemoriaElimina \/ UNCHANGED vars
  PROVE  Estado' = Estado
<1>0. {"dispatch", "cpu", "retorno"} \subseteq Lugares /\ {"dispatch", "cpu", "retorno"} \subseteq EnLaCpu
  BY DEF Lugares, EnLaCpu
<1>1. UNCHANGED <<consola, cola_suspended_blocked>>
  BY DEF Cpu, MemoriaElimina, vars, kernelVars, colaVars, registroVars
<1>2. \/ Quieto \/ Traslada(Head(dispatch), "dispatch", "cpu") \/ Traslada(cpuPcb, "cpu", "retorno")
  <2>1. CASE Cpu
    BY <2>1, LugaresCpu DEF Cpu, NextCpu, CpuMain
  <2>2. CASE MemoriaElimina
    BY <2>2, LugaresMemoria
  <2>3. CASE UNCHANGED vars
    BY <2>3 DEF vars, kernelVars, colaVars, canalVars, cpuVars, Quieto, En, Enlazado, PidsDe
  <2>. QED  BY <2>1, <2>2, <2>3
<1>. QED  BY <1>0, <1>1, <1>2, EstadoQuieto, EstadoMismo

-----------------------------------------------------------------------------
(* The degree                                                              *)

\* The processes that take a slot of the degree, and where the other slots are:
\* in the semaphore, in pasaje_a_ready's hand, or about to be posted by a thread
\* that has suspended its process.
OcupanCupo == {"ready", "exec", "blocked"}
EnMemoria == {p \in Pids : Estado[p] \in OcupanCupo}
Libres == sem["s_multiprogramacion_actual"]
Tomado == Uno(hilo["pasaje"] \in {"mirar", "new", "susp"})
Soltando == Cardinality({v \in suspendiendo : v.fase = "soltar"})

Cupos == Libres + Tomado + Soltando + Cardinality(EnMemoria) = Grado

LEMMA CuposTipos ==
  ASSUME Unico, Rafagueo
  PROVE  /\ Libres \in Nat /\ Tomado \in Nat /\ Soltando \in Nat
         /\ IsFiniteSet(EnMemoria) /\ Cardinality(EnMemoria) \in Nat
<1>1. IsFiniteSet(EnMemoria) /\ Cardinality(EnMemoria) \in Nat
  BY PidsAssumption, FS_Subset, FS_CardinalityType DEF EnMemoria
<1>2. Soltando \in Nat
  BY FS_Subset, FS_CardinalityType DEF Soltando, Rafagueo
<1>3. Libres \in Nat
  BY ColasTipos DEF Unico, Libres, Semaforos
<1>4. Tomado \in Nat
  BY DEF Tomado, Uno
<1>. QED  BY <1>1, <1>2, <1>3, <1>4

LEMMA MemoriaPasa ==
  ASSUME NEW p, NEW a, NEW b, Pasan(p, a, b)
  PROVE  /\ a \notin OcupanCupo /\ b \in OcupanCupo
              => Cardinality(EnMemoria') = Cardinality(EnMemoria) + 1
         /\ a \in OcupanCupo /\ b \notin OcupanCupo
              => Cardinality(EnMemoria') = Cardinality(EnMemoria) - 1
         /\ (a \in OcupanCupo <=> b \in OcupanCupo)
              => Cardinality(EnMemoria') = Cardinality(EnMemoria)
<1>1. /\ p \in Pids /\ Estado[p] = a /\ Estado'[p] = b
      /\ \A q \in Pids \ {p} : Estado'[q] = Estado[q]
  BY DEF Pasan, Estado
<1>2. IsFiniteSet(EnMemoria)
  BY PidsAssumption, FS_Subset DEF EnMemoria
<1>3. CASE a \notin OcupanCupo /\ b \in OcupanCupo
  <2>1. EnMemoria' = EnMemoria \cup {p} /\ p \notin EnMemoria
    BY <1>1, <1>3 DEF EnMemoria
  <2>. QED  BY <1>2, <1>3, <2>1, FS_AddElement
<1>4. CASE a \in OcupanCupo /\ b \notin OcupanCupo
  <2>1. EnMemoria' = EnMemoria \ {p} /\ p \in EnMemoria
    BY <1>1, <1>4 DEF EnMemoria
  <2>. QED  BY <1>2, <1>4, <2>1, FS_RemoveElement
<1>5. CASE a \in OcupanCupo <=> b \in OcupanCupo
  <2>1. EnMemoria' = EnMemoria
    BY <1>1, <1>5 DEF EnMemoria
  <2>. QED  BY <1>5, <2>1
<1>. QED  BY <1>3, <1>4, <1>5

LEMMA CuposAjeno ==
  ASSUME Cupos, Libres' = Libres, Tomado' = Tomado, Soltando' = Soltando,
         \/ Estado' = Estado
         \/ \E p, a, b : Pasan(p, a, b) /\ (a \in OcupanCupo <=> b \in OcupanCupo)
  PROVE  Cupos'
<1>1. Cardinality(EnMemoria') = Cardinality(EnMemoria)
  <2>1. CASE Estado' = Estado
    BY <2>1 DEF EnMemoria
  <2>2. CASE \E p, a, b : Pasan(p, a, b) /\ (a \in OcupanCupo <=> b \in OcupanCupo)
    BY <2>2, MemoriaPasa
  <2>. QED  BY <2>1, <2>2
<1>. QED  BY <1>1 DEF Cupos

LEMMA CuposPasaje ==
  ASSUME Unico, Rafagueo, Cupos, Unico', UNCHANGED cpuVars, pasaje_a_ready
  PROVE  Cupos'
<1>0. /\ sem \in [Semaforos -> Nat] /\ hilo \in [Hilos -> Etiquetas] /\ "pasaje" \in Hilos
      /\ {"s_multiprogramacion_actual", "s_pasaje_a_ready", "s_ready_execute", "s_cont_ready"} \subseteq Semaforos
  BY ColasTipos DEF Unico, Hilos, Semaforos
<1>1. Libres \in Nat /\ Tomado \in Nat /\ Soltando \in Nat /\ Cardinality(EnMemoria) \in Nat
  BY CuposTipos
<1>2. Soltando' = Soltando
  BY DEF pasaje_a_ready, Espera, Postea, PasajeMira, PasajeNew, PasajeSusp, Lista, Soltando
<1>3. CASE PasajeNew \/ PasajeSusp
  <2>1. Cardinality(EnMemoria') = Cardinality(EnMemoria) + 1
    BY <1>3, EstadoPasaje, MemoriaPasa DEF OcupanCupo
  <2>2. Libres' = Libres /\ Tomado = 1 /\ Tomado' = 0
    BY <1>0, <1>3 DEF PasajeNew, PasajeSusp, Va, Libres, Tomado, Uno
  <2>. QED  BY <1>1, <1>2, <2>1, <2>2 DEF Cupos
<1>4. CASE Espera("pasaje", "grado", "s_multiprogramacion_actual", "mirar")
  <2>0. ~(PasajeNew \/ PasajeSusp)
    BY <1>4 DEF Espera, PasajeNew, PasajeSusp, Va
  <2>1. Estado' = Estado
    BY <1>4, <2>0, EstadoPasaje DEF pasaje_a_ready
  <2>2. Libres' = Libres - 1 /\ Tomado = 0 /\ Tomado' = 1
    BY <1>0, <1>4 DEF Espera, Va, sem_wait, Libres, Tomado, Uno
  <2>3. Cardinality(EnMemoria') = Cardinality(EnMemoria)
    BY <2>1 DEF EnMemoria
  <2>. QED  BY <1>1, <1>2, <2>2, <2>3 DEF Cupos
<1>5. CASE ~(PasajeNew \/ PasajeSusp \/ Espera("pasaje", "grado", "s_multiprogramacion_actual", "mirar"))
  <2>1. Estado' = Estado
    BY <1>5, EstadoPasaje
  <2>2. Libres' = Libres /\ Tomado' = Tomado
    BY <1>0, <1>5 DEF pasaje_a_ready, Espera, Postea, PasajeMira, Lista, Va, sem_post, sem_wait, Libres,
       Tomado, Uno
  <2>. QED  BY <1>2, <2>1, <2>2, CuposAjeno
<1>. QED  BY <1>3, <1>4, <1>5

LEMMA CuposExecute ==
  ASSUME Unico, Rafagueo, Cupos, Unico', UNCHANGED cpuVars, ready_execute
  PROVE  Cupos'
<1>0. /\ sem \in [Semaforos -> Nat] /\ "execute" \in Hilos /\ "pasaje" \in Hilos \ {"execute"} /\ Tipos
      /\ {"s_ready_execute", "s_cont_ready", "s_cpu_desocupado", "s_esperar_cpu", "s_pcb_desalojado"}
            \subseteq Semaforos \ {"s_multiprogramacion_actual"}
      /\ "s_multiprogramacion_actual" \in Semaforos
  BY ColasTipos DEF Unico, Hilos, Semaforos
<1>1. Soltando' = Soltando
  <2>1. CASE ExecuteEnvia
    BY <2>1, RafagueoEnvia DEF Soltando
  <2>2. CASE ~ExecuteEnvia
    BY <2>2 DEF ready_execute, fifo_ready_execute, srt_ready_execute, Espera, Postea, Saca, SrtElige,
       SrtSalta, SrtHayInterrupcion, SrtMira, SrtCpu, SrtInterrumpe, SrtOcupa, Soltando
  <2>. QED  BY <2>1, <2>2
<1>2. hilo'["pasaje"] = hilo["pasaje"]
  BY <1>0, OtrosHilos DEF ready_execute, fifo_ready_execute, srt_ready_execute, Espera, Postea, Saca,
     ExecuteEnvia, SrtElige, SrtSalta, SrtHayInterrupcion, SrtMira, SrtCpu, SrtInterrumpe, SrtOcupa,
     Toma, Suelta
<1>3. sem'["s_multiprogramacion_actual"] = sem["s_multiprogramacion_actual"]
  BY <1>0 DEF ready_execute, fifo_ready_execute, srt_ready_execute, Espera, Postea, Saca, ExecuteEnvia,
     SrtElige, SrtSalta, SrtHayInterrupcion, SrtMira, SrtCpu, SrtInterrumpe, SrtOcupa, sem_post, sem_wait
<1>4. Estado' = Estado \/ \E p \in Pids : Pasan(p, "ready", "exec")
  BY EstadoExecute
<1>. QED  BY <1>1, <1>2, <1>3, <1>4, CuposAjeno DEF Libres, Tomado, OcupanCupo

LEMMA CuposEsperar ==
  ASSUME Unico, Vigila, Rafagueo, Cupos, Unico', UNCHANGED cpuVars, esperar_cpu
  PROVE  Cupos'
<1>0. /\ sem \in [Semaforos -> Nat] /\ "esperar" \in Hilos /\ "pasaje" \in Hilos \ {"esperar"} /\ Tipos
      /\ {"s_cont_ready", "s_cpu_desocupado", "s_esperar_cpu", "s_pcb_desalojado", "s_blocked",
           "s_ready_execute"} \subseteq Semaforos \ {"s_multiprogramacion_actual"}
      /\ "s_multiprogramacion_actual" \in Semaforos
  BY ColasTipos DEF Unico, Hilos, Semaforos
<1>1. Libres \in Nat /\ Tomado \in Nat /\ Soltando \in Nat /\ Cardinality(EnMemoria) \in Nat
  BY CuposTipos
<1>2. Soltando' = Soltando
  <2>1. CASE BlockedHilo
    <3>1. PICK w : w.fase = "arranque" /\ suspendiendo' = suspendiendo \cup {w}
      BY <2>1 DEF BlockedHilo
    <3>2. {v \in suspendiendo' : v.fase = "soltar"} = {v \in suspendiendo : v.fase = "soltar"}
      BY <3>1
    <3>. QED  BY <3>2 DEF Soltando
  <2>2. CASE ~BlockedHilo
    BY <2>2 DEF esperar_cpu, Espera, Postea, EsperarRecibe, EsperarLibera, ExitConsola, ExitMemoria, Lista,
       BlockedLista, FinInterrupcion, Soltando
  <2>. QED  BY <2>1, <2>2
<1>3. hilo'["pasaje"] = hilo["pasaje"]
  BY <1>0, OtrosHilos DEF esperar_cpu, Espera, Postea, EsperarRecibe, EsperarLibera, ExitConsola,
     ExitMemoria, Lista, BlockedLista, BlockedHilo, FinInterrupcion, Toma, Suelta
<1>4. CASE Postea("esperar", "x_grado", "s_multiprogramacion_actual", "x_memoria")
  <2>1. Cardinality(EnMemoria') = Cardinality(EnMemoria) - 1
    BY <1>4, EstadoEsperar, MemoriaPasa DEF OcupanCupo
  <2>2. Libres' = Libres + 1 /\ Tomado' = Tomado
    BY <1>0, <1>3, <1>4 DEF Postea, sem_post, Libres, Tomado
  <2>. QED  BY <1>1, <1>2, <2>1, <2>2 DEF Cupos
<1>5. CASE ~Postea("esperar", "x_grado", "s_multiprogramacion_actual", "x_memoria")
  <2>1. \/ Estado' = Estado \/ Pasan(mano["esperar"], "exec", "ready")
        \/ Pasan(mano["esperar"], "exec", "blocked")
    BY <1>5, EstadoEsperar
  <2>2. sem'["s_multiprogramacion_actual"] = sem["s_multiprogramacion_actual"]
    BY <1>0, <1>5 DEF esperar_cpu, Espera, Postea, EsperarRecibe, EsperarLibera, ExitConsola, ExitMemoria,
       Lista, BlockedLista, BlockedHilo, FinInterrupcion, sem_post, sem_wait
  <2>. QED  BY <1>2, <1>3, <2>1, <2>2, CuposAjeno DEF Libres, Tomado, OcupanCupo
<1>. QED  BY <1>4, <1>5

LEMMA CuposIo ==
  ASSUME Unico, Vigila, Cupos, Unico', UNCHANGED cpuVars, ejecutar_io
  PROVE  Cupos'
<1>0. /\ sem \in [Semaforos -> Nat] /\ "io" \in Hilos /\ "pasaje" \in Hilos \ {"io"} /\ Tipos
      /\ {"s_blocked", "s_pasaje_a_ready", "s_ready_execute", "s_cont_ready"}
            \subseteq Semaforos \ {"s_multiprogramacion_actual"}
      /\ "s_multiprogramacion_actual" \in Semaforos
  BY ColasTipos DEF Unico, Hilos, Semaforos
<1>1. Soltando' = Soltando /\ hilo'["pasaje"] = hilo["pasaje"]
  BY <1>0, OtrosHilos DEF ejecutar_io, Espera, Postea, IoToma, IoTermina, IoIteracion, IoSuspendido,
     IoListo, IoEncola, Lista, Toma, Suelta, Soltando
<1>2. sem'["s_multiprogramacion_actual"] = sem["s_multiprogramacion_actual"]
  BY <1>0 DEF ejecutar_io, Espera, Postea, IoToma, IoTermina, IoIteracion, IoSuspendido, IoListo, IoEncola,
     Lista, sem_post, sem_wait
<1>3. \/ Estado' = Estado
      \/ \E p \in Pids : Pasan(p, "blocked", "ready") \/ Pasan(p, "susp_blocked", "susp_ready")
  BY EstadoIo
<1>. QED  BY <1>1, <1>2, <1>3, CuposAjeno DEF Libres, Tomado, OcupanCupo

LEMMA CuposSuspendiendo ==
  ASSUME Unico, Vigila, Rafagueo, Cupos, Unico', UNCHANGED cpuVars, NEW v \in suspendiendo,
         hilo_suspendido(v)
  PROVE  Cupos'
<1>. DEFINE S == {w \in suspendiendo : w.fase = "soltar"}
            T == {w \in suspendiendo' : w.fase = "soltar"}
<1>0. /\ sem \in [Semaforos -> Nat] /\ "s_multiprogramacion_actual" \in Semaforos /\ v \in Vigilantes
      /\ suspendiendo \subseteq Vigilantes /\ IsFiniteSet(S)
  BY ColasTipos, VigilaTipos, FS_Subset DEF Unico, Semaforos, Rafagueo
<1>1. Libres \in Nat /\ Tomado \in Nat /\ Soltando \in Nat /\ Cardinality(EnMemoria) \in Nat
  BY CuposTipos
<1>2. Tomado' = Tomado
  BY DEF hilo_suspendido, SuspendiendoArranca, SuspendiendoDespierta, SuspendiendoSuelta, Tomado
<1>3. CASE Suspende(v)
  <2>1. Cardinality(EnMemoria') = Cardinality(EnMemoria) - 1
    BY <1>3, MemoriaPasa DEF Suspende, OcupanCupo
  <2>. DEFINE u == [v EXCEPT !.fase = "soltar"]
  <2>2. u.pid = v.pid /\ u.nro = v.nro /\ u.fase = "soltar" /\ v.fase = "dormido"
    BY <1>0, <1>3 DEF Vigilantes, Suspende, SuspendiendoDespierta
  <2>3. suspendiendo' = (suspendiendo \ {v}) \cup {u}
    BY <1>3 DEF Suspende
  <2>. HIDE DEF u
  <2>4. u \notin suspendiendo
    BY <2>2 DEF Rafagueo
  <2>5. T = S \cup {u} /\ u \notin S
    BY <2>2, <2>3, <2>4
  <2>6. Cardinality(T) = Cardinality(S) + 1
    BY <1>0, <2>5, FS_AddElement
  <2>7. Libres' = Libres
    BY <1>3 DEF Suspende, SuspendiendoDespierta, Libres
  <2>8. Soltando' = Soltando + 1
    BY <2>6 DEF Soltando
  <2>. QED  BY <1>1, <1>2, <2>1, <2>7, <2>8 DEF Cupos
<1>4. CASE ~Suspende(v)
  <2>1. Estado' = Estado /\ (SuspendiendoDespierta(v) => suspendiendo' = suspendiendo \ {v})
    BY <1>4, EstadoSuspendiendo
  <2>2. CASE SuspendiendoSuelta(v)
    <3>1. T = S \ {v} /\ v \in S
      BY <2>2 DEF SuspendiendoSuelta, CambiaVigilante
    <3>2. Cardinality(T) = Cardinality(S) - 1
      BY <1>0, <3>1, FS_RemoveElement
    <3>3. Soltando' = Soltando - 1
      BY <3>2 DEF Soltando
    <3>4. Libres' = Libres + 1
      BY <1>0, <2>2 DEF SuspendiendoSuelta, sem_post, Libres
    <3>5. Cardinality(EnMemoria') = Cardinality(EnMemoria)
      BY <2>1 DEF EnMemoria
    <3>. QED  BY <1>1, <1>2, <3>3, <3>4, <3>5 DEF Cupos
  <2>3. CASE SuspendiendoDespierta(v)
    <3>1. T = S
      BY <2>1, <2>3 DEF SuspendiendoDespierta
    <3>2. Soltando' = Soltando /\ Libres' = Libres
      BY <2>3, <3>1 DEF SuspendiendoDespierta, Soltando, Libres
    <3>. QED  BY <1>2, <2>1, <3>2, CuposAjeno
  <2>4. CASE SuspendiendoArranca(v)
    <3>1. PICK k : CambiaVigilante(v, {[v EXCEPT !.fase = "dormido", !.clave = k,
                     !.iter = IF k \in Pids THEN iteracion_blocked[k] ELSE 0]})
      BY <2>4 DEF SuspendiendoArranca
    <3>. DEFINE u == [v EXCEPT !.fase = "dormido", !.clave = k,
                       !.iter = IF k \in Pids THEN iteracion_blocked[k] ELSE 0]
    <3>2. u.fase = "dormido" /\ v.fase = "arranque" /\ suspendiendo' = (suspendiendo \ {v}) \cup {u}
      BY <1>0, <2>4, <3>1 DEF Vigilantes, SuspendiendoArranca, CambiaVigilante
    <3>. HIDE DEF u
    <3>3. T = S
      BY <3>2
    <3>4. Soltando' = Soltando /\ Libres' = Libres
      BY <2>4, <3>3 DEF SuspendiendoArranca, Soltando, Libres
    <3>. QED  BY <1>2, <2>1, <3>4, CuposAjeno
  <2>. QED  BY <2>2, <2>3, <2>4 DEF hilo_suspendido
<1>. QED  BY <1>3, <1>4

LEMMA CuposResto ==
  ASSUME Unico, Cupos, Unico',
         \/ (\E p \in Pids : procesar_socket(p)) /\ UNCHANGED cpuVars
         \/ Cpu \/ MemoriaElimina \/ UNCHANGED vars
  PROVE  Cupos'
<1>0. sem \in [Semaforos -> Nat] /\ {"s_pasaje_a_ready", "s_multiprogramacion_actual"} \subseteq Semaforos
  BY ColasTipos DEF Unico, Semaforos
<1>1. UNCHANGED <<hilo, suspendiendo>>
      /\ sem'["s_multiprogramacion_actual"] = sem["s_multiprogramacion_actual"]
  <2>1. ASSUME NEW p \in Pids, procesar_socket(p)
        PROVE  /\ UNCHANGED <<hilo, suspendiendo>>
               /\ sem'["s_multiprogramacion_actual"] = sem["s_multiprogramacion_actual"]
    BY <1>0, <2>1 DEF procesar_socket, ConsolaEncola, ConsolaSocket, ConsolaIteracion, ConsolaAvisa,
       sem_post
  <2>2. CASE Cpu \/ MemoriaElimina \/ UNCHANGED vars
    BY <2>2 DEF Cpu, MemoriaElimina, vars, kernelVars
  <2>. QED  BY <2>1, <2>2
<1>2. Estado' = Estado \/ \E p \in Pids : Pasan(p, "llega", "new")
  BY EstadoConsola, EstadoResto
<1>. QED  BY <1>1, <1>2, CuposAjeno DEF Libres, Tomado, Soltando, OcupanCupo

LEMMA CuposNext ==
  Unico /\ Unico' /\ Vigila /\ Rafagueo /\ Cupos /\ [Next]_vars => Cupos'
BY CuposPasaje, CuposExecute, CuposEsperar, CuposIo, CuposSuspendiendo, CuposResto
   DEF Next, Kernel, NextKernel

LEMMA CuposInit == Init => Cupos
<1>. SUFFICES ASSUME Init PROVE Cupos
  OBVIOUS
<1>1. Libres = Grado /\ Tomado = 0
  BY DEF Init, InitKernel, Libres, Tomado, Uno, Semaforos, Hilos
<1>2. Soltando = 0
  <2>1. {v \in suspendiendo : v.fase = "soltar"} = {}
    BY DEF Init, InitKernel
  <2>. QED  BY <2>1, FS_EmptySet DEF Soltando
<1>3. Cardinality(EnMemoria) = 0
  <2>1. EnMemoria = {}
    <3>1. \A p \in Pids : Estado[p] = "llega"
      <4>1. \A p \in Pids : consola[p] = "conectada"
        BY DEF Init, InitKernel
      <4>2. EstadoSegun
        BY UnicoInit, EstadoSegunLugares DEF UnicoSalidas
      <4>. QED  BY <4>1, <4>2 DEF EstadoSegun
    <3>. QED  BY <3>1 DEF EnMemoria, OcupanCupo
  <2>. QED  BY <2>1, FS_EmptySet
<1>. QED  BY <1>1, <1>2, <1>3, GradoAssumption DEF Cupos

DeGrado == Vigilado /\ Rafagueo /\ Cupos

LEMMA DeGradoInit == Init => DeGrado
BY VigiladoInit, RafagueoInit, CuposInit DEF DeGrado

LEMMA DeGradoNext ==
  ASSUME ~ArranqueTardio, ~RegistroTardio
  PROVE  DeGrado /\ [Next]_vars => DeGrado'
BY VigiladoNext, RafagueoNext, CuposNext DEF DeGrado, Vigilado, UnicoSalidas

\* The multiprogramming degree is neither lost nor exceeded: the semaphore, the
\* slots in threads' hands and the processes in main memory always add up to
\* GRADO_MULTIPROGRAMACION, under FIFO and SRT.
THEOREM GradoCorrecto ==
  ASSUME ~ArranqueTardio, ~RegistroTardio
  PROVE  Spec => []GradoConservado
<1>1. DeGrado => GradoConservado
  <2>. SUFFICES ASSUME DeGrado PROVE GradoConservado
    OBVIOUS
  <2>1. EnMemoria = {p \in Pids : EstadoDe(p) \in {"ready", "exec", "blocked"}}
    BY DEF EnMemoria, Estado, OcupanCupo
  <2>. QED  BY <2>1 DEF DeGrado, Cupos, GradoConservado, Libres, Tomado, Soltando
<1>. QED  BY <1>1, DeGradoInit, DeGradoNext, PTL DEF Spec

-----------------------------------------------------------------------------
(* The frames                                                              *)

\* The processes with frames in use.
Residentes == {p \in Pids : memoria[p] = "residente"} \ ToSet(bajas)
Residen ==
  /\ Residentes \subseteq EnMemoria \cup ToSet(En["salida"])
  /\ Cardinality(Residentes) <= Grado

LEMMA ResidenPaso ==
  ASSUME Residen, Residentes' \subseteq Residentes,
         Residentes' \subseteq EnMemoria' \cup ToSet(En'["salida"])
  PROVE  Residen'
<1>1. IsFiniteSet(Residentes)
  BY PidsAssumption, FS_Subset DEF Residentes
<1>2. Cardinality(Residentes') <= Cardinality(Residentes)
  BY <1>1, FS_Subset
<1>3. Cardinality(Residentes) \in Nat /\ Cardinality(Residentes') \in Nat
  BY <1>1, FS_Subset, FS_CardinalityType
<1>. QED  BY <1>2, <1>3, GradoAssumption DEF Residen

\* A thread that is not esperar_cpu and frees no slot.
LEMMA ResidenAjeno ==
  ASSUME Residen, Residentes' \subseteq Residentes,
         hilo'["esperar"] = hilo["esperar"], mano'["esperar"] = mano["esperar"],
         \/ Estado' = Estado
         \/ \E p, a, b : Pasan(p, a, b) /\ (a \in OcupanCupo => b \in OcupanCupo)
  PROVE  Residen'
<1>1. En'["salida"] = En["salida"]
  BY DEF En, Enlazado, Lugares
<1>2. EnMemoria \subseteq EnMemoria'
  <2>1. CASE Estado' = Estado
    BY <2>1 DEF EnMemoria
  <2>2. CASE \E p, a, b : Pasan(p, a, b) /\ (a \in OcupanCupo => b \in OcupanCupo)
    <3>1. PICK p, a, b : Pasan(p, a, b) /\ (a \in OcupanCupo => b \in OcupanCupo)
      BY <2>2
    <3>2. Estado[p] = a /\ Estado'[p] = b /\ \A q \in Pids \ {p} : Estado'[q] = Estado[q]
      BY <3>1 DEF Pasan, Estado
    <3>. QED  BY <3>1, <3>2 DEF EnMemoria
  <2>. QED  BY <2>1, <2>2
<1>. QED  BY <1>1, <1>2, ResidenPaso DEF Residen

LEMMA ResidenPasaje ==
  ASSUME Unico, Unico', Residen, UNCHANGED cpuVars, pasaje_a_ready
  PROVE  Residen'
<1>0. /\ Tipos /\ "pasaje" \in Hilos /\ "esperar" \in Hilos \ {"pasaje"}
      /\ memoria \in [Pids -> {"sin", "tablas", "residente"}]
  BY DEF Unico, Hilos, Tipos, TypeOK, TypeCanales
<1>1. Residentes' \subseteq Residentes
  BY <1>0 DEF pasaje_a_ready, Espera, Postea, PasajeMira, PasajeNew, PasajeSusp, Lista, entornoVars,
     memVars, Residentes
<1>2. hilo'["esperar"] = hilo["esperar"] /\ mano'["esperar"] = mano["esperar"]
  BY <1>0, OtrosHilos DEF pasaje_a_ready, Espera, Postea, PasajeMira, PasajeNew, PasajeSusp, Lista, Toma,
     Suelta
<1>3. Estado' = Estado \/ \E p, a : Pasan(p, a, "ready")
  BY EstadoPasaje
<1>. QED  BY <1>1, <1>2, <1>3, ResidenAjeno DEF OcupanCupo

LEMMA ResidenExecute ==
  ASSUME Unico, Unico', Residen, UNCHANGED cpuVars, ready_execute
  PROVE  Residen'
<1>0. Tipos /\ "execute" \in Hilos /\ "esperar" \in Hilos \ {"execute"}
  BY DEF Unico, Hilos
<1>1. Residentes' \subseteq Residentes
  BY DEF ready_execute, fifo_ready_execute, srt_ready_execute, Espera, Postea, Saca, ExecuteEnvia, SrtElige,
     SrtSalta, SrtHayInterrupcion, SrtMira, SrtCpu, SrtInterrumpe, SrtOcupa, entornoVars, memVars, Residentes
<1>2. hilo'["esperar"] = hilo["esperar"] /\ mano'["esperar"] = mano["esperar"]
  BY <1>0, OtrosHilos DEF ready_execute, fifo_ready_execute, srt_ready_execute, Espera, Postea, Saca,
     ExecuteEnvia, SrtElige, SrtSalta, SrtHayInterrupcion, SrtMira, SrtCpu, SrtInterrumpe, SrtOcupa, Toma,
     Suelta
<1>3. Estado' = Estado \/ \E p : Pasan(p, "ready", "exec")
  BY EstadoExecute
<1>. QED  BY <1>1, <1>2, <1>3, ResidenAjeno DEF OcupanCupo

LEMMA ResidenIo ==
  ASSUME Unico, Unico', Vigila, Residen, UNCHANGED cpuVars, ejecutar_io
  PROVE  Residen'
<1>0. Tipos /\ "io" \in Hilos /\ "esperar" \in Hilos \ {"io"}
  BY DEF Unico, Hilos
<1>1. Residentes' \subseteq Residentes
  BY DEF ejecutar_io, Espera, Postea, IoToma, IoTermina, IoIteracion, IoSuspendido, IoListo, IoEncola, Lista,
     entornoVars, memVars, Residentes
<1>2. hilo'["esperar"] = hilo["esperar"] /\ mano'["esperar"] = mano["esperar"]
  BY <1>0, OtrosHilos DEF ejecutar_io, Espera, Postea, IoToma, IoTermina, IoIteracion, IoSuspendido,
     IoListo, IoEncola, Lista, Toma, Suelta
<1>3. Estado' = Estado \/ \E p, b : Pasan(p, "blocked", "ready") \/ Pasan(p, "susp_blocked", b)
  BY EstadoIo
<1>. QED  BY <1>1, <1>2, <1>3, ResidenAjeno DEF OcupanCupo

\* A process loses its slot when it exits, while it still holds its frames, and
\* memory is told to forget it in the next step but one.
LEMMA ResidenEsperar ==
  ASSUME Unico, Unico', Vigila, Residen, UNCHANGED cpuVars, esperar_cpu
  PROVE  Residen'
<1>0. {"esperar", "salida", "ready", "blocked"} \subseteq Lugares
  BY DEF Lugares
<1>1. CASE Postea("esperar", "x_grado", "s_multiprogramacion_actual", "x_memoria")
  <2>1. PICK p : p = mano["esperar"]
    OBVIOUS
  <2>2. Traslada(p, "esperar", "salida") /\ Pasan(p, "exec", "exit")
    BY <1>1, <2>1, LugaresEsperar, EstadoEsperar
  <2>3. ToSet(En'["salida"]) = ToSet(En["salida"]) \cup {p} /\ EnMemoria' \cup {p} = EnMemoria
    <3>1. Estado[p] = "exec" /\ p \in Pids /\ \A q \in Pids \ {p} : Estado'[q] = Estado[q]
      BY <2>2 DEF Pasan, Estado
    <3>. QED  BY <2>2, <3>1 DEF Traslada, Mueve, Pone, EnMemoria, OcupanCupo
  <2>4. Residentes' = Residentes
    BY <1>1 DEF Postea, Residentes, entornoVars, memVars
  <2>. QED  BY <2>3, <2>4, ResidenPaso DEF Residen
<1>2. CASE ExitMemoria
  <2>1. PICK p : p = mano["esperar"]
    OBVIOUS
  <2>2. Sale(En, En', p, "salida") /\ Estado' = Estado
    <3>1. ~(\/ Postea("esperar", "x_grado", "s_multiprogramacion_actual", "x_memoria")
            \/ Lista("esperar", "i_listar", "i_cr") \/ BlockedLista)
      BY <1>2 DEF ExitMemoria, Postea, Lista, BlockedLista, Va
    <3>. QED  BY <1>2, <2>1, <3>1, LugaresEsperar, EstadoEsperar DEF esperar_cpu
  <2>3. ToSet(En'["salida"]) = ToSet(En["salida"]) \ {p} /\ p \in Pids
    BY <1>0, <2>2, ToSetPosiciones DEF Sale, Quita, Unico, Repartida
  <2>4. ToSet(bajas') = ToSet(bajas) \cup {p}
    BY <1>2, <2>1, <2>3, ListaAgrega DEF ExitMemoria, Unico, Tipos, TypeOK, TypeCanales
  <2>5. Residentes' = Residentes \ {p}
    BY <1>2, <2>4 DEF ExitMemoria, Residentes
  <2>6. EnMemoria' = EnMemoria
    BY <2>2 DEF EnMemoria
  <2>. QED  BY <2>3, <2>5, <2>6, ResidenPaso DEF Residen
<1>3. CASE ~(ExitMemoria \/ Postea("esperar", "x_grado", "s_multiprogramacion_actual", "x_memoria"))
  <2>1. /\ Residentes' = Residentes
    BY <1>3 DEF esperar_cpu, Espera, Postea, EsperarRecibe, EsperarLibera, ExitConsola, Lista, BlockedLista,
       BlockedHilo, FinInterrupcion, entornoVars, memVars, Residentes
  <2>2. \/ Quieto \/ Traslada(Head(retorno)[2], "retorno", "esperar")
        \/ Traslada(mano["esperar"], "esperar", "ready") \/ Traslada(mano["esperar"], "esperar", "blocked")
    BY <1>3, LugaresEsperar, EsperarQuieto, RecibeTraslada DEF esperar_cpu
  <2>3. En'["salida"] = En["salida"]
    BY <1>0, <2>2 DEF Quieto, Traslada, Mueve, Lugares
  <2>4. EnMemoria \subseteq EnMemoria'
    <3>1. \/ Estado' = Estado
          \/ \E p \in Pids, b \in {"ready", "blocked"} : Pasan(p, "exec", b)
      BY <1>3, EstadoEsperar DEF Pasan
    <3>. QED  BY <3>1 DEF EnMemoria, OcupanCupo, Pasan, Estado
  <2>. QED  BY <2>1, <2>3, <2>4, ResidenPaso DEF Residen
<1>. QED  BY <1>1, <1>2, <1>3

\* A suspended process has no frame in use when its slot is given back.
LEMMA ResidenSuspendiendo ==
  ASSUME Unico, Unico', Vigila, Residen, UNCHANGED cpuVars, NEW v \in suspendiendo, hilo_suspendido(v)
  PROVE  Residen'
<1>0. memoria \in [Pids -> {"sin", "tablas", "residente"}]
  BY DEF Unico, Tipos, TypeOK, TypeCanales
<1>1. UNCHANGED <<hilo, mano, bajas>>
  BY DEF hilo_suspendido, SuspendiendoArranca, SuspendiendoDespierta, SuspendiendoSuelta, entornoVars, memVars
<1>2. Residentes' \subseteq Residentes
  BY <1>0 DEF hilo_suspendido, SuspendiendoArranca, SuspendiendoDespierta, SuspendiendoSuelta, entornoVars,
     memVars, Residentes
<1>3. CASE Estado' = Estado
  BY <1>1, <1>2, <1>3, ResidenAjeno
<1>4. CASE Suspende(v)
  <2>1. PICK p : p = v.pid
    OBVIOUS
  <2>2. Pasan(p, "blocked", "susp_blocked")
    BY <1>4, <2>1 DEF Suspende
  <2>3. memoria'[p] = "tablas"
    BY <1>0, <1>4, <2>1, <2>2 DEF Suspende, Pasan
  <2>4. p \notin Residentes' /\ EnMemoria \ {p} \subseteq EnMemoria'
    BY <2>2, <2>3 DEF Residentes, Pasan, EnMemoria, Estado
  <2>5. En'["salida"] = En["salida"]
    BY <1>1 DEF En, Enlazado, Lugares
  <2>. QED  BY <1>2, <2>4, <2>5, ResidenPaso DEF Residen
<1>. QED  BY <1>3, <1>4, EstadoSuspendiendo

LEMMA ResidenCiclo ==
  ASSUME Unico, Unico', Rafagueo, Turno, Cupos, Residen, CpuCiclo, UNCHANGED kernelVars
  PROVE  Residen'
<1>0. /\ memoria \in [Pids -> {"sin", "tablas", "residente"}]
      /\ {"cpu", "salida"} \subseteq Lugares /\ "cpu" \in EnLaCpu
      /\ sem["s_cpu_desocupado"] \in Nat
  BY ColasTipos DEF Unico, Tipos, TypeOK, TypeCanales, Lugares, EnLaCpu, Semaforos
<1>1. cpuPcb \in Pids
  BY DEF CpuCiclo, Unico, Tipos, Manos
<1>2. En["cpu"] = <<cpuPcb>>
  BY <1>1, EnValores, NadieAssumption
<1>3. cpuPcb \in EnMemoria
  <2>1. EstadoSegun /\ cpuPcb \in ToSet(En["cpu"])
    BY <1>2, EstadoSegunLugares DEF ToSet
  <2>. QED  BY <1>0, <1>1, <2>1 DEF EstadoSegun, Etapa, EnLaCpu, EnMemoria, OcupanCupo
<1>4. En["salida"] = << >>
  <2>1. Ocupados >= 1 /\ Ocupados \in Nat
    <3>. DEFINE L(l) == Len(En[l])
    <3>1. L("cpu") = 1 /\ {"execute", "dispatch", "cpu", "retorno", "esperar"} \subseteq Lugares
      BY <1>2 DEF Lugares
    <3>2. \A l \in Lugares : L(l) \in Nat
      BY DEF Unico, Repartida
    <3>3. Ocupados = L("execute") + L("dispatch") + L("cpu") + L("retorno") + L("esperar")
      BY DEF Ocupados
    <3>. HIDE DEF L
    <3>4. L("execute") \in Nat /\ L("dispatch") \in Nat /\ L("retorno") \in Nat /\ L("esperar") \in Nat
      BY <3>1, <3>2
    <3>. QED  BY <3>1, <3>3, <3>4
  <2>2. hilo["esperar"] \notin EntreSalidaYCpu
    BY <1>0, <2>1 DEF Turno, Uno
  <2>. QED  BY <2>2, EnValores DEF Enlazado, EntreSalidaYCpu
<1>5. Estado' = Estado
  BY EstadoResto DEF Cpu, NextCpu, CpuMain
<1>6. EnMemoria' = EnMemoria
  BY <1>5 DEF EnMemoria
<1>7. Residentes' \subseteq EnMemoria
  <2>1. Residentes' \subseteq Residentes \cup {cpuPcb}
    BY <1>0, <1>1 DEF CpuCiclo, Residentes
  <2>. QED  BY <1>3, <1>4, <2>1 DEF Residen, ToSet
<1>8. Cardinality(Residentes') <= Grado
  <2>1. Cardinality(EnMemoria) <= Grado
    BY CuposTipos, GradoAssumption DEF Cupos
  <2>2. Cardinality(Residentes') <= Cardinality(EnMemoria) /\ Cardinality(Residentes') \in Nat
    BY <1>7, CuposTipos, FS_Subset, FS_CardinalityType
  <2>. QED  BY <2>1, <2>2, CuposTipos, GradoAssumption
<1>. QED  BY <1>6, <1>7, <1>8 DEF Residen

LEMMA ResidenResto ==
  ASSUME Unico, Unico', Residen,
         \/ (\E p \in Pids : procesar_socket(p)) /\ UNCHANGED cpuVars
         \/ Cpu /\ ~CpuCiclo
         \/ MemoriaElimina \/ UNCHANGED vars
  PROVE  Residen'
<1>0. memoria \in [Pids -> {"sin", "tablas", "residente"}] /\ bajas \in Seq(Pids)
  BY DEF Unico, Tipos, TypeOK, TypeCanales
<1>1. UNCHANGED <<hilo, mano>>
  BY DEF procesar_socket, ConsolaEncola, ConsolaSocket, ConsolaIteracion, ConsolaAvisa, Cpu, MemoriaElimina,
     vars, kernelVars
<1>2. Estado' = Estado \/ \E p : Pasan(p, "llega", "new")
  BY EstadoConsola, EstadoResto
<1>3. Residentes' \subseteq Residentes
  <2>1. CASE MemoriaElimina
    <3>1. Head(bajas) \in Pids /\ ToSet(bajas) \subseteq ToSet(bajas') \cup {Head(bajas)}
      BY <1>0, <2>1, ListaPrimero DEF MemoriaElimina
    <3>. QED  BY <1>0, <2>1, <3>1 DEF MemoriaElimina, Residentes
  <2>2. CASE ~MemoriaElimina
    BY <2>2 DEF procesar_socket, ConsolaEncola, ConsolaSocket, ConsolaIteracion, ConsolaAvisa, Cpu, NextCpu,
       CpuMain, CpuRecibe, CpuFinRafaga, CpuDevuelve, CpuInterrupcion, vars, memVars, entornoVars, Residentes
  <2>. QED  BY <2>1, <2>2
<1>. QED  BY <1>1, <1>2, <1>3, ResidenAjeno DEF OcupanCupo

LEMMA ResidenNext ==
  Unico /\ Unico' /\ Vigila /\ Rafagueo /\ Turno /\ Cupos /\ Residen /\ [Next]_vars => Residen'
BY ResidenPasaje, ResidenExecute, ResidenIo, ResidenEsperar, ResidenSuspendiendo, ResidenCiclo, ResidenResto
   DEF Next, Kernel, NextKernel, Cpu, NextCpu, CpuMain

LEMMA ResidenInit == Init => Residen
<1>. SUFFICES ASSUME Init PROVE Residen
  OBVIOUS
<1>1. Residentes = {}
  BY DEF Init, InitCanales, Residentes
<1>. QED  BY <1>1, FS_EmptySet, GradoAssumption DEF Residen

FifoGrado == Fifo /\ DeGrado /\ Residen

LEMMA FifoGradoInit ==
  ASSUME Algoritmo = "FIFO"
  PROVE  Init => FifoGrado
BY FifoInit, DeGradoInit, ResidenInit DEF FifoGrado

LEMMA FifoGradoNext ==
  ASSUME Algoritmo = "FIFO", ~ArranqueTardio, ~RegistroTardio
  PROVE  FifoGrado /\ [Next]_vars => FifoGrado'
<1>. SUFFICES ASSUME FifoGrado, [Next]_vars PROVE FifoGrado'
  OBVIOUS
<1>1. Fifo' /\ DeGrado'
  BY FifoNext, DeGradoNext DEF FifoGrado
<1>. QED  BY <1>1, ResidenNext DEF FifoGrado, Fifo, DeGrado, Vigilado, UnicoSalidas

\* Under FIFO at most GRADO_MULTIPROGRAMACION processes hold frames, although
\* esperar_cpu gives the slot of a finished process back before it asks memory
\* for its frames: no other process reaches the CPU, where frames are taken,
\* until esperar_cpu has asked.
THEOREM ResidentesCorrecto ==
  ASSUME Algoritmo = "FIFO", ~ArranqueTardio, ~RegistroTardio
  PROVE  Spec => []ResidentesAcotados
<1>1. FifoGrado => ResidentesAcotados
  BY DEF FifoGrado, Residen, Residentes, ResidentesAcotados
<1>. QED  BY <1>1, FifoGradoInit, FifoGradoNext, PTL DEF Spec

-----------------------------------------------------------------------------
(* The diagram                                                             *)

LEMMA DiagramaPasa ==
  ASSUME NEW p, NEW a, NEW b, Pasan(p, a, b)
  PROVE  p \in Pids /\ Diagrama!Pasa(p, a, b)
BY DEF Pasan, Estado, Diagrama!Pasa

LEMMA HayLugar ==
  ASSUME Unico, Rafagueo, Cupos, hilo["pasaje"] \in {"mirar", "new", "susp"}
  PROVE  Cardinality(Diagrama!EnMemoria) < Grado
<1>1. Diagrama!EnMemoria = EnMemoria
  BY DEF Diagrama!EnMemoria, EnMemoria, Estado, OcupanCupo
<1>2. Tomado = 1
  BY DEF Tomado, Uno
<1>. QED  BY <1>1, <1>2, CuposTipos, GradoAssumption DEF Cupos

LEMMA CpuLibre ==
  ASSUME Unico, Turno, hilo["execute"] = "f_sacar"
  PROVE  \A q \in Pids : Estado[q] # "exec"
<1>1. Ocupados = 0
  <2>1. sem["s_cpu_desocupado"] \in Nat /\ Ocupados \in Nat
    BY ColasTipos, OcupadosPaso DEF Unico, Semaforos
  <2>2. Uno(hilo["execute"] \in {"f_cr", "f_sacar"}) = 1
    BY DEF Uno
  <2>. QED  BY <2>1, <2>2 DEF Turno, Uno
<1>2. \A l \in EnLaCpu : Len(En[l]) = 0
  <2>. DEFINE L(l) == Len(En[l])
  <2>1. {"execute", "dispatch", "cpu", "retorno", "esperar"} \subseteq Lugares
    BY DEF Lugares
  <2>2. \A l \in Lugares : L(l) \in Nat
    BY DEF Unico, Repartida
  <2>3. Ocupados = L("execute") + L("dispatch") + L("cpu") + L("retorno") + L("esperar")
    BY DEF Ocupados
  <2>. HIDE DEF L
  <2>4. /\ L("execute") \in Nat /\ L("dispatch") \in Nat /\ L("cpu") \in Nat
        /\ L("retorno") \in Nat /\ L("esperar") \in Nat
    BY <2>1, <2>2
  <2>5. L("execute") = 0 /\ L("dispatch") = 0 /\ L("cpu") = 0 /\ L("retorno") = 0 /\ L("esperar") = 0
    <3>1. PICK a \in Nat, b \in Nat, c \in Nat, d \in Nat, e \in Nat :
            /\ a = L("execute") /\ b = L("dispatch") /\ c = L("cpu")
            /\ d = L("retorno") /\ e = L("esperar")
      BY <2>4
    <3>2. a + b + c + d + e = 0
      BY <1>1, <2>3, <3>1
    <3>3. a = 0 /\ b = 0 /\ c = 0 /\ d = 0 /\ e = 0
      BY <3>2
    <3>. QED  BY <3>1, <3>3
  <2>6. \A l \in EnLaCpu : L(l) = 0
    BY <2>5 DEF EnLaCpu
  <2>. QED  BY <2>6 DEF L
<1>3. \A l \in EnLaCpu : ToSet(En[l]) = {}
  BY <1>2, ToSetPosiciones DEF Unico, Repartida, EnLaCpu, Lugares
<1>4. EstadoSegun
  BY EstadoSegunLugares
<1>5. ASSUME NEW q \in Pids PROVE Estado[q] # "exec"
  BY <1>3, <1>4 DEF EstadoSegun, Etapa, Lugares, EnLaCpu
<1>. QED  BY <1>5

LEMMA DiagramaPasaje ==
  ASSUME Unico, Unico', Rafagueo, Cupos, UNCHANGED cpuVars, pasaje_a_ready
  PROVE  Diagrama!Next \/ Estado' = Estado
<1>1. CASE PasajeNew
  <2>1. PICK p : p = Head(cola_new)
    OBVIOUS
  <2>2. Pasan(p, "new", "ready") /\ hilo["pasaje"] = "new"
    BY <1>1, <2>1, EstadoPasaje DEF PasajeNew, Va
  <2>3. Diagrama!Admite(p) /\ p \in Pids
    <3>1. p \in Pids /\ Diagrama!Pasa(p, "new", "ready")
      BY <2>2, DiagramaPasa
    <3>2. Cardinality(Diagrama!EnMemoria) < Grado
      BY <2>2, HayLugar
    <3>. QED  BY <3>1, <3>2 DEF Diagrama!Admite, Diagrama!Cardinality, Cardinality
  <2>. QED  BY <2>3 DEF Diagrama!Next
<1>2. CASE PasajeSusp
  <2>1. PICK p : p = Head(cola_suspended_ready)
    OBVIOUS
  <2>2. Pasan(p, "susp_ready", "ready") /\ hilo["pasaje"] = "susp"
    BY <1>2, <2>1, EstadoPasaje DEF PasajeSusp, Va
  <2>3. Diagrama!Reanuda(p) /\ p \in Pids
    <3>1. p \in Pids /\ Diagrama!Pasa(p, "susp_ready", "ready")
      BY <2>2, DiagramaPasa
    <3>2. Cardinality(Diagrama!EnMemoria) < Grado
      BY <2>2, HayLugar
    <3>. QED  BY <3>1, <3>2 DEF Diagrama!Reanuda, Diagrama!Cardinality, Cardinality
  <2>. QED  BY <2>3 DEF Diagrama!Next
<1>. QED  BY <1>1, <1>2, EstadoPasaje

LEMMA DiagramaExecute ==
  ASSUME Unico, Unico', Algoritmo = "FIFO" => SinDesalojo /\ Turno, UNCHANGED cpuVars, ready_execute
  PROVE  Diagrama!Next \/ Estado' = Estado
<1>1. ASSUME NEW p \in Pids, Pasan(p, "ready", "exec"), hilo["execute"] \in {"f_sacar", "s_elegir"}
      PROVE  Diagrama!Next
  <2>1. CASE Algoritmo = "FIFO"
    <3>1. hilo["execute"] = "f_sacar"
      BY <1>1, <2>1 DEF SinDesalojo, EtiquetasFifo
    <3>2. \A q \in Pids : Estado[q] # "exec"
      BY <2>1, <3>1, CpuLibre
    <3>3. Diagrama!Ejecuta(p)
      BY <1>1, <3>2, DiagramaPasa DEF Diagrama!Ejecuta, Estado
    <3>. QED  BY <3>3 DEF Diagrama!Next
  <2>2. CASE Algoritmo = "SRT"
    BY <1>1, <2>2, DiagramaPasa DEF Diagrama!Next, Diagrama!Ejecuta
  <2>. QED  BY <2>1, <2>2, AlgoritmoAssumption
<1>. QED  BY <1>1, EstadoExecute

\* Only SRT evicts.
LEMMA DiagramaEsperar ==
  ASSUME Unico, Unico', Vigila, Algoritmo = "FIFO" => SinDesalojo, UNCHANGED cpuVars, esperar_cpu
  PROVE  Diagrama!Next \/ Estado' = Estado
<1>1. PICK p : p = mano["esperar"]
  OBVIOUS
<1>2. CASE Lista("esperar", "i_listar", "i_cr")
  <2>1. Algoritmo = "SRT"
    BY <1>2, AlgoritmoAssumption DEF SinDesalojo, Lista, Va
  <2>2. Pasan(p, "exec", "ready")
    BY <1>1, <1>2, EstadoEsperar
  <2>. QED  BY <2>1, <2>2, DiagramaPasa DEF Diagrama!Next, Diagrama!Desaloja
<1>3. CASE ~Lista("esperar", "i_listar", "i_cr")
  <2>1. Estado' = Estado \/ Pasan(p, "exec", "exit") \/ Pasan(p, "exec", "blocked")
    BY <1>1, <1>3, EstadoEsperar
  <2>2. ASSUME Pasan(p, "exec", "exit") \/ Pasan(p, "exec", "blocked") PROVE Diagrama!Next
    BY <2>2, DiagramaPasa DEF Diagrama!Next, Diagrama!Termina, Diagrama!Bloquea
  <2>. QED  BY <2>1, <2>2
<1>. QED  BY <1>2, <1>3

LEMMA DiagramaResto ==
  ASSUME Unico, Unico', Vigila,
         \/ (\/ \E p \in Pids : procesar_socket(p)
             \/ ejecutar_io
             \/ \E v \in suspendiendo : hilo_suspendido(v)) /\ UNCHANGED cpuVars
         \/ Cpu \/ MemoriaElimina \/ UNCHANGED vars
  PROVE  Diagrama!Next \/ Estado' = Estado
<1>1. \/ Estado' = Estado
      \/ \E p \in Pids : \/ Pasan(p, "llega", "new") \/ Pasan(p, "blocked", "susp_blocked")
                         \/ Pasan(p, "blocked", "ready") \/ Pasan(p, "susp_blocked", "susp_ready")
  BY EstadoConsola, EstadoIo, EstadoSuspendiendo, EstadoResto DEF Suspende, Pasan
<1>2. ASSUME NEW p \in Pids,
             \/ Pasan(p, "llega", "new") \/ Pasan(p, "blocked", "susp_blocked")
             \/ Pasan(p, "blocked", "ready") \/ Pasan(p, "susp_blocked", "susp_ready")
      PROVE  Diagrama!Next
  BY <1>2, DiagramaPasa DEF Diagrama!Next, Diagrama!Crea, Diagrama!Suspende, Diagrama!FinIo
<1>. QED  BY <1>1, <1>2

\* The degree under either algorithm, and the CPU's turn under FIFO.
Diagramado == DeGrado /\ (Algoritmo = "FIFO" => Fifo)

LEMMA DiagramadoInit == Init => Diagramado
BY DeGradoInit, FifoInit DEF Diagramado

LEMMA DiagramadoNext ==
  ASSUME ~ArranqueTardio, ~RegistroTardio
  PROVE  Diagramado /\ [Next]_vars => Diagramado'
BY DeGradoNext, FifoNext DEF Diagramado

LEMMA DiagramaNext ==
  Diagramado /\ Diagramado' /\ [Next]_vars => Diagrama!Next \/ Estado' = Estado
<1>. SUFFICES ASSUME Diagramado, Diagramado', [Next]_vars PROVE Diagrama!Next \/ Estado' = Estado
  OBVIOUS
<1>1. /\ Unico /\ Unico' /\ Vigila /\ Rafagueo /\ Cupos
      /\ Algoritmo = "FIFO" => SinDesalojo /\ Turno
  BY DEF Diagramado, Fifo, DeGrado, Vigilado, UnicoSalidas
<1>. QED  BY <1>1, DiagramaPasaje, DiagramaExecute, DiagramaEsperar, DiagramaResto
          DEF Next, Kernel, NextKernel

LEMMA DiagramaInit == Init => Diagrama!Init
<1>. SUFFICES ASSUME Init PROVE Diagrama!Init
  OBVIOUS
<1>1. EstadoSegun
  BY UnicoInit, EstadoSegunLugares DEF UnicoSalidas
<1>2. \A p \in Pids : consola[p] = "conectada"
  BY DEF Init, InitKernel
<1>. QED  BY <1>1, <1>2 DEF EstadoSegun, Estado, Diagrama!Init

\* The scheduler, its five threads, its semaphores and its queues, implements
\* the diagram of process states: each process goes only through the
\* transitions kernel_utils.c logs and enters main memory only when fewer than
\* GRADO_MULTIPROGRAMACION are in it.  Under FIFO it takes the CPU only when no
\* other has it and is never evicted; under SRT, with every interruption lost,
\* late or left over, an eviction takes it from the CPU back to ready.
THEOREM DiagramaCorrecto ==
  ASSUME ~ArranqueTardio, ~RegistroTardio
  PROVE  Spec => ImplementaDiagrama
<1>1. Diagramado /\ Diagramado' /\ [Next]_vars => [Diagrama!Next]_([p \in Pids |-> EstadoDe(p)])
  BY DiagramaNext DEF Estado
<1>. QED
  BY <1>1, DiagramaInit, DiagramadoInit, DiagramadoNext, PTL DEF Spec, ImplementaDiagrama, Diagrama!Spec
=============================================================================
