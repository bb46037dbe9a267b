SPECIFICATION Spec
CONSTANTS
  p1 = p1
  p2 = p2
  Cero = 0
  Basura = Basura
  Nadie = Nadie
  Datos = {0, 1}
  Pids = {p1}
  Marcos = 2
  MarcosPorProceso = 2
  EntradasPorTabla = 2
  Reemplazo = "CLOCK-M"
  EntradasTlb = 2
  ReemplazoTlb = "LRU"
  Grado = 1
  Tamanio <- TamanioUno
INVARIANTS
  TypeOK
  TlbCoherente
  RelojCoherente
  PaginaHallada
  LimpiaEnSwap
PROPERTY ImplementaEspacio
