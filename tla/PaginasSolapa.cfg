SPECIFICATION Spec
CONSTANTS
  p1 = p1
  p2 = p2
  Cero = 0
  Basura = Basura
  Nadie = Nadie
  Datos = {0, 1}
  Pids = {p1, p2}
  Marcos = 2
  MarcosPorProceso = 1
  EntradasPorTabla = 2
  Reemplazo = "CLOCK"
  EntradasTlb = 2
  ReemplazoTlb = "FIFO"
  Grado = 2
  Tamanio <- TamanioDos
INVARIANTS
  MarcoEraLibre
