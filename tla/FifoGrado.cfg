SPECIFICATION Spec
CONSTANTS
  p1 = p1
  p2 = p2
  p3 = p3
  Pids = {p1, p2, p3}
  Nadie = Nadie
  Programas <- ProgMemoria
  EstimacionInicial = 0
  AlfaNum = 1
  AlfaDen = 2
  Rafagas = {0}
  Algoritmo = "FIFO"
  Grado = 2
  ArranqueTardio = FALSE
  RegistroTardio = FALSE
SYMMETRY Simetria
INVARIANTS
  GradoConservado
  SuspendidosBloqueados
  CpuExclusiva
  SinListosOlvidados
  PcbUnico
