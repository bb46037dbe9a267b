SPECIFICATION Spec
CONSTANTS
  p1 = p1
  p2 = p2
  Pids = {p1, p2}
  Nadie = Nadie
  Programas <- ProgSrt
  EstimacionInicial = 1
  AlfaNum = 1
  AlfaDen = 2
  Rafagas = {1}
  Algoritmo = "SRT"
  Grado = 2
  ArranqueTardio = FALSE
  RegistroTardio = FALSE
SYMMETRY Simetria
INVARIANTS
  InterrupcionAtendida
CHECK_DEADLOCK FALSE
