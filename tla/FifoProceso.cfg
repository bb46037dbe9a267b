SPECIFICATION SpecEquidad
CONSTANTS
  p1 = p1
  p2 = p2
  Pids = {p1, p2}
  Nadie = Nadie
  Programas <- ProgDosEs
  EstimacionInicial = 0
  AlfaNum = 1
  AlfaDen = 2
  Rafagas = {0}
  Algoritmo = "FIFO"
  Grado = 1
  ArranqueTardio = FALSE
  RegistroTardio = FALSE
INVARIANTS
  TypeOK
  ContReady
  GradoConservado
  SuspendidosBloqueados
  ResidentesAcotados
PROPERTIES
  ImplementaDiagrama
  TodoProcesoTermina
