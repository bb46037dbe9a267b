SPECIFICATION SpecReloj
CONSTANTS
  MarcosPorProceso = 4
INVARIANTS
  VictimaCorrecta
  SegundaOportunidad
