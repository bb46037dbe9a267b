SPECIFICATION SpecEquidad
CONSTANTS
  Archivos <- ArchivosMC
  Tamanios = {64, 65600}
  Segmento = 16
  Leibles = {7, 258}
  Enorme = 1048576
INVARIANTS
  ListadoFiel
  PcbFiel
  SoloMuertaTumba
PROPERTIES
  TodaConsolaTermina
CHECK_DEADLOCK FALSE
