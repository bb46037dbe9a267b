SPECIFICATION Spec
CONSTANTS
  Pids <- DosPids
  MaxES = 2
  Tamanio = 64
INVARIANTS
  ColasSeSueltan
CHECK_DEADLOCK FALSE
