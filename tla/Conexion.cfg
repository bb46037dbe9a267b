SPECIFICATION SpecEquidad
CONSTANTS
  Pids <- DosPids
  MaxES = 2
  Tamanio = 64
CONSTRAINT EnTurno
INVARIANTS
  TypeOK
  SuspensionVigente
  MemoriaEnPie
  VivosConEstructuras
  RespuestaEnCamino
  SuspendidoSinMarcos
PROPERTIES
  ImplementaPeticiones
  TodoSeElimina
