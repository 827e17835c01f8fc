CONSTANTS
  Ids <- DosParejas
  Puntos <- PuntosDos
  Excluye <- ExcluyeDos
  MaxEnvios = 2
  Nombres = {"ana"}
  Opciones = {1, 2}
  Editables = {"altura"}
  MaxFilas = 2
SPECIFICATION SpecCreacion
INVARIANTS
  CreacionValida
  IInv
  GuardadoLoElegido
CHECK_DEADLOCK FALSE
