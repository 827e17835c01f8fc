CONSTANTS
  Ids <- DosParejas
  Puntos <- PuntosDos
  Excluye <- ExcluyeDos
  MaxEnvios = 1
  Nombres = {"ana", "eva"}
  Opciones = {1}
  Editables = {"altura"}
  MaxFilas = 2
SPECIFICATION SpecCreacion
INVARIANT ListaLeida
CHECK_DEADLOCK FALSE
