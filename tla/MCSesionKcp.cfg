CONSTANTS
  Puertos = {p1, p2}
  Inactividad = 1
  EnCamino = FALSE
  Reutiliza = FALSE
  MaxConexiones = 2
  MaxMensajes <- DosYUno
  MaxRespuestas = 1
  MaxOlvidos = 1
SPECIFICATION SpecJusta
CHECK_DEADLOCK FALSE
INVARIANTS
  TypeOK
  UnaConversacion
PROPERTIES
  NuncaRevive
  SeDespide
