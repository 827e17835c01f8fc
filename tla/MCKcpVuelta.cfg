CONSTANTS
  Cliente = Cliente
  Servidor = Servidor
  SndWnd = 1
  RcvWnd = 1
  RmtWndIni = 1
  MaxFrag = 1
  MaxTrozos <- TrozosVuelta
  MaxRed = 2
SPECIFICATION SpecJusta
PROPERTIES
  VueltaFiable
  TodoLlega
CHECK_DEADLOCK FALSE
