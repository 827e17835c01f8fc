CONSTANTS
  Cliente = Cliente
  Servidor = Servidor
  SndWnd = 2
  RcvWnd = 2
  RmtWndIni = 1
  MaxFrag = 2
  MaxTrozos <- TrozosIda
  MaxRed = 2
SPECIFICATION Spec
INVARIANTS
  TypeOK
  EntregaEnOrden
  MemoriaAcotada
  VueloAcotado
  ColaLlenaSeVacia
  NadaSePierde
PROPERTIES
  CursoresAvanzan
  IdaFiable
