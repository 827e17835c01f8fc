CONSTANTS
  Usuarios = {"ana", "eva"}
  Correos = {"c1"}
  Prudentes = {"ana"}
  MaxPeticiones <- TresYDos
  MaxFallos = 1
SPECIFICATION SpecJusta
INVARIANTS
  TypeOK
  AnuncioVeraz
  SesionPropia
PROPERTY FormularioVuelve
CHECK_DEADLOCK FALSE
