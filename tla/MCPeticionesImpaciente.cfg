CONSTANTS
  Clientes = {"ana"}
  Nombres = {"n1"}
  Pacientes = {}
  MaxIds = 2
  MaxVuelo = 3
  MaxFallos = 0
SPECIFICATION Spec
CHECK_DEADLOCK FALSE
INVARIANTS
  SeleccionViva
