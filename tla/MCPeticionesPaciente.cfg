CONSTANTS
  Clientes = {"ana"}
  Nombres = {"n1"}
  Pacientes = {"ana"}
  MaxIds = 3
  MaxVuelo = 3
  MaxFallos = 1
SPECIFICATION SpecJusta
CHECK_DEADLOCK FALSE
INVARIANTS
  TypeOK
  SeleccionViva
  ListaAlDia
PROPERTIES
  ConfirmarVuelve
