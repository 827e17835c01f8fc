CONSTANTS
  Dirs = {1, 2}
  Ids = {1}
  Cuenta <- UnaCuenta
  Dueno <- DeLaMisma
  Impacientes = {}
  Exclusivos = {1}
  MaxLogins = 2
  MaxMov = 1
  MaxFallos = 1
  MaxReinicios = 1
SPECIFICATION Spec
INVARIANTS
  TypeOK
  MovimientosLlegan
  PerdidaAcotada
  UltimaPosicion
PROPERTIES
  NoRetrocede PosicionGuardada
