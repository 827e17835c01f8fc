CONSTANTS
  Dirs = {1}
  Ids = {1}
  Cuenta <- UnaCuenta
  Dueno <- DeLaMisma
  Impacientes = {1}
  Exclusivos = {1}
  MaxLogins = 3
  MaxMov = 0
  MaxFallos = 0
  MaxReinicios = 0
SPECIFICATION Spec
INVARIANTS
  UnSoloLogin
