CONSTANTS
  Dirs = {1, 2}
  Ids = {1}
  Cuenta <- UnaCuenta
  Dueno <- DeLaMisma
  Impacientes = {}
  Exclusivos = {}
  MaxLogins = 2
  MaxMov = 2
  MaxFallos = 0
  MaxReinicios = 0
SPECIFICATION Spec
PROPERTIES
  NoRetrocede
