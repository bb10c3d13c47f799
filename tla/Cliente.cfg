SPECIFICATION FairSpecConAlias
CONSTANTS
  MAXSIZE = 3
  Simbolos <- Alfabeto
  NUL = "NUL"
  NL = "NL"
  BLANCO = " "
  RARO = "RARO"
  Peticiones <- PeticionesTodas
  Oyentes = {"p1","p2"}
  Resultados = {"0", "1"}
  Ids = {"7"}
  Cifra <- Cifras
  Listas <- ListasCortas
  Entregas <- EntregasDos
  MaxPet = 2
  MaxEnt = 2
  MaxFallos = 1
INVARIANT TypeOK
INVARIANT PeticionFiel
INVARIANT SoloCaeSiCortan
INVARIANT RespuestaFiel
INVARIANT SoloEnteras
INVARIANT UnaTrasDesconectar
CHECK_DEADLOCK FALSE
PROPERTY VentanaContesta
PROPERTY SeMuestra
