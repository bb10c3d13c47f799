SPECIFICATION FairSpec
CONSTANTS
  Hilos = {h1, h2}
  Main = Main
  Nadie = Nadie
  FallosES = TRUE
  MaxFD = 4
  Uso = 2
  Fugas = 1
  MaxConexiones = 4
  MaxEspurios = 2
INVARIANT TypeOK
INVARIANT SuConexion
INVARIANT UnaPorHilo
INVARIANT SeAgotaPorCarga
PROPERTY SeCierra
PROPERTY VuelveAAceptar
CHECK_DEADLOCK FALSE
