SPECIFICATION Spec
CONSTANTS
  ana = ana
  luis = luis
  equipo1 = equipo1
  puerto1 = puerto1
  puerto2 = puerto2
  Alias <- DosAlias
  IPs = {equipo1}
  Puertos = {puerto1, puerto2}
  SinIP = SinIP
  SinPuerto = SinPuerto
  Nadie = Nadie
  NoHay = NoHay
  Vacio = Vacio
  SinPeticion = SinPeticion
  Cerrado = Cerrado
  SinAlta = SinAlta
  SinSesion = SinSesion
  Hilos = {h1}
  Peticiones <- PeticionesTodas
  Registrados = {ana}
  Disciplina = FALSE
  FallosES = FALSE
  PerfilesBasura <- BasuraPerfil
  MensajesBasura <- BasuraMensaje
  MaxPeticiones = 3
  MaxArranques = 0
  MaxMuertes = 0
PROPERTY ImplementaMensajeria
CHECK_DEADLOCK FALSE
