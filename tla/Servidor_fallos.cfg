SPECIFICATION Spec
CONSTANTS
  ana = ana
  luis = luis
  equipo1 = equipo1
  equipo2 = equipo2
  puerto1 = puerto1
  puerto2 = puerto2
  Alias <- DosAlias
  IPs <- UnEquipo
  Puertos = {puerto1, puerto2}
  SinIP = SinIP
  SinPuerto = SinPuerto
  Nadie = Nadie
  NoHay = NoHay
  Vacio = Vacio
  SinPeticion = SinPeticion
  Cerrado = Cerrado
  Hilos = {h1}
  Peticiones <- PeticionesTodas
  Registrados = {ana}
  Disciplina = TRUE
  FallosES = TRUE
  PerfilesBasura <- BasuraPerfil
  MensajesBasura <- BasuraMensaje
  MaxPeticiones = 4
  MaxArranques = 1
  MaxMuertes = 1
INVARIANT RespuestaVeraz
INVARIANT IdRespondido
INVARIANT IdsCrecientes
PROPERTY PunteroAjeno
CHECK_DEADLOCK FALSE
