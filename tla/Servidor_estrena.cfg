SPECIFICATION SpecAnaEnLinea
CONSTANTS
  ana = ana
  luis = luis
  equipo1 = equipo1
  equipo2 = equipo2
  puerto1 = puerto1
  puerto2 = puerto2
  Alias <- DosAlias
  IPs <- UnEquipo
  Puertos = {puerto1, puerto2}
  SinIP = SinIP
  SinPuerto = SinPuerto
  Nadie = Nadie
  NoHay = NoHay
  Vacio = Vacio
  SinPeticion = SinPeticion
  Cerrado = Cerrado
  Hilos = {h1, h2}
  Peticiones <- PeticionesEstreno
  Registrados = {ana}
  Disciplina = TRUE
  FallosES = FALSE
  PerfilesBasura <- BasuraPerfil
  MensajesBasura <- BasuraMensaje
  MaxPeticiones = 2
  MaxArranques = 0
  MaxMuertes = 0
SYMMETRY Simetria
INVARIANT SoloAlDestinatario
CHECK_DEADLOCK FALSE
