SPECIFICATION SpecConAna
CONSTANTS
  ana = ana
  luis = luis
  equipo1 = equipo1
  equipo2 = equipo2
  puerto1 = puerto1
  puerto2 = puerto2
  Alias <- DosAlias
  IPs <- UnEquipo
  Puertos = {puerto1, puerto2}
  SinIP = SinIP
  SinPuerto = SinPuerto
  Nadie = Nadie
  NoHay = NoHay
  Vacio = Vacio
  SinPeticion = SinPeticion
  Cerrado = Cerrado
  Hilos = {h1, h2}
  Peticiones <- PeticionesIrYVenir
  Registrados = {ana}
  Disciplina = TRUE
  FallosES = FALSE
  PerfilesBasura <- BasuraPerfil
  MensajesBasura <- BasuraMensaje
  MaxPeticiones = 3
  MaxArranques = 0
  MaxMuertes = 0
  Lectores = {l1}
  MaxConsultas = 1
SYMMETRY Simetria
INVARIANT TypeOK
INVARIANT TypeOKL
INVARIANT NadaVarado
INVARIANT Emparejados
INVARIANT SoloConectados
INVARIANT ListaCompleta
INVARIANT FotoFija
PROPERTY SalidaSoloPorTramite
CHECK_DEADLOCK FALSE
