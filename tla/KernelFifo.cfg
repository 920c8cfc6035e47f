SPECIFICATION Spec
CONSTANTS
  N = 2
  Recursos = {}
  Instancias <- UnaInstancia
  Interfaces = {}
  Grado = 2
  Algoritmo = "FIFO"
  Salidas = {"FIN_EXITOSO"}
  Comandos = {"DETENER_PLANIFICACION", "INICIAR_PLANIFICACION", "PROCESO_ESTADO", "MULTIPROGRAMACION"}
  NuevosGrados = {0, 1, 3}
  MaxComandos = 2
INVARIANTS TypeOK FrenosConservados KernelVivo GradoConservado
PROPERTY PausaCongela
CHECK_DEADLOCK FALSE
