SPECIFICATION Spec
CONSTANTS
  N = 2
  Recursos = {}
  Instancias <- UnaInstancia
  Interfaces = {}
  Grado = 2
  Algoritmo = "FIFO"
  Salidas = {"FIN_EXITOSO"}
  Comandos = {"MULTIPROGRAMACION"}
  NuevosGrados = {1}
  MaxComandos = 1
INVARIANT GradoAlDia
CHECK_DEADLOCK FALSE
