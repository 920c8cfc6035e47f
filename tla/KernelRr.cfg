SPECIFICATION SpecJusta
CONSTANTS
  N = 3
  Recursos = {}
  Instancias <- UnaInstancia
  Interfaces = {i1}
  Grado = 2
  Algoritmo = "RR"
  Salidas = {"FIN_EXITOSO", "IO", "FIN_QUANTUM"}
  Comandos = {}
  NuevosGrados = {}
  MaxComandos = 0
INVARIANT PermisosExactos
PROPERTIES ImplementaCicloDeVida ListoEjecuta
CHECK_DEADLOCK FALSE
