SPECIFICATION Spec
CONSTANTS
  N = 3
  Recursos = {r1}
  Instancias <- UnaInstancia
  Interfaces = {}
  Grado = 3
  Algoritmo = "RR"
  Salidas = {"WAIT"}
  Comandos = {"FINALIZAR_PROCESO"}
  NuevosGrados = {}
  MaxComandos = 1
INVARIANT DuenosPorInstancia
CONSTRAINT SoloBloqueados
CHECK_DEADLOCK FALSE
