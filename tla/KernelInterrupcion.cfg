SPECIFICATION Spec
CONSTANTS
  N = 2
  Recursos = {}
  Instancias <- UnaInstancia
  Interfaces = {}
  Grado = 1
  Algoritmo = "RR"
  Salidas = {"FIN_EXITOSO", "FIN_QUANTUM"}
  Comandos = {"FINALIZAR_PROCESO"}
  NuevosGrados = {}
  MaxComandos = 1
INVARIANT SoloElPedido
CHECK_DEADLOCK FALSE
