SPECIFICATION Spec
CONSTANTS
  N = 2
  Recursos = {r1, r2}
  Instancias <- UnaInstancia
  Interfaces = {i1}
  Grado = 2
  Algoritmo = "VRR"
  Salidas = {"FIN_EXITOSO", "WAIT", "SIGNAL", "IO", "NOMBRE_INVALIDO", "FIN_QUANTUM", "OUT_OF_MEMORY"}
  Comandos = {}
  NuevosGrados = {}
  MaxComandos = 0
INVARIANTS SaldoDeRecursos SinSobreasignacion NadieEsperaDeMas UnSoloLugar SinPunteroNulo
CHECK_DEADLOCK FALSE
