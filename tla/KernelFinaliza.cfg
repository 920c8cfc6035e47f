SPECIFICATION Spec
CONSTANTS
  N = 2
  Recursos = {}
  Instancias <- UnaInstancia
  Interfaces = {i1}
  Grado = 1
  Algoritmo = "RR"
  Salidas = {"FIN_EXITOSO", "FIN_QUANTUM", "IO"}
  Comandos = {"FINALIZAR_PROCESO"}
  NuevosGrados = {}
  MaxComandos = 1
INVARIANTS NingunoOlvidado LosDemasEnSuLugar
CHECK_DEADLOCK FALSE
