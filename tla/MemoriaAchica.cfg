SPECIFICATION Spec
CONSTANTS
  N = 2
  CantMarcos = 6
  TamPagina = 2
  Grado = 2
  EntradasTlb = 0
  AlgoritmoTlb = "FIFO"
  Tamanios = {1, 2, 4, 5}
  Achica = TRUE
  ConIo = TRUE
  Mata = FALSE
INVARIANTS MarcosExclusivos TablaDelTamanio AccesoPropio Conversacion EliminaConocido
CHECK_DEADLOCK FALSE
