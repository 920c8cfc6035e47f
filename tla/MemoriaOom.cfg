SPECIFICATION Spec
CONSTANTS
  N = 2
  CantMarcos = 1
  TamPagina = 2
  Grado = 2
  EntradasTlb = 0
  AlgoritmoTlb = "FIFO"
  Tamanios = {3}
  Achica = FALSE
  ConIo = FALSE
  Mata = FALSE
INVARIANT CpuSigue
CHECK_DEADLOCK FALSE
