SPECIFICATION SpecJusta
CONSTANTS
  N = 2
  CantMarcos = 3
  TamPagina = 2
  Grado = 2
  EntradasTlb = 2
  AlgoritmoTlb = "LRU"
  Tamanios = {1, 3}
  Achica = FALSE
  ConIo = FALSE
  Mata = TRUE
INVARIANTS TypeOK MarcosExclusivos TlbFiel AccesoPropio TlbSinRepetidas
PROPERTY MarcosVuelven
CHECK_DEADLOCK FALSE
