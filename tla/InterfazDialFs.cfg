SPECIFICATION SpecJusta
CONSTANTS
  Archivos = {a, b, c}
  BLOCK_SIZE = 2
  BLOCK_COUNT = 6
  Tope = 8
  N = 2
  MaxPids <- MCPids
  Tipos = {"GENERICA", "STDIN", "STDOUT", "DIALFS"}
  TamPagina = 2
  Tamanios = {0, 3, 5}
  Entradas = {1, 4}
  MaxSueltos = 0
  MaxBloque = 8
CHECK_DEADLOCK FALSE
INVARIANTS TypeOK SinSolapar MemoriaYDisco DentroDelLimite PiezasDelPedido Conversa
PROPERTIES NoPierdeBloques ImplementaAsignacion Atendido
