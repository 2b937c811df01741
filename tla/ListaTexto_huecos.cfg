SPECIFICATION Spec
CONSTANTS
  BUFFER = 12
  LINEA = 6
  CABECERA = 3
  AVISO = 4
  Largos <- MCLargos
  MaxFilas = 4
INVARIANTS
  TypeOK
  FaltanLasQueNoCaben
  BusquedaContesta
