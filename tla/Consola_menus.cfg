SPECIFICATION SpecJusta
CONSTANTS
  CAMPO = 3
  LEIDO = 11
  TamCuenta = 7
  TamOpcion = 5
  Lineas <- MCLineas
  Valores <- MCValores
  RUTA_LOG <- MCRutaLog
  Respuestas <- MCRespuestas
  Archivos <- MCArchivos
INVARIANTS
  ConfigFiel
  EnSuPaso
PROPERTIES
  SoloOpcionSale
  CierreSinFin
  EsperaAlUsuario
CHECK_DEADLOCK FALSE
