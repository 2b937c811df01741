SPECIFICATION SpecJusta
CONSTANTS
  Clientes = {c1}
  NADIE = NADIE
  Listas <- MCListas
  Vuelos <- MCVuelos
  Credenciales = {"PASAJERO", "MALA"}
  Trozos = 2
  MaxCargas = 0
  MaxCompras = 1
  MaxCola = 1
PROPERTIES
  RespuestaLlega
  SeSuelta
INVARIANTS
  NadieEsperaEnVano
  ComprasContadas
