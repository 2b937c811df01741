SPECIFICATION SpecMixta
CONSTANTS
  Clientes = {c1, v1}
  Antiguos = {v1}
  NADIE = NADIE
  Listas <- MCListas
  Vuelos <- MCVuelos
  Credenciales = {"ADMIN", "EMPLEADO", "PASAJERO", "MALA"}
  Trozos = 1
  MaxCargas = 1
  MaxCompras = 0
  MaxCola = 1
INVARIANTS
  AntiguoSinPasajero
  AcuerdoNuevos
PROPERTIES
  TrabadoRetiene
