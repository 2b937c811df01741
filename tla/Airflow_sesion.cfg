SPECIFICATION Spec
CONSTANTS
  Clientes = {c1, c2}
  NADIE = NADIE
  Listas <- MCListas
  Vuelos <- MCVuelos
  Credenciales = {"ADMIN", "PASAJERO", "MALA"}
  Trozos = 1
  MaxCargas = 1
  MaxCompras = 0
  MaxCola = 1
SYMMETRY Simetria
INVARIANTS
  TypeOK
  AcuerdoSesion
  RespuestaCorresponde
  CacheAlDia
PROPERTIES
  CacheSoloPorCarga
  SinSalida
