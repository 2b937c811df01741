SPECIFICATION Spec
CONSTANTS
  Clientes = {c1, c2}
  NADIE = NADIE
  Listas <- MCListas
  Vuelos <- MCVuelos
  Credenciales = {"PASAJERO"}
  Trozos = 1
  MaxCargas = 1
  MaxCompras = 1
  MaxCola = 1
SYMMETRY Simetria
INVARIANTS
  ConfirmadoGuardado
  LecturaPropia
  CadaBilleteUno
PROPERTIES
  CompraConSesion
  ImplementaReservas
