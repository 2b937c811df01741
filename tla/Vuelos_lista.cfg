SPECIFICATION Spec
CONSTANTS
  Claves = {"a", "b", "a y mas"}
  Recorte <- MCRecorte
  MAX_VUELOS = 2
  Campos <- MCCampos
  Horas <- MCHoras
  Capacidades <- MCCapacidades
  MaxVendidos = 3
  MaxLineas = 1
INVARIANTS
  TypeOK
  AsientosCuadran
  RecargaFiel
