SPECIFICATION Spec
CONSTANTS
  Claves = {"a", "b", "a y mas"}
  Recorte <- MCRecorte
  MAX_PASAJEROS = 2
  MAX_VUELOS_P = 2
  Textos <- MCTextos
  Telefonos <- MCTelefonos
  MaxLineas = 1
INVARIANTS
  TypeOK
  RepetidosPorRecorte
  RecargaFiel
PROPERTIES
  VuelosQuedan
