SPECIFICATION Spec
CONSTANTS
  Fichero <- MCFichero
  Numero <- MCNumero
  MaxCargas = 1
  MaxBilletes = 0
INVARIANT
  EquipajeConVuelo
