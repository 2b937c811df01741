SPECIFICATION Spec
CONSTANTS
  Fichero <- MCFichero
  Numero <- MCNumero
  MaxCargas = 2
  MaxBilletes = 0
INVARIANT
  CodVueloUnico
