SPECIFICATION SpecJusta
CONSTANTS
  Fichero <- MCFichero
  Numero <- MCNumero
  MaxCargas = 2
  MaxBilletes = 2
INVARIANTS
  TypeOK
  ClavesUnicas
  RutaCorrecta
  BilleteConVuelo
  CargaCompleta
PROPERTIES
  IdsNuncaRepetidos
  CargaTermina
