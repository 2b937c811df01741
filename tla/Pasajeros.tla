----------------------------- MODULE Pasajeros -----------------------------
(***************************************************************************)
(* server/src/pasajero/pasajero.c: the list of passengers with the flights *)
(* of each, and its CSV file.  campos[1] stands for name and surname,      *)
(* campos[2] is the email and campos[3] the telephone.  DNIs and ids of    *)
(* flights are keys alike: both fields have 20 bytes.                      *)
(***************************************************************************)
EXTENDS ListaCSV, FiniteSets

CONSTANTS
  MAX_PASAJEROS,    \* entries the array has room for
  MAX_VUELOS_P,     \* flights a passenger has room for
  Textos,           \* what callers pass as a name or an email
  Telefonos,        \* what callers pass as a telephone
  MaxLineas         \* bound on the list that is saved

ASSUME PasajerosAssumption ==
  /\ MAX_PASAJEROS \in Nat
  /\ MAX_VUELOS_P \in Nat
  /\ MaxLineas \in Nat
  /\ \A t \in Textos \cup Telefonos : t.lleno \in BOOLEAN /\ (~t.lleno => t = VACIO)

VARIABLES
  lista,     \* lista[0 .. total - 1] of the caller
  archivo    \* the lines of the CSV file after its header

vars == <<lista, archivo>>

pasajero_crear(l, dni, campos) ==
  crear(l, MAX_PASAJEROS, dni,
        [clave |-> Recorte[dni], campos |-> campos, vuelos |-> <<>>])

\* An empty email or telephone leaves the old one.
pasajero_actualizar(l, dni, email, telefono) ==
  LET i == buscar(l, dni)
      nuevo(viejo, campo) == IF campo.lleno THEN campo ELSE viejo
  IN  IF i = 0 THEN l
      ELSE [l EXCEPT ![i].campos[2] = nuevo(@, email),
                     ![i].campos[3] = nuevo(@, telefono)]

\* A seeded bug: the flights the passenger has are not looked at.
asignar_sin_comprobar(l, dni, id) ==
  LET i == buscar(l, dni)
  IN  IF i = 0 \/ Len(l[i].vuelos) >= MAX_VUELOS_P THEN l
      ELSE [l EXCEPT ![i].vuelos = Append(@, Recorte[id])]

\* The id is compared whole and stored cut.
pasajero_asignar_vuelo(l, dni, id) ==
  LET i == buscar(l, dni)
  IN  IF \/ i = 0
         \/ Len(l[i].vuelos) >= MAX_VUELOS_P
         \/ Contains(l[i].vuelos, id)
        THEN l
        ELSE [l EXCEPT ![i].vuelos = Append(@, Recorte[id])]

\* A seeded bug: the flights after the one removed are lost.
quitar_con_los_demas(l, dni, id) ==
  LET i == buscar(l, dni)
      j == IF i = 0 THEN 0 ELSE SelectInSeq(l[i].vuelos, LAMBDA v : v = id)
  IN  IF j = 0 THEN l ELSE [l EXCEPT ![i].vuelos = SubSeq(@, 1, j - 1)]

pasajero_quitar_vuelo(l, dni, id) ==
  LET i == buscar(l, dni)
      j == IF i = 0 THEN 0 ELSE SelectInSeq(l[i].vuelos, LAMBDA v : v = id)
  IN  IF j = 0 THEN l ELSE [l EXCEPT ![i].vuelos = RemoveAt(@, j)]

\* The flights are not saved.
pasajero_guardar_csv(l) ==
  [i \in DOMAIN l |-> [clave |-> l[i].clave, campos |-> l[i].campos]]

\* A seeded bug: a line without telephone is too short.
Leer_con_telefono(l, linea) ==
  LET campos == Llenos(linea.campos)
  IN  IF Len(campos) < 3 THEN l ELSE pasajero_crear(l, linea.clave, campos)

\* A line: name, surname and email are needed, the telephone is not.
Leer(l, linea) ==
  LET campos == Llenos(linea.campos)
  IN  IF Len(campos) < 2 THEN l
      ELSE pasajero_crear(l, linea.clave,
                          IF Len(campos) = 2 THEN Append(campos, VACIO) ELSE campos)

\* The lines are added to what the list already has.
pasajero_cargar_csv(l, lineas) ==
  LET tras[n \in 0..Len(lineas)] ==
        IF n = 0 THEN l ELSE Leer(tras[n - 1], lineas[n])
  IN  tras[Len(lineas)]

----------------------------------------------------------------------------

Init == lista = <<>> /\ archivo = <<>>

Crear ==
  \E dni \in Claves, nombre, email \in Textos, telefono \in Telefonos :
    lista' = pasajero_crear(lista, dni, <<nombre, email, telefono>>)
Eliminar == \E dni \in Claves : lista' = eliminar(lista, dni)
Actualizar ==
  \E dni \in Claves, email \in Textos, telefono \in Telefonos :
    lista' = pasajero_actualizar(lista, dni, email, telefono)
Asignar == \E dni, id \in Claves : lista' = pasajero_asignar_vuelo(lista, dni, id)
Quitar == \E dni, id \in Claves : lista' = pasajero_quitar_vuelo(lista, dni, id)
Guardar == Len(lista) <= MaxLineas /\ archivo' = pasajero_guardar_csv(lista)
Cargar == lista' = pasajero_cargar_csv(lista, archivo)

\* The program ends: the file is all that stays.
Reiniciar == lista' = <<>>

Next ==
  \/ /\ \/ Crear \/ Eliminar \/ Actualizar \/ Asignar \/ Quitar
        \/ Cargar \/ Reiniciar
     /\ UNCHANGED archivo
  \/ Guardar /\ UNCHANGED lista

Spec == Init /\ [][Next]_vars

----------------------------------------------------------------------------

\* Every passenger is a record of its type, and both arrays hold what is in them.
TypeOK ==
  /\ \A i \in DOMAIN lista :
       /\ lista[i].clave \in Claves /\ Recorte[lista[i].clave] = lista[i].clave
       /\ lista[i].campos \in [1..3 -> Textos \cup Telefonos]
       /\ lista[i].vuelos \in BoundedSeq(Claves, MAX_VUELOS_P)
  /\ Len(lista) <= MAX_PASAJEROS

\* pasajero.c:122, "comprobamos el duplicado": no flight is assigned twice to a
\* passenger.  An id longer than its field is: it never equals what was stored.
SinVuelosDuplicados == \A i \in DOMAIN lista : IsInjective(lista[i].vuelos)

\* Through creations, loads, assignments and removals, only an id that had to
\* be cut can be twice in a passenger's flights, and only a cut DNI twice in
\* the list.
RepetidosPorRecorte ==
  /\ ClavesDistintas(lista)
  /\ \A i \in DOMAIN lista : \A j, k \in DOMAIN lista[i].vuelos :
       (j # k /\ lista[i].vuelos[j] = lista[i].vuelos[k]) =>
         \E largo \in Largas : Recorte[largo] = lista[i].vuelos[j]

\* A saved list comes back in its order.  Flights never do; a passenger without
\* name or email comes back with the telephone in the place of the email, and
\* not at all without telephone.
RecargaFiel ==
  LET completos == FlattenSeq([i \in DOMAIN lista |->
                     IF Len(Llenos(lista[i].campos)) >= 2 THEN <<lista[i]>> ELSE <<>>])
      vuelta == pasajero_cargar_csv(<<>>, pasajero_guardar_csv(lista))
  IN  IsInjective([i \in DOMAIN lista |-> lista[i].clave]) =>
        /\ Len(vuelta) = Len(completos)
        /\ \A i \in DOMAIN vuelta :
             LET antes == completos[i].campos
             IN  /\ vuelta[i].clave = completos[i].clave
                 /\ vuelta[i].vuelos = <<>>
                 /\ (antes[1].lleno /\ antes[2].lleno) => vuelta[i].campos = antes
                 /\ ~(antes[1].lleno /\ antes[2].lleno) =>
                      vuelta[i].campos[2] = antes[3]

\* The flights of the passengers: pairs of DNI and id.
Asignados(l) ==
  UNION {{<<l[i].clave, id>> : id \in Range(l[i].vuelos)} : i \in DOMAIN l}

\* Loading a file over the list, updating and creating take no flight from
\* anybody, and pasajero_quitar_vuelo takes one at most, whatever its place.
VuelosQuedan ==
  [][/\ (Asignados(lista) \subseteq Asignados(lista')) \/ Eliminar \/ Quitar \/ Reiniciar
     /\ Quitar => Cardinality(Asignados(lista) \ Asignados(lista')) <= 1]_vars
============================================================================
