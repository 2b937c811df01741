------------------------------ MODULE Vuelos ------------------------------
(***************************************************************************)
(* server/src/vuelo/vuelo.c: the list of flights with their free seats,    *)
(* and its CSV file.  Of the six texts of a flight two are kept: campos[1] *)
(* stands for those nobody changes, campos[2] for the two hours.           *)
(***************************************************************************)
EXTENDS ListaCSV

CONSTANTS
  MAX_VUELOS,    \* entries the array has room for
  Campos,        \* what callers pass as the two texts of a new flight
  Horas,         \* what callers pass as new hours
  Capacidades,   \* what callers pass as a capacity
  MaxVendidos,   \* bound on the seats of a flight sold and not released
  MaxLineas      \* bound on the list that is saved

ASSUME VuelosAssumption ==
  /\ MAX_VUELOS \in Nat
  /\ Campos \subseteq [1..2 -> {VACIO, PALABRA}]
  /\ Horas \subseteq {VACIO, PALABRA}
  /\ Capacidades \subseteq Int
  /\ MaxVendidos \in Nat /\ MaxLineas \in Nat

VARIABLES
  lista,     \* lista[0 .. total - 1] of the caller
  archivo    \* the lines of the CSV file after its header

vars == <<lista, archivo>>

\* vendidos and recortado are history: seats reserved and not released, and
\* whether a capacity smaller than those was ever set.
NuevoVuelo(id, campos, capacidad) ==
  [clave |-> Recorte[id], campos |-> campos, capacidad |-> capacidad,
   asientos_disponibles |-> capacidad, vendidos |-> 0, recortado |-> FALSE]

vuelo_crear(l, id, campos, capacidad) ==
  crear(l, MAX_VUELOS, id, NuevoVuelo(id, campos, capacidad))

\* A seeded bug: new free seats are the difference of capacities, not clamped.
Ajustar_sin_tope(v, nueva) ==
  [v EXCEPT !.capacidad = nueva,
            !.asientos_disponibles = nueva - v.capacidad + v.asientos_disponibles]

\* Seats taken are what the capacity and the free seats say.
Ajustar(v, nueva) ==
  LET usados == v.capacidad - v.asientos_disponibles
  IN  [v EXCEPT !.capacidad = nueva,
                !.asientos_disponibles = IF nueva < usados THEN 0 ELSE nueva - usados,
                !.recortado = v.recortado \/ nueva < usados]

\* Empty hours and capacities that are not positive leave the old ones.
vuelo_actualizar(l, id, hora, capacidad) ==
  LET i == buscar(l, id)
      conHora(v) == IF hora.lleno THEN [v EXCEPT !.campos[2] = hora] ELSE v
  IN  IF i = 0 THEN l
      ELSE [l EXCEPT ![i] = IF capacidad > 0 THEN Ajustar(conHora(@), capacidad)
                                             ELSE conHora(@)]

vuelo_reservar_asiento(l, id) ==
  LET i == buscar(l, id)
  IN  IF i = 0 \/ l[i].asientos_disponibles <= 0 THEN l
      ELSE [l EXCEPT ![i].asientos_disponibles = @ - 1, ![i].vendidos = @ + 1]

\* Releasing when nothing was reserved answers 0 as well.
vuelo_liberar_asiento(l, id) ==
  LET i == buscar(l, id)
  IN  IF i = 0 THEN l
      ELSE [l EXCEPT ![i].asientos_disponibles =
                       IF @ < l[i].capacidad THEN @ + 1 ELSE @,
                     ![i].vendidos = IF @ > 0 THEN @ - 1 ELSE 0]

\* The free seats are not saved.
vuelo_guardar_csv(l) ==
  [i \in DOMAIN l |-> [clave |-> l[i].clave,
                       campos |-> Append(l[i].campos, Cifra(l[i].capacidad))]]

\* A line: all the texts are needed, the capacity is 0 if there is none left.
Leer(l, linea) ==
  LET campos == Llenos(linea.campos)
  IN  IF Len(campos) < 2 THEN l
      ELSE vuelo_crear(l, linea.clave, SubSeq(campos, 1, 2),
                       IF Len(campos) > 2 THEN atoi(campos[3]) ELSE 0)

\* A seeded bug: the first line is taken for a second header.
vuelo_cargar_dos_cabeceras(l, lineas) ==
  LET tras[n \in 0..Len(lineas)] ==
        IF n <= 1 THEN l ELSE Leer(tras[n - 1], lineas[n])
  IN  tras[Len(lineas)]

\* The lines are added to what the list already has.
vuelo_cargar_csv(l, lineas) ==
  LET tras[n \in 0..Len(lineas)] ==
        IF n = 0 THEN l ELSE Leer(tras[n - 1], lineas[n])
  IN  tras[Len(lineas)]

----------------------------------------------------------------------------

Init == lista = <<>> /\ archivo = <<>>

Crear ==
  \E id \in Claves, campos \in Campos, capacidad \in Capacidades :
    lista' = vuelo_crear(lista, id, campos, capacidad)
Eliminar == \E id \in Claves : lista' = eliminar(lista, id)
Actualizar ==
  \E id \in Claves, hora \in Horas, capacidad \in Capacidades \cup {0} :
    lista' = vuelo_actualizar(lista, id, hora, capacidad)
Reservar ==
  \E id \in Claves :
    /\ \A i \in DOMAIN lista : lista[i].vendidos < MaxVendidos
    /\ lista' = vuelo_reservar_asiento(lista, id)
Liberar == \E id \in Claves : lista' = vuelo_liberar_asiento(lista, id)
Guardar == Len(lista) <= MaxLineas /\ archivo' = vuelo_guardar_csv(lista)
Cargar == lista' = vuelo_cargar_csv(lista, archivo)

\* The program ends: the file is all that stays.
Reiniciar == lista' = <<>>

Next ==
  \/ /\ Crear \/ Eliminar \/ Actualizar \/ Reservar \/ Liberar \/ Cargar \/ Reiniciar
     /\ UNCHANGED archivo
  \/ Guardar /\ UNCHANGED lista

Spec == Init /\ [][Next]_vars

----------------------------------------------------------------------------

\* Every flight is a record of its type, and the list fits in its array.
TypeOK ==
  /\ lista \in Seq([clave : {Recorte[k] : k \in Claves},
                    campos : [1..2 -> {VACIO, PALABRA} \cup {Cifra(n) : n \in Capacidades}],
                    capacidad : Int, asientos_disponibles : Int,
                    vendidos : Nat, recortado : BOOLEAN])
  /\ Len(lista) <= MAX_VUELOS

\* Through any sequence of reservations, releases, changes of capacity, saves
\* and loads, seats sold and free add up to the capacity, until a capacity
\* under the seats sold is set: from then on vuelo_actualizar forgets sold
\* seats, and more can be sold than there are; it never invents sold ones.
AsientosCuadran ==
  \A i \in DOMAIN lista :
    LET v == lista[i]
    IN  /\ v.capacidad - v.asientos_disponibles <= v.vendidos
        /\ ~v.recortado => v.capacidad - v.asientos_disponibles = v.vendidos
        /\ v.capacidad >= 0 => v.asientos_disponibles \in 0..v.capacidad

\* What is saved comes back in its order with its id and, if no text of it is
\* empty, its capacity and every seat free, sold or not.  A flight with one
\* empty text comes back with capacity 0; one with more does not come back.
RecargaFiel ==
  LET completos == FlattenSeq([i \in DOMAIN lista |->
                     IF Len(Llenos(lista[i].campos)) >= 1 THEN <<lista[i]>> ELSE <<>>])
      vuelta == vuelo_cargar_csv(<<>>, vuelo_guardar_csv(lista))
  IN  (\A i, j \in DOMAIN lista : i # j => lista[i].clave # lista[j].clave) =>
        /\ Len(vuelta) = Len(completos)
        /\ \A i \in DOMAIN vuelta :
             /\ vuelta[i].clave = completos[i].clave
             /\ vuelta[i].capacidad = IF Len(Llenos(completos[i].campos)) = 2
                                        THEN completos[i].capacidad ELSE 0
             /\ vuelta[i].asientos_disponibles = vuelta[i].capacidad
===========================================================================
