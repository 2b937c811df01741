----------------------------- MODULE ListaCSV -----------------------------
(***************************************************************************)
(* What vuelo.c, pasajero.c, aeropuerto.c and equipaje.c of the server     *)
(* have in common: entries with a key in an array of bounded length, and   *)
(* a CSV file they are saved to and loaded from.                           *)
(***************************************************************************)
EXTENDS Integers, SequencesExt

CONSTANTS
  Claves,    \* keys that callers use, none of them empty
  Recorte    \* what strncpy into the key's field keeps of a key

ASSUME RecorteAssumption ==
  /\ Recorte \in [Claves -> Claves]
  /\ \A k \in Claves : Recorte[Recorte[k]] = Recorte[k]

\* The keys that do not fit in their field.
Largas == {k \in Claves : Recorte[k] # k}

\* A field of a line: empty, some text, or the text of a number.
VACIO == [lleno |-> FALSE, valor |-> 0]
PALABRA == [lleno |-> TRUE, valor |-> 0]
Cifra(n) == [lleno |-> TRUE, valor |-> n]
atoi(campo) == campo.valor

\* strtok drops the empty fields: those after them move to their place.
Llenos(campos) ==
  FlattenSeq([i \in DOMAIN campos |-> IF campos[i].lleno THEN <<campos[i]>> ELSE <<>>])

\* The place of the first entry with that key, 0 (-1 in the code) if none.
buscar(lista, clave) == SelectInSeq(lista, LAMBDA e : e.clave = clave)

\* A seeded bug: the array is full one entry too late.
crear_uno_mas(lista, maximo, clave, entrada) ==
  IF Len(lista) > maximo \/ buscar(lista, clave) # 0
    THEN lista
    ELSE Append(lista, entrada)

\* The key is looked up as it was given; the entry holds it cut.
crear(lista, maximo, clave, entrada) ==
  IF Len(lista) >= maximo \/ buscar(lista, clave) # 0
    THEN lista
    ELSE Append(lista, entrada)

eliminar(lista, clave) ==
  LET i == buscar(lista, clave)
  IN  IF i = 0 THEN lista ELSE RemoveAt(lista, i)

\* Keys differ, but for those that lost what made them differ.
ClavesDistintas(lista) ==
  \A i, j \in DOMAIN lista :
    (i # j /\ lista[i].clave = lista[j].clave) =>
      \E k \in Largas : Recorte[k] = lista[i].clave
===========================================================================
