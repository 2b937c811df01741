---------------------------- MODULE BaseDatos ----------------------------
(***************************************************************************)
(* The statements server/data/db/db.c runs on the SQLite file, as          *)
(* operators on tables.  A table is its set of rows and the last           *)
(* AUTOINCREMENT value it handed out; both survive every process, because  *)
(* each statement commits on its own.                                      *)
(***************************************************************************)
EXTENDS Integers, FiniteSets

\* A table as CREATE TABLE leaves it.
TablaVacia == [filas |-> {}, seq |-> 0]

\* The table types.  Only the columns that statements compare or join on.
Tabla(Fila) == [filas : SUBSET Fila, seq : Nat]

\* INSERT: the row takes the next AUTOINCREMENT value.
Insertar(t, fila) ==
  [filas |-> t.filas \cup {fila}, seq |-> t.seq + 1]

\* INSERT OR IGNORE that meets a UNIQUE conflict: no row, but the
\* AUTOINCREMENT value it had reserved is spent.
Ignorar(t) == [t EXCEPT !.seq = @ + 1]

\* A seeded bug: the UNIQUE key is not honoured.
db_aeropuerto_insertar_repite(t, cod) ==
  Insertar(t, [id |-> t.seq + 1, codigo |-> cod])

db_aeropuerto_insertar(t, cod) ==
  IF \E f \in t.filas : f.codigo = cod
    THEN Ignorar(t)
    ELSE Insertar(t, [id |-> t.seq + 1, codigo |-> cod])

\* A seeded bug: two columns bound in the wrong order.
db_usuario_insertar_cruzado(t, dni, email) ==
  Insertar(t, [id |-> t.seq + 1, dni |-> email, email |-> dni])

\* DNI and EMAIL are both UNIQUE: either one makes the row disappear.
db_usuario_insertar(t, dni, email) ==
  IF \E f \in t.filas : f.dni = dni \/ f.email = email
    THEN Ignorar(t)
    ELSE Insertar(t, [id |-> t.seq + 1, dni |-> dni, email |-> email])

\* A seeded bug: origin and destination bound in the wrong order.
db_vuelo_insertar_cruzado(t, cod, origen, destino) ==
  Insertar(t, [id |-> t.seq + 1, cod_vuelo |-> cod,
               id_origen |-> destino, id_destino |-> origen])

\* COD_VUELO has no UNIQUE: every call adds a row.
db_vuelo_insertar(t, cod, origen, destino) ==
  Insertar(t, [id |-> t.seq + 1, cod_vuelo |-> cod,
               id_origen |-> origen, id_destino |-> destino])

db_equipaje_insertar(t, codigo, dni, id_vuelo) ==
  IF \E f \in t.filas : f.codigo = codigo
    THEN Ignorar(t)
    ELSE Insertar(t, [id |-> t.seq + 1, codigo |-> codigo,
                      dni |-> dni, id_vuelo |-> id_vuelo])

billete_insertar(t, id_usuario, id_vuelo) ==
  Insertar(t, [id |-> t.seq + 1, id_usuario |-> id_usuario,
               id_vuelo |-> id_vuelo])

\* A seeded bug: clearing the tickets also restarts the AUTOINCREMENT.
db_limpiar_billetes_reinicia(t) == TablaVacia

\* DELETE FROM Billete: the AUTOINCREMENT value is kept.
db_limpiar_billetes(t) == [t EXCEPT !.filas = {}]

\* SELECT ID_A ... WHERE CODIGO=?, -1 when no row comes back.
db_aeropuerto_buscar_codigo(t, cod) ==
  IF \E f \in t.filas : f.codigo = cod
    THEN (CHOOSE f \in t.filas : f.codigo = cod).id
    ELSE -1

\* A seeded bug: a code without flight is not told from a flight.
vuelo_buscar_codigo_cero(t, cod) ==
  LET S == {f.id : f \in {g \in t.filas : g.cod_vuelo = cod}}
  IN  IF S = {} THEN 0 ELSE CHOOSE i \in S : \A j \in S : i <= j

\* SELECT ID_VUELO ... WHERE COD_VUELO=?: there is no index on COD_VUELO, so
\* the first row of several with that code is the one with the lowest id.
vuelo_buscar_codigo(t, cod) ==
  LET S == {f.id : f \in {g \in t.filas : g.cod_vuelo = cod}}
  IN  IF S = {} THEN -1 ELSE CHOOSE i \in S : \A j \in S : i <= j
===========================================================================
