---------------------------- MODULE ListaTexto ----------------------------
(***************************************************************************)
(* server/data/db/db.c, the texts made for the sockets: a header and one   *)
(* line per row, appended to a buffer while there is room.  A line is its  *)
(* length.  The searches and the tickets of a user (tipo "buscar") answer  *)
(* an error if there was no row; the four listings do not.                 *)
(***************************************************************************)
EXTENDS Integers, Sequences

CONSTANTS
  BUFFER,      \* bytes of the buffer: 20000 or 30000
  LINEA,       \* bytes of char linea[512]
  CABECERA,    \* length of the header
  AVISO,       \* length of the text "ERROR|..." of a search
  Largos,      \* lengths a row would have in full
  MaxFilas     \* bound on the rows of a query

ASSUME ListaTextoAssumption ==
  /\ BUFFER \in Nat /\ LINEA \in Nat \ {0} /\ CABECERA \in Nat /\ AVISO \in Nat
  /\ CABECERA + LINEA < BUFFER
  /\ AVISO < BUFFER
  /\ Largos \subseteq Nat
  /\ MaxFilas \in Nat

VARIABLES
  fase,           \* "libre", "leyendo" (in the while loop) or "hecho"
  tipo,           \* "listar" or "buscar"
  filas,          \* the rows the query finds
  siguiente,      \* the row the next sqlite3_step returns
  largo,          \* strlen(resultado)
  mostradas,      \* the rows whose line is in resultado
  encontrados,    \* of the code
  respuesta       \* what the server makes of the result

vars == <<fase, tipo, filas, siguiente, largo, mostradas, encontrados, respuesta>>

Init ==
  /\ fase = "libre" /\ tipo = "listar" /\ filas = <<>> /\ siguiente = 1
  /\ largo = 0 /\ mostradas = {} /\ encontrados = 0 /\ respuesta = "ninguna"

\* snprintf cuts a line that does not fit in linea.
Cortada(n) == IF n < LINEA THEN n ELSE LINEA - 1

\* A seeded bug: the byte of the final zero is forgotten.
Cabe_sin_cero(n) == largo + n <= BUFFER

\* A seeded bug: room for the longest line is required.
Cabe_la_mas_larga(n) == largo + LINEA + 1 < BUFFER

\* The guard of append_text.  A row that would fit exactly, with the final
\* zero in the last byte, does not pass.
Cabe(n) == largo + n + 1 < BUFFER

\* A line that does not fit is left out; the loop goes on with the next.
append_text(fila, n) ==
  \/ Cabe(n) /\ largo' = largo + n /\ mostradas' = mostradas \cup {fila}
  \/ ~Cabe(n) /\ UNCHANGED <<largo, mostradas>>

\* malloc, prepare and the header.
Empezar(t, f) ==
  /\ fase = "libre"
  /\ fase' = "leyendo" /\ tipo' = t /\ filas' = f /\ siguiente' = 1
  /\ largo' = CABECERA /\ mostradas' = {} /\ encontrados' = 0
  /\ respuesta' = "ninguna"

\* malloc returns NULL: the server answers an error of its own.
SinMemoria(t) ==
  /\ fase = "libre"
  /\ fase' = "hecho" /\ tipo' = t /\ filas' = <<>> /\ siguiente' = 1
  /\ largo' = 0 /\ mostradas' = {} /\ encontrados' = 0
  /\ respuesta' = "ERROR"

\* sqlite3_step returns a row.
Fila ==
  /\ fase = "leyendo"
  /\ siguiente <= Len(filas)
  /\ append_text(siguiente, Cortada(filas[siguiente]))
  /\ encontrados' = encontrados + 1
  /\ siguiente' = siguiente + 1
  /\ UNCHANGED <<fase, tipo, filas, respuesta>>

\* A seeded bug: one row is taken for none.
Terminar_con_una ==
  /\ fase = "leyendo"
  /\ siguiente > Len(filas) \/ siguiente = 1
  /\ fase' = "hecho"
  /\ respuesta' = IF tipo = "buscar" /\ encontrados <= 1 THEN "ERROR" ELSE "DATA"
  /\ UNCHANGED <<tipo, filas, siguiente, largo, mostradas, encontrados>>

\* sqlite3_step returns something else: no more rows or, in its first call
\* only, the lock of the other process, which nobody tells from no rows.
Terminar ==
  /\ fase = "leyendo"
  /\ siguiente > Len(filas) \/ siguiente = 1
  /\ fase' = "hecho"
  /\ \/ /\ tipo = "buscar" /\ encontrados = 0
        /\ largo' = AVISO /\ respuesta' = "ERROR"
     \/ /\ ~(tipo = "buscar" /\ encontrados = 0)
        /\ UNCHANGED largo /\ respuesta' = "DATA"
  /\ UNCHANGED <<tipo, filas, siguiente, mostradas, encontrados>>

\* The server takes the text and frees it.
Servir ==
  /\ fase = "hecho"
  /\ fase' = "libre"
  /\ UNCHANGED <<tipo, filas, siguiente, largo, mostradas, encontrados, respuesta>>

Next ==
  \/ \E t \in {"listar", "buscar"} :
       \/ \E n \in 0..MaxFilas : \E f \in [1..n -> Largos] : Empezar(t, f)
       \/ SinMemoria(t)
  \/ Fila \/ Terminar \/ Servir

Spec == Init /\ [][Next]_vars

----------------------------------------------------------------------------

\* The variables have their types; above all resultado, with its final zero,
\* never outgrows what malloc gave, for any rows in any order.
TypeOK ==
  /\ fase \in {"libre", "leyendo", "hecho"}
  /\ tipo \in {"listar", "buscar"}
  /\ filas \in Seq(Largos)
  /\ siguiente \in 1..(Len(filas) + 1)
  /\ largo \in 0..(BUFFER - 1)
  /\ mostradas \subseteq 1..(siguiente - 1)
  /\ encontrados = siguiente - 1
  /\ respuesta \in {"ninguna", "DATA", "ERROR"}

\* A listing may have holes, but only rows that would make it longer than the
\* longest listing there is are left out, whatever came before and after them.
\* The longest is one character shorter than the buffer allows: append_text
\* does not fill its last byte, and leaves out the row that would.
FaltanLasQueNoCaben ==
  (fase = "leyendo" \/ respuesta = "DATA") =>
    /\ largo <= BUFFER - 2
    /\ \A k \in 1..(siguiente - 1) : k \in mostradas \/ largo + Cortada(filas[k]) > BUFFER - 2

\* A search answers with data exactly when at least one row is in the text: it
\* is never an empty table, nor an error after reading rows.
BusquedaContesta ==
  (fase = "hecho" /\ tipo = "buscar") =>
    /\ (respuesta = "DATA") <=> (1 \in mostradas)
    /\ (respuesta = "ERROR") <=> (siguiente = 1)
===========================================================================
