------------------------------ MODULE Config ------------------------------
(***************************************************************************)
(* server/src/config/config.c and config.h: what cargarConfig makes of     *)
(* config.txt.  A file is a sequence of lines and a line the sequence of   *)
(* pieces that fgets(linea, 300) returns for it: one, unless the line is   *)
(* longer.  Config is the bytes of the struct: strcpy looks at the size of *)
(* no field, and what does not fit in one goes on in the next.             *)
(***************************************************************************)
EXTENDS Integers, SequencesExt

CONSTANTS
  CAMPO,      \* the bytes of a field of an account: char [50]
  LEIDO,      \* the longest value that sscanf takes: %199
  Lineas,     \* what users type: characters
  Valores,    \* what config.txt gives as a value: characters
  RUTA_LOG,   \* the value that ruta_log has without a line
  Archivos    \* the files config.txt may be

NUL == "NUL"

ASSUME TamanosAssumption == CAMPO \in Nat \ {0} /\ LEIDO \in Nat \ {0}

ASSUME LineasAssumption == Lineas \subseteq Seq(STRING \ {NUL}) /\ <<>> \in Lineas

ASSUME ValoresAssumption ==
  /\ Valores \subseteq Seq(STRING \ {NUL}) /\ \A v \in Valores : Len(v) \in 1..LEIDO
  /\ RUTA_LOG \in Valores

\* The bytes of a field that holds a path: char [200].
RUTA == LEIDO + 1

\* Where the fields begin.  The fields between these two paths are not read
\* here: no value is longer than ruta_aeropuertos, so none reaches them.
Base == [admin_user    |-> 0,         admin_pass    |-> CAMPO,
         empleado_user |-> 2 * CAMPO, empleado_pass |-> 3 * CAMPO,
         pasajero_user |-> 4 * CAMPO, pasajero_pass |-> 5 * CAMPO,
         ruta_aeropuertos |-> 6 * CAMPO, ruta_log |-> 6 * CAMPO + RUTA]

Bytes == 0 .. 6 * CAMPO + 2 * RUTA - 1

\* A piece either assigns a key or is empty, a comment or has no = in it.
Asigna(clave, valor) == [clave |-> clave, valor |-> valor]
OTRO_TROZO == Asigna("ninguna", <<>>)

Piezas == [clave : DOMAIN Base \cup {"otra"}, valor : Valores] \cup {OTRO_TROZO}

\* A piece of 299 characters has a key of 99 at most, and all that is read of
\* its value are the first LEIDO.
ASSUME ArchivosAssumption ==
  /\ Archivos \subseteq Seq(Seq(Piezas) \ {<<>>})
  /\ \A archivo \in Archivos : \A linea \in Range(archivo) : \A i \in 1..(Len(linea) - 1) :
       linea[i] = OTRO_TROZO \/ Len(linea[i].valor) = LEIDO

\* The bytes that strcpy writes of a value, and what it writes in each.
Alcance(clave, valor) == Base[clave] .. Base[clave] + Len(valor)
Escrito(clave, valor, b) == Append(valor, NUL)[b - Base[clave] + 1]

strcpy(cfg, clave, valor) ==
  [b \in Bytes |-> IF b \in Alcance(clave, valor) THEN Escrito(clave, valor, b) ELSE cfg[b]]

\* What the code reads of a field: as far as the first NUL.
Cadena(cfg, clave) ==
  LET fin == CHOOSE b \in Bytes : /\ Base[clave] <= b /\ cfg[b] = NUL
                                  /\ \A d \in Base[clave] .. b - 1 : cfg[d] # NUL
  IN  [i \in 1 .. fin - Base[clave] |-> cfg[Base[clave] + i - 1]]

\* A value that fits in its field, with the NUL of its end.
Tam(clave) == IF clave \in {"ruta_aeropuertos", "ruta_log"} THEN RUTA ELSE CAMPO
Cabe(clave, valor) == Len(valor) < Tam(clave)

\* ruta_log has a value without a line; the rest is memset to 0.
Inicial(clave) == IF clave = "ruta_log" THEN RUTA_LOG ELSE <<>>
SinLeer == strcpy([b \in Bytes |-> NUL], "ruta_log", RUTA_LOG)

\* A seeded bug: a key that has its value does not take another.
Leer_primera(cfg, pieza) ==
  IF pieza.clave \in DOMAIN Base /\ Cadena(cfg, pieza.clave) = Cadena(SinLeer, pieza.clave)
    THEN strcpy(cfg, pieza.clave, pieza.valor)
    ELSE cfg

\* One turn of the loop: what does not assign a known key changes nothing.
Leer(cfg, pieza) ==
  IF pieza.clave \in DOMAIN Base THEN strcpy(cfg, pieza.clave, pieza.valor) ELSE cfg

\* Nothing tells the first piece of a line from the rest.
cargarConfig(archivo) ==
  LET piezas == FlattenSeq(archivo)
      tras[n \in 0..Len(piezas)] == IF n = 0 THEN SinLeer ELSE Leer(tras[n - 1], piezas[n])
  IN  tras[Len(piezas)]

Cargado == [archivo \in Archivos |-> cargarConfig(archivo)]
===========================================================================
