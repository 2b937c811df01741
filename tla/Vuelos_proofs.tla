--------------------------- MODULE Vuelos_proofs ---------------------------
(***************************************************************************)
(* The list of flights, for any keys, limits, texts and capacities.        *)
(***************************************************************************)
EXTENDS Vuelos, ListaCSV_proofs

----------------------------------------------------------------------------
(* The invariant *)

Texto == {VACIO, PALABRA} \cup {Cifra(n) : n \in Capacidades}

\* AsientosCuadran of one flight.  No flight has more seats free than in all:
\* without that a flight of negative capacity could be given free seats.
Cuadra(v) ==
  /\ v.asientos_disponibles <= v.capacidad
  /\ v.capacidad - v.asientos_disponibles <= v.vendidos
  /\ ~v.recortado => v.capacidad - v.asientos_disponibles = v.vendidos
  /\ v.capacidad >= 0 => v.asientos_disponibles >= 0

Ficha == [clave : Guardadas, campos : [1..2 -> Texto],
          capacidad : Capacidades \cup {0}, asientos_disponibles : Int,
          vendidos : Nat, recortado : BOOLEAN]
Vuelo == {v \in Ficha : Cuadra(v)}

Lista == {l \in Seq(Vuelo) : Len(l) <= MAX_VUELOS}

\* A line has the capacity, the text of a number, in its third field.
Linea == [clave : Guardadas, campos : [1..3 -> Texto]]

VuelosInv == lista \in Lista /\ archivo \in Seq(Linea)

----------------------------------------------------------------------------
(* The operations on the list *)

LEMMA TipoTexto ==
  /\ Capacidades \cup {0} \subseteq Int
  /\ \A t \in Texto : t.lleno \in BOOLEAN /\ atoi(t) \in Capacidades \cup {0}
  /\ \A n \in Capacidades \cup {0} :
       Cifra(n) \in Texto /\ Cifra(n).lleno /\ atoi(Cifra(n)) = n
<1>1. Capacidades \cup {0} \subseteq Int
  BY VuelosAssumption
<1>2. ASSUME NEW t \in Texto
      PROVE  t.lleno \in BOOLEAN /\ atoi(t) \in Capacidades \cup {0}
  <2>1. CASE t = VACIO \/ t = PALABRA
    <3>1. VACIO.lleno = FALSE /\ VACIO.valor = 0 /\ PALABRA.lleno = TRUE /\ PALABRA.valor = 0
      BY DEF VACIO, PALABRA
    <3> QED BY <2>1, <3>1 DEF atoi
  <2>2. ASSUME NEW n \in Capacidades, t = Cifra(n)
        PROVE  t.lleno \in BOOLEAN /\ atoi(t) \in Capacidades \cup {0}
    BY <2>2 DEF Cifra, atoi
  <2> QED BY <2>1, <2>2 DEF Texto
<1>3. ASSUME NEW n \in Capacidades \cup {0}
      PROVE  Cifra(n) \in Texto /\ Cifra(n).lleno /\ atoi(Cifra(n)) = n
  <2>1. Cifra(n) \in Texto
    <3>1. CASE n = 0
      BY <3>1 DEF Texto, PALABRA, Cifra
    <3>2. CASE n \in Capacidades
      BY <3>2 DEF Texto
    <3> QED BY <3>1, <3>2
  <2> QED BY <2>1 DEF Cifra, atoi
<1> QED BY <1>1, <1>2, <1>3

LEMMA TipoNuevo ==
  ASSUME NEW id \in Claves, NEW campos \in [1..2 -> Texto],
         NEW capacidad \in Capacidades \cup {0}
  PROVE  /\ NuevoVuelo(id, campos, capacidad) \in Vuelo
         /\ NuevoVuelo(id, campos, capacidad).clave = Recorte[id]
         /\ NuevoVuelo(id, campos, capacidad).capacidad = capacidad
         /\ NuevoVuelo(id, campos, capacidad).asientos_disponibles = capacidad
<1>1. Recorte[id] \in Guardadas /\ capacidad \in Int
  BY TipoGuardadas, TipoTexto
<1> QED BY <1>1 DEF NuevoVuelo, Vuelo, Ficha, Cuadra

LEMMA CrearEnLista ==
  ASSUME NEW l \in Lista, NEW id \in Claves, NEW campos \in [1..2 -> Texto],
         NEW capacidad \in Capacidades \cup {0}
  PROVE  vuelo_crear(l, id, campos, capacidad) \in Lista
<1>1. NuevoVuelo(id, campos, capacidad) \in Vuelo /\ MAX_VUELOS \in Nat
  BY TipoNuevo, VuelosAssumption
<1> QED BY <1>1, Creado DEF vuelo_crear, Lista

LEMMA Partes ==
  ASSUME NEW v \in Vuelo
  PROVE  /\ v \in Ficha /\ Cuadra(v)
         /\ v.capacidad \in Int /\ v.asientos_disponibles \in Int
         /\ v.vendidos \in Nat /\ v.recortado \in BOOLEAN
BY TipoTexto DEF Vuelo, Ficha

\* A change of capacity keeps the count, forgetting seats if it is too small.
LEMMA TipoAjustar ==
  ASSUME NEW v \in Vuelo, NEW nueva \in Capacidades, nueva > 0
  PROVE  Ajustar(v, nueva) \in Vuelo
<1> DEFINE usados == v.capacidad - v.asientos_disponibles
           libres == IF nueva < usados THEN 0 ELSE nueva - usados
           recortado == v.recortado \/ nueva < usados
           w == [v EXCEPT !.capacidad = nueva, !.asientos_disponibles = libres,
                          !.recortado = recortado]
<1>1. Ajustar(v, nueva) = w
  BY DEF Ajustar
<1>2. nueva \in Int /\ nueva \in Capacidades \cup {0}
  BY TipoTexto
<1>3. libres \in Int /\ recortado \in BOOLEAN
  BY <1>2, Partes
<1>4. /\ libres <= nueva /\ nueva - libres <= v.vendidos
      /\ ~recortado => nueva - libres = v.vendidos
      /\ libres >= 0
  BY <1>2, Partes DEF Cuadra
<1> HIDE DEF libres, recortado
<1>5. /\ w \in Ficha /\ w.capacidad = nueva /\ w.asientos_disponibles = libres
      /\ w.vendidos = v.vendidos /\ w.recortado = recortado
  BY <1>2, <1>3, Partes DEF Ficha
<1> HIDE DEF w
<1> QED BY <1>1, <1>4, <1>5 DEF Vuelo, Cuadra

LEMMA CambiarEnLista ==
  ASSUME NEW l \in Lista, NEW i \in DOMAIN l, NEW v \in Vuelo
  PROVE  [l EXCEPT ![i] = v] \in Lista
<1>1. i \in 1..Len(l)
  BY LenProperties DEF Lista
<1> QED BY <1>1, ExceptSeq DEF Lista

LEMMA ActualizarEnLista ==
  ASSUME NEW l \in Lista, NEW id \in Claves, NEW hora \in Horas,
         NEW capacidad \in Capacidades \cup {0}
  PROVE  vuelo_actualizar(l, id, hora, capacidad) \in Lista
<1> DEFINE i == buscar(l, id)
           conHora(v) == IF hora.lleno THEN [v EXCEPT !.campos[2] = hora] ELSE v
           w == IF capacidad > 0 THEN Ajustar(conHora(l[i]), capacidad) ELSE conHora(l[i])
<1>1. CASE i = 0
  BY <1>1 DEF vuelo_actualizar
<1>2. CASE i # 0
  <2>1. i \in DOMAIN l /\ l[i] \in Vuelo
    BY <1>2, Buscado, LenProperties DEF Lista
  <2>2. hora \in Texto
    BY VuelosAssumption DEF Texto
  <2>3. conHora(l[i]) \in Vuelo
    BY <2>1, <2>2 DEF Vuelo, Ficha, Cuadra
  <2>4. w \in Vuelo
    <3>1. capacidad > 0 => capacidad \in Capacidades
      BY TipoTexto
    <3> HIDE DEF conHora
    <3> QED BY <2>3, <3>1, TipoAjustar
  <2>5. vuelo_actualizar(l, id, hora, capacidad) = [l EXCEPT ![i] = w]
    BY <1>2 DEF vuelo_actualizar
  <2> HIDE DEF w, i
  <2> QED BY <2>1, <2>4, <2>5, CambiarEnLista
<1> QED BY <1>1, <1>2

LEMMA ReservarEnLista ==
  ASSUME NEW l \in Lista, NEW id \in Claves
  PROVE  vuelo_reservar_asiento(l, id) \in Lista
<1> DEFINE i == buscar(l, id)
           v == l[i]
           w == [v EXCEPT !.asientos_disponibles = @ - 1, !.vendidos = @ + 1]
<1>1. CASE i = 0 \/ v.asientos_disponibles <= 0
  BY <1>1 DEF vuelo_reservar_asiento
<1>2. CASE i # 0 /\ ~(v.asientos_disponibles <= 0)
  <2>1. i \in DOMAIN l /\ v \in Vuelo
    BY <1>2, Buscado, LenProperties DEF Lista
  <2>2. vuelo_reservar_asiento(l, id) = [l EXCEPT ![i] = w]
    BY <1>2, <2>1 DEF vuelo_reservar_asiento, Vuelo, Ficha
  <2> HIDE DEF i, v
  <2>3. /\ v.asientos_disponibles - 1 \in Int /\ v.vendidos + 1 \in Nat
        /\ v.asientos_disponibles - 1 <= v.capacidad
        /\ v.capacidad - (v.asientos_disponibles - 1) <= v.vendidos + 1
        /\ ~v.recortado => v.capacidad - (v.asientos_disponibles - 1) = v.vendidos + 1
        /\ v.capacidad >= 0 => v.asientos_disponibles - 1 >= 0
    BY <1>2, <2>1, Partes DEF Cuadra
  <2>4. /\ w \in Ficha /\ w.capacidad = v.capacidad /\ w.recortado = v.recortado
        /\ w.asientos_disponibles = v.asientos_disponibles - 1
        /\ w.vendidos = v.vendidos + 1
    BY <2>1, <2>3, Partes DEF Ficha
  <2> HIDE DEF w
  <2>5. w \in Vuelo
    BY <2>3, <2>4 DEF Vuelo, Cuadra
  <2> QED BY <2>1, <2>2, <2>5, CambiarEnLista
<1> QED BY <1>1, <1>2

LEMMA LiberarEnLista ==
  ASSUME NEW l \in Lista, NEW id \in Claves
  PROVE  vuelo_liberar_asiento(l, id) \in Lista
<1> DEFINE i == buscar(l, id)
           v == l[i]
           libres == IF v.asientos_disponibles < v.capacidad
                       THEN v.asientos_disponibles + 1 ELSE v.asientos_disponibles
           vendidos == IF v.vendidos > 0 THEN v.vendidos - 1 ELSE 0
           w == [v EXCEPT !.asientos_disponibles = libres, !.vendidos = vendidos]
<1>1. CASE i = 0
  BY <1>1 DEF vuelo_liberar_asiento
<1>2. CASE i # 0
  <2>1. i \in DOMAIN l /\ v \in Vuelo
    BY <1>2, Buscado, LenProperties DEF Lista
  <2>2. vuelo_liberar_asiento(l, id) = [l EXCEPT ![i] = w]
    BY <1>2, <2>1 DEF vuelo_liberar_asiento, Vuelo, Ficha
  <2> HIDE DEF i, v
  <2>3. /\ libres \in Int /\ vendidos \in Nat
        /\ libres <= v.capacidad
        /\ v.capacidad - libres <= vendidos
        /\ ~v.recortado => v.capacidad - libres = vendidos
        /\ v.capacidad >= 0 => libres >= 0
    BY <2>1, Partes DEF Cuadra
  <2> HIDE DEF libres, vendidos
  <2>4. /\ w \in Ficha /\ w.capacidad = v.capacidad /\ w.recortado = v.recortado
        /\ w.asientos_disponibles = libres /\ w.vendidos = vendidos
    BY <2>1, <2>3, Partes DEF Ficha
  <2> HIDE DEF w
  <2>5. w \in Vuelo
    BY <2>3, <2>4 DEF Vuelo, Cuadra
  <2> QED BY <2>1, <2>2, <2>5, CambiarEnLista
<1> QED BY <1>1, <1>2

LEMMA EliminarEnLista ==
  ASSUME NEW l \in Lista, NEW id \in Claves
  PROVE  eliminar(l, id) \in Lista
<1>1. l \in Seq(Vuelo) /\ Len(l) \in Nat /\ Len(l) <= MAX_VUELOS /\ MAX_VUELOS \in Nat
  BY LenProperties, VuelosAssumption DEF Lista
<1>2. eliminar(l, id) \in Seq(Vuelo) /\ Len(eliminar(l, id)) <= Len(l)
  BY <1>1, Eliminado
<1>3. Len(eliminar(l, id)) \in Nat
  BY <1>2, LenProperties
<1> QED BY <1>1, <1>2, <1>3 DEF Lista

----------------------------------------------------------------------------
(* Saving and loading *)

\* The line of a flight, and what reading it gives: its fields that are not
\* empty with the capacity after them.
Renglon(v) == [clave |-> v.clave, campos |-> Append(v.campos, Cifra(v.capacidad))]

LEMMA TipoRenglon ==
  ASSUME NEW v \in Vuelo
  PROVE  /\ Renglon(v) \in Linea
         /\ Renglon(v).clave = v.clave
         /\ Renglon(v).campos[1] = v.campos[1]
         /\ Renglon(v).campos[2] = v.campos[2]
         /\ Renglon(v).campos[3] = Cifra(v.capacidad)
<1>1. v.clave \in Guardadas /\ v.campos \in [1..2 -> Texto] /\ Cifra(v.capacidad) \in Texto
  BY TipoTexto DEF Vuelo, Ficha
<1>2. v.campos \in Seq(Texto)
  BY <1>1, EsSecuencia
<1>5. Len(v.campos) = 2
  BY <1>1, EsSecuencia
<1> DEFINE c == Append(v.campos, Cifra(v.capacidad))
<1>3. /\ c \in Seq(Texto) /\ Len(c) = 3
      /\ c[1] = v.campos[1] /\ c[2] = v.campos[2] /\ c[3] = Cifra(v.capacidad)
  <2>1. ASSUME NEW x \in Texto
        PROVE  /\ Append(v.campos, x) \in Seq(Texto) /\ Len(Append(v.campos, x)) = 3
               /\ Append(v.campos, x)[1] = v.campos[1]
               /\ Append(v.campos, x)[2] = v.campos[2]
               /\ Append(v.campos, x)[3] = x
    <3> DEFINE d == Append(v.campos, x)
    <3>1. /\ d \in Seq(Texto) /\ Len(d) = Len(v.campos) + 1
          /\ \A i \in 1..Len(v.campos) : d[i] = v.campos[i]
          /\ d[Len(v.campos) + 1] = x
      BY <1>2, AppendProperties
    <3> HIDE DEF d
    <3>2. /\ d \in Seq(Texto) /\ Len(d) = 3
          /\ d[1] = v.campos[1] /\ d[2] = v.campos[2] /\ d[3] = x
      BY <1>5, <3>1
    <3> QED BY <3>2 DEF d
  <2> QED BY <1>1, <2>1
<1>4. c \in [1..3 -> Texto]
  BY <1>3, LenProperties
<1> HIDE DEF c
<1> QED BY <1>1, <1>3, <1>4 DEF Renglon, Linea, c

LEMMA GuardarLineas ==
  ASSUME NEW l \in Lista
  PROVE  /\ vuelo_guardar_csv(l) \in Seq(Linea)
         /\ Len(vuelo_guardar_csv(l)) = Len(l)
         /\ \A i \in 1..Len(l) : l[i] \in Vuelo /\ vuelo_guardar_csv(l)[i] = Renglon(l[i])
<1>1. DOMAIN l = 1..Len(l) /\ Len(l) \in Nat /\ \A i \in 1..Len(l) : l[i] \in Vuelo
  BY LenProperties, ElementOfSeq DEF Lista
<1>2. vuelo_guardar_csv(l) = [i \in 1..Len(l) |-> Renglon(l[i])]
  BY <1>1 DEF vuelo_guardar_csv, Renglon
<1>3. \A i \in 1..Len(l) : Renglon(l[i]) \in Linea
  BY <1>1, TipoRenglon
<1>4. vuelo_guardar_csv(l) \in [1..Len(l) -> Linea]
  BY <1>2, <1>3
<1>5. vuelo_guardar_csv(l) \in Seq(Linea) /\ Len(vuelo_guardar_csv(l)) = Len(l)
  BY <1>1, <1>4, SeqDef
<1> QED BY <1>1, <1>2, <1>5

LEMMA LeerEnLista ==
  ASSUME NEW l \in Lista, NEW linea \in Linea
  PROVE  Leer(l, linea) \in Lista
<1> DEFINE campos == Llenos(linea.campos)
<1>1. linea.clave \in Claves /\ linea.campos \in [1..3 -> Texto]
  BY TipoGuardadas DEF Linea
<1>2. campos \in Seq(Texto) /\ Len(campos) \in Nat
  BY <1>1, LlenosDeLinea, LenProperties
<1>3. CASE Len(campos) < 2
  BY <1>3 DEF Leer
<1>4. CASE ~(Len(campos) < 2)
  <2> DEFINE capacidad == IF Len(campos) > 2 THEN atoi(campos[3]) ELSE 0
             dos == SubSeq(campos, 1, 2)
  <2>1. Leer(l, linea) = vuelo_crear(l, linea.clave, dos, capacidad)
    BY <1>4 DEF Leer
  <2> HIDE DEF campos
  <2>2. \A i \in 1..2 : campos[i] \in Texto
    BY <1>2, <1>4, ElementOfSeq
  <2>3. dos \in Seq(Texto) /\ Len(dos) = 2
    BY <2>2, SubSeqProperties
  <2>4. dos \in [1..2 -> Texto]
    BY <2>3, LenProperties
  <2>5. capacidad \in Capacidades \cup {0}
    BY <1>2, TipoTexto, ElementOfSeq
  <2> HIDE DEF dos, capacidad
  <2> QED BY <1>1, <2>1, <2>4, <2>5, CrearEnLista
<1> QED BY <1>3, <1>4

\* A load, one line at a time.
LEMMA Cargado ==
  ASSUME NEW l \in Lista, NEW lineas \in Seq(Linea)
  PROVE  \E tras \in [0..Len(lineas) -> Lista] :
           /\ tras[0] = l
           /\ \A n \in 1..Len(lineas) : tras[n] = Leer(tras[n - 1], lineas[n])
           /\ vuelo_cargar_csv(l, lineas) = tras[Len(lineas)]
<1> DEFINE N == Len(lineas)
           T == {n \in 0..N : \E f \in [0..n -> Lista] :
                                f[0] = l /\ \A i \in 1..n : f[i] = Leer(f[i - 1], lineas[i])}
<1>1. N \in Nat /\ \A i \in 1..N : lineas[i] \in Linea
  BY LenProperties, ElementOfSeq
<1>2. 0 \in T
  <2> DEFINE g == [i \in 0..0 |-> l]
  <2>1. g \in [0..0 -> Lista]
    OBVIOUS
  <2>2. g[0] = l /\ \A i \in 1..0 : g[i] = Leer(g[i - 1], lineas[i])
    OBVIOUS
  <2>3. 0 \in 0..N
    BY <1>1
  <2> HIDE DEF g, N
  <2>4. \E f \in [0..0 -> Lista] : f[0] = l /\ \A i \in 1..0 : f[i] = Leer(f[i - 1], lineas[i])
    BY <2>1, <2>2
  <2> QED BY <2>3, <2>4
<1>3. ASSUME NEW n \in 0..N, n \in T, n < N PROVE n + 1 \in T
  <2>0. n \in Nat /\ n + 1 \in 0..N /\ n + 1 \in 1..N
    BY <1>1, <1>3
  <2>1. PICK f \in [0..n -> Lista] :
          f[0] = l /\ \A i \in 1..n : f[i] = Leer(f[i - 1], lineas[i])
    BY <1>3
  <2> DEFINE g == [i \in 0..n + 1 |-> IF i <= n THEN f[i] ELSE Leer(f[n], lineas[n + 1])]
  <2>2. Leer(f[n], lineas[n + 1]) \in Lista
    <3>1. f[n] \in Lista /\ lineas[n + 1] \in Linea
      BY <1>1, <2>0, <2>1
    <3> QED BY <3>1, LeerEnLista
  <2>3. g \in [0..n + 1 -> Lista]
    BY <2>0, <2>1, <2>2
  <2>4. g[0] = l
    BY <2>0, <2>1
  <2>5. ASSUME NEW i \in 1..n + 1 PROVE g[i] = Leer(g[i - 1], lineas[i])
    <3>1. i - 1 \in 0..n /\ i \in 0..n + 1 /\ (~(i <= n) => i = n + 1 /\ i - 1 = n)
      BY <2>0
    <3>2. g[i - 1] = f[i - 1] /\ g[i] = IF i <= n THEN f[i] ELSE Leer(f[n], lineas[n + 1])
      BY <2>0, <3>1
    <3>3. CASE i <= n
      <4>1. i \in 1..n
        BY <2>0, <3>3
      <4> HIDE DEF g
      <4> QED BY <2>1, <3>2, <3>3, <4>1
    <3>4. CASE ~(i <= n)
      <4> HIDE DEF g
      <4> QED BY <3>1, <3>2, <3>4
    <3> QED BY <3>3, <3>4
  <2> HIDE DEF g
  <2> QED BY <2>0, <2>3, <2>4, <2>5
<1>4. N \in T
  <2>1. \A n \in 0..N : (n \in T /\ n < N) => n + 1 \in T
    BY <1>3
  <2> HIDE DEF T
  <2>2. 0..N \subseteq T
    BY <1>1, <1>2, <2>1, Induccion
  <2> QED BY <1>1, <2>2
<1>5. PICK f \in [0..N -> Lista] :
        f[0] = l /\ \A i \in 1..N : f[i] = Leer(f[i - 1], lineas[i])
  BY <1>4
<1> DEFINE Es(g) == g = [n \in 0..N |-> IF n = 0 THEN l ELSE Leer(g[n - 1], lineas[n])]
<1>6. Es(f)
  BY <1>5
<1>7. ASSUME NEW g, Es(g) PROVE g[N] = f[N]
  <2> DEFINE U == {n \in 0..N : g[n] = f[n]}
  <2>1. 0 \in U
    BY <1>1, <1>5, <1>7
  <2>2. ASSUME NEW n \in 0..N, n \in U, n < N PROVE n + 1 \in U
    <3> DEFINE m == n + 1
    <3>1. m \in 1..N /\ m \in 0..N /\ m - 1 = n /\ m # 0
      BY <1>1, <2>2
    <3> HIDE DEF m
    <3>2. g[m] = Leer(g[m - 1], lineas[m]) /\ f[m] = Leer(f[m - 1], lineas[m])
      BY <1>5, <1>7, <3>1
    <3>3. m \in U
      BY <2>2, <3>1, <3>2
    <3> QED BY <3>3 DEF m
  <2>3. \A n \in 0..N : (n \in U /\ n < N) => n + 1 \in U
    BY <2>2
  <2> HIDE DEF U
  <2>4. 0..N \subseteq U
    BY <1>1, <2>1, <2>3, Induccion
  <2> QED BY <1>1, <2>4 DEF U
<1>8. vuelo_cargar_csv(l, lineas) = (CHOOSE g : Es(g))[N]
  BY DEF vuelo_cargar_csv
<1>9. vuelo_cargar_csv(l, lineas) = f[N]
  <2> HIDE DEF Es
  <2>1. Es(CHOOSE g : Es(g))
    BY <1>6
  <2> QED BY <1>7, <1>8, <2>1
<1> QED BY <1>5, <1>9

LEMMA CargarEnLista ==
  ASSUME NEW l \in Lista, NEW lineas \in Seq(Linea)
  PROVE  vuelo_cargar_csv(l, lineas) \in Lista
<1>1. Len(lineas) \in 0..Len(lineas)
  BY LenProperties
<1> QED BY <1>1, Cargado

----------------------------------------------------------------------------
(* The invariant is inductive *)

LEMMA VuelosInicial == Init => VuelosInv
<1>1. <<>> \in Lista
  BY EmptySeq, VuelosAssumption DEF Lista
<1> QED BY <1>1, EmptySeq DEF Init, VuelosInv

LEMMA VuelosPaso == VuelosInv /\ [Next]_vars => VuelosInv'
<1> SUFFICES ASSUME VuelosInv, [Next]_vars PROVE VuelosInv'
  OBVIOUS
<1> USE DEF VuelosInv
<1>1. CASE Crear /\ UNCHANGED archivo
  <2>1. PICK id \in Claves, campos \in Campos, capacidad \in Capacidades :
          lista' = vuelo_crear(lista, id, campos, capacidad)
    BY <1>1 DEF Crear
  <2>2. campos \in [1..2 -> Texto]
    BY VuelosAssumption DEF Texto
  <2> QED BY <1>1, <2>1, <2>2, CrearEnLista
<1>2. CASE Eliminar /\ UNCHANGED archivo
  BY <1>2, EliminarEnLista DEF Eliminar
<1>3. CASE Actualizar /\ UNCHANGED archivo
  BY <1>3, ActualizarEnLista DEF Actualizar
<1>4. CASE Reservar /\ UNCHANGED archivo
  BY <1>4, ReservarEnLista DEF Reservar
<1>5. CASE Liberar /\ UNCHANGED archivo
  BY <1>5, LiberarEnLista DEF Liberar
<1>6. CASE Cargar /\ UNCHANGED archivo
  BY <1>6, CargarEnLista DEF Cargar
<1>7. CASE Reiniciar /\ UNCHANGED archivo
  <2>1. <<>> \in Lista
    BY EmptySeq, VuelosAssumption DEF Lista
  <2> QED BY <1>7, <2>1 DEF Reiniciar
<1>8. CASE Guardar /\ UNCHANGED lista
  BY <1>8, GuardarLineas DEF Guardar
<1>9. CASE UNCHANGED vars
  BY <1>9 DEF vars
<1> QED BY <1>1, <1>2, <1>3, <1>4, <1>5, <1>6, <1>7, <1>8, <1>9 DEF Next

\* Every flight is a record of its type and the list fits in its array,
\* whatever is created, loaded and changed.
THEOREM VuelosSiempreConTipo == Spec => []TypeOK
<1>1. VuelosInv => TypeOK
  <2> DEFINE Registro == [clave : {Recorte[k] : k \in Claves},
                    campos : [1..2 -> {VACIO, PALABRA} \cup {Cifra(n) : n \in Capacidades}],
                    capacidad : Int, asientos_disponibles : Int,
                    vendidos : Nat, recortado : BOOLEAN]
  <2>1. Vuelo \subseteq Registro
    BY TipoTexto DEF Vuelo, Ficha, Guardadas, Texto
  <2> HIDE DEF Registro
  <2>2. VuelosInv => lista \in Seq(Registro)
    BY <2>1, SeqMonotonic DEF VuelosInv, Lista
  <2> QED BY <2>2 DEF VuelosInv, Lista, TypeOK, Registro
<1> QED BY <1>1, VuelosInicial, VuelosPaso, PTL DEF Spec

\* Seats sold and free add up to the capacity until a capacity under the seats
\* sold is set, and no seat is taken that nobody bought.
THEOREM AsientosSiempreCuadran == Spec => []AsientosCuadran
<1>1. VuelosInv => AsientosCuadran
  <2> SUFFICES ASSUME VuelosInv, NEW i \in DOMAIN lista
               PROVE  LET v == lista[i]
                      IN  /\ v.capacidad - v.asientos_disponibles <= v.vendidos
                          /\ ~v.recortado => v.capacidad - v.asientos_disponibles = v.vendidos
                          /\ v.capacidad >= 0 => v.asientos_disponibles \in 0..v.capacidad
    BY DEF AsientosCuadran
  <2>1. lista[i] \in Vuelo
    BY LenProperties, ElementOfSeq DEF VuelosInv, Lista
  <2> QED BY <2>1, Partes DEF Cuadra
<1> QED BY <1>1, VuelosInicial, VuelosPaso, PTL DEF Spec

----------------------------------------------------------------------------
(* What a saved list gives back *)

\* The flight w is what v comes back as.
Vuelve(w, v) ==
  /\ w.clave = v.clave
  /\ w.capacidad = IF Len(Llenos(v.campos)) = 2 THEN v.capacidad ELSE 0
  /\ w.asientos_disponibles = w.capacidad

\* What is left of a flight among those with some text.
Queda(v) == IF Len(Llenos(v.campos)) >= 1 THEN <<v>> ELSE <<>>

LEMMA LlenosDeVuelo ==
  ASSUME NEW v \in Vuelo
  PROVE  /\ Len(Llenos(v.campos)) \in 0..2
         /\ Len(Llenos(v.campos)) = 2 => v.campos[1].lleno /\ v.campos[2].lleno
         /\ Llenos(Renglon(v).campos) \in Seq(Texto)
         /\ Len(Llenos(Renglon(v).campos)) = Len(Llenos(v.campos)) + 1
<1> DEFINE c == v.campos
           d == Renglon(v).campos
<1>1. c \in [1..2 -> Texto] /\ c[1] \in Texto /\ c[2] \in Texto
  BY Partes DEF Ficha
<1>2. /\ d \in [1..3 -> Texto]
      /\ d[1] = c[1] /\ d[2] = c[2] /\ d[3] = Cifra(v.capacidad)
      /\ Cifra(v.capacidad) \in Texto /\ Cifra(v.capacidad).lleno
  BY TipoRenglon, Partes, TipoTexto DEF Linea, Ficha
<1>3. Llenos(c) = Trozo(c[1]) \o Trozo(c[2])
  BY <1>1, LlenosDeDos
<1>4. Llenos(d) \in Seq(Texto)
      /\ Len(Llenos(d)) = Len(Trozo(d[1])) + Len(Trozo(d[2])) + Len(Trozo(d[3]))
  BY <1>2, LlenosDeLinea
<1> HIDE DEF c, d
<1>5. /\ Trozo(c[1]) \in Seq(Texto) /\ Len(Trozo(c[1])) = IF c[1].lleno THEN 1 ELSE 0
      /\ Trozo(c[2]) \in Seq(Texto) /\ Len(Trozo(c[2])) = IF c[2].lleno THEN 1 ELSE 0
      /\ Len(Trozo(d[3])) = 1
  BY <1>1, <1>2, TipoTrozo
<1>6. Len(Llenos(c)) = Len(Trozo(c[1])) + Len(Trozo(c[2]))
  BY <1>3, <1>5, ConcatProperties
<1>7. /\ Len(Llenos(c)) \in 0..2
      /\ Len(Llenos(c)) = 2 => c[1].lleno /\ c[2].lleno
      /\ Len(Llenos(d)) = Len(Llenos(c)) + 1
  BY <1>2, <1>4, <1>5, <1>6
<1> QED BY <1>4, <1>7 DEF c, d

\* Reading the line of a flight that the list does not have.
LEMMA LeerRenglon ==
  ASSUME NEW l \in Lista, NEW v \in Vuelo
  PROVE  /\ Len(Llenos(v.campos)) = 0 => Leer(l, Renglon(v)) = l
         /\ (Len(Llenos(v.campos)) # 0 /\ Len(l) < MAX_VUELOS /\ buscar(l, v.clave) = 0) =>
              \E e \in Vuelo : Leer(l, Renglon(v)) = Append(l, e) /\ Vuelve(e, v)
<1> DEFINE n == Len(Llenos(v.campos))
           campos == Llenos(Renglon(v).campos)
           capacidad == IF Len(campos) > 2 THEN atoi(campos[3]) ELSE 0
           dos == SubSeq(campos, 1, 2)
           e == NuevoVuelo(v.clave, dos, capacidad)
<1>1. /\ n \in 0..2 /\ (n = 2 => v.campos[1].lleno /\ v.campos[2].lleno)
      /\ campos \in Seq(Texto) /\ Len(campos) = n + 1
  BY LlenosDeVuelo
<1>2. Renglon(v) \in Linea /\ Renglon(v).clave = v.clave
  BY TipoRenglon
<1>3. n = 0 => Leer(l, Renglon(v)) = l
  BY <1>1 DEF Leer
<1>4. ASSUME n # 0, Len(l) < MAX_VUELOS, buscar(l, v.clave) = 0
      PROVE  \E w \in Vuelo : Leer(l, Renglon(v)) = Append(l, w) /\ Vuelve(w, v)
  <2>1. v.clave \in Claves /\ Recorte[v.clave] = v.clave
    BY TipoGuardadas, Partes DEF Ficha
  <2>2. Leer(l, Renglon(v)) = vuelo_crear(l, v.clave, dos, capacidad)
    BY <1>1, <1>2, <1>4 DEF Leer
  <2>3. capacidad = IF n = 2 THEN v.capacidad ELSE 0
    <3>1. CASE n = 2
      <4>1. /\ campos = <<Renglon(v).campos[1], Renglon(v).campos[2]>> \o Trozo(Renglon(v).campos[3])
            /\ Renglon(v).campos[3] = Cifra(v.capacidad)
            /\ Renglon(v).campos \in [1..3 -> Texto]
        BY <1>1, <1>2, <3>1, TipoRenglon, LlenosDeLinea DEF Linea
      <4>2. Trozo(Renglon(v).campos[3]) = <<Cifra(v.capacidad)>>
        BY <4>1, TipoTexto, Partes DEF Trozo, Ficha
      <4>3. campos[3] = Cifra(v.capacidad)
        <5> DEFINE a == <<Renglon(v).campos[1], Renglon(v).campos[2]>>
                   b == <<Cifra(v.capacidad)>>
        <5>1. a \in Seq(Texto) /\ b \in Seq(Texto) /\ Len(a) = 2 /\ Len(b) = 1
              /\ b[1] = Cifra(v.capacidad)
          BY <4>1, TipoTexto, Partes DEF Ficha
        <5> HIDE DEF a, b
        <5>2. \A i \in 1..Len(a) + Len(b) :
                (a \o b)[i] = IF i <= Len(a) THEN a[i] ELSE b[i - Len(a)]
          BY <5>1, ConcatProperties
        <5>3. 3 \in 1..Len(a) + Len(b) /\ ~(3 <= Len(a)) /\ 3 - Len(a) = 1
          BY <5>1
        <5>4. (a \o b)[3] = b[1]
          BY <5>2, <5>3
        <5> QED BY <4>1, <4>2, <5>1, <5>4 DEF a, b
      <4> QED BY <1>1, <3>1, <4>3, TipoTexto, Partes DEF Ficha
    <3>2. CASE n # 2
      <4> HIDE DEF n, campos
      <4> QED BY <1>1, <3>2
    <3> QED BY <3>1, <3>2
  <2>4. capacidad \in Capacidades \cup {0}
    BY <2>3, Partes DEF Ficha
  <2>5. dos \in [1..2 -> Texto]
    <3> HIDE DEF campos, n
    <3>1. \A i \in 1..2 : campos[i] \in Texto
      BY <1>1, <1>4, ElementOfSeq
    <3>2. dos \in Seq(Texto) /\ Len(dos) = 2
      BY <3>1, SubSeqProperties
    <3> QED BY <3>2, LenProperties
  <2> HIDE DEF dos, capacidad, campos
  <2>6. e \in Vuelo /\ e.clave = v.clave /\ e.capacidad = capacidad
        /\ e.asientos_disponibles = capacidad
    BY <2>1, <2>4, <2>5, TipoNuevo
  <2> HIDE DEF e
  <2>7. vuelo_crear(l, v.clave, dos, capacidad) = Append(l, e)
    <3>1. MAX_VUELOS \in Nat /\ l \in Seq(Vuelo) /\ Len(l) <= MAX_VUELOS
      BY VuelosAssumption DEF Lista
    <3>2. crear(l, MAX_VUELOS, v.clave, e) = Append(l, e)
      BY <1>4, <2>6, <3>1, Creado
    <3> QED BY <3>2 DEF vuelo_crear, e
  <2>8. Vuelve(e, v)
    BY <2>3, <2>6 DEF Vuelve
  <2> QED BY <2>2, <2>6, <2>7, <2>8
<1> QED BY <1>3, <1>4

\* After n lines the list has what the first n flights come back as, so that
\* the next one finds no flight with its id.
LEMMA VueltaDeLista ==
  ASSUME NEW l \in Lista,
         \A i, j \in DOMAIN l : i # j => l[i].clave # l[j].clave
  PROVE  LET completos == FlattenSeq([i \in DOMAIN l |-> Queda(l[i])])
             vuelta == vuelo_cargar_csv(<<>>, vuelo_guardar_csv(l))
         IN  /\ Len(vuelta) = Len(completos)
             /\ \A i \in DOMAIN vuelta : Vuelve(vuelta[i], completos[i])
<1> DEFINE N == Len(l)
           lineas == vuelo_guardar_csv(l)
           ss == [i \in DOMAIN l |-> Queda(l[i])]
<1>1. /\ N \in Nat /\ DOMAIN l = 1..N /\ N <= MAX_VUELOS /\ MAX_VUELOS \in Nat
      /\ \A i \in 1..N : l[i] \in Vuelo
  BY LenProperties, ElementOfSeq, VuelosAssumption DEF Lista
<1>2. /\ lineas \in Seq(Linea) /\ Len(lineas) = N
      /\ \A i \in 1..N : lineas[i] = Renglon(l[i])
  BY GuardarLineas
<1>3. ss \in Seq(Seq(Vuelo)) /\ Len(ss) = N /\ \A i \in 1..N : ss[i] = Queda(l[i])
  <2>1. \A i \in 1..N : Queda(l[i]) \in Seq(Vuelo)
    BY <1>1 DEF Queda
  <2>2. ss \in [1..N -> Seq(Vuelo)]
    BY <1>1, <2>1
  <2>3. \A i \in 1..N : ss[i] = Queda(l[i])
    BY <1>1
  <2> HIDE DEF ss
  <2> QED BY <1>1, <2>2, <2>3, EsSecuencia
<1>4. <<>> \in Lista
  BY <1>1, EmptySeq DEF Lista
<1> HIDE DEF N, lineas, ss
<1>5. PICK tras \in [0..N -> Lista] :
        /\ tras[0] = <<>>
        /\ \A n \in 1..N : tras[n] = Leer(tras[n - 1], lineas[n])
        /\ vuelo_cargar_csv(<<>>, lineas) = tras[N]
  BY <1>2, <1>4, Cargado
<1>6. PICK f \in [0..N -> Seq(Vuelo)] :
        /\ f[0] = <<>>
        /\ \A n \in 1..N : f[n] = f[n - 1] \o ss[n]
        /\ FlattenSeq(ss) = f[N]
  BY <1>3, Aplanado
<1> DEFINE Bien(n) == /\ Len(tras[n]) = Len(f[n]) /\ Len(f[n]) <= n
                      /\ \A i \in 1..Len(f[n]) :
                           /\ Vuelve(tras[n][i], f[n][i])
                           /\ \E j \in 1..n : f[n][i] = l[j]
           T == {n \in 0..N : Bien(n)}
<1>7. 0 \in T
  BY <1>1, <1>5, <1>6, EmptySeq
<1>8. ASSUME NEW n \in 0..N, n \in T, n < N PROVE n + 1 \in T
  <2> DEFINE m == n + 1
             v == l[m]
  <2>1. m \in 1..N /\ m \in 0..N /\ m - 1 = n /\ n \in Nat /\ m = n + 1
    BY <1>1, <1>8
  <2>2. Bien(n)
    BY <1>8
  <2> HIDE DEF m
  <2>3. /\ tras[n] \in Lista /\ f[n] \in Seq(Vuelo) /\ v \in Vuelo
        /\ tras[m] = Leer(tras[n], Renglon(v)) /\ f[m] = f[n] \o Queda(v)
    BY <1>1, <1>2, <1>3, <1>5, <1>6, <2>1
  <2>4. tras[n] \in Seq(Vuelo) /\ Len(tras[n]) \in Nat /\ Len(f[n]) \in Nat
        /\ Len(tras[n]) < MAX_VUELOS
    <3>1. tras[n] \in Seq(Vuelo)
      BY <2>3 DEF Lista
    <3> QED BY <1>1, <1>8, <2>1, <2>2, <2>3, <3>1, LenProperties
  <2>5. Len(Llenos(v.campos)) \in 0..2
    BY <2>3, LlenosDeVuelo
  <2>6. CASE Len(Llenos(v.campos)) = 0
    <3>1. tras[m] = tras[n]
      BY <2>3, <2>6, LeerRenglon
    <3>2. f[m] = f[n]
      BY <2>3, <2>6, ConcatEmptySeq DEF Queda
    <3>3. Bien(m)
      BY <2>1, <2>2, <2>4, <3>1, <3>2
    <3> QED BY <2>1, <3>3
  <2>7. CASE Len(Llenos(v.campos)) # 0
    <3>1. buscar(tras[n], v.clave) = 0
      <4> DEFINE k == buscar(tras[n], v.clave)
      <4>1. SUFFICES ASSUME k # 0 PROVE FALSE
        OBVIOUS
      <4>2. k \in 1..Len(f[n]) /\ tras[n][k].clave = v.clave
        BY <2>2, <2>4, <4>1, Buscado, LenProperties
      <4> HIDE DEF k
      <4>3. PICK j \in 1..n : f[n][k] = l[j]
        BY <2>2, <4>2
      <4>4. l[j].clave = l[m].clave
        BY <2>2, <4>2, <4>3 DEF Vuelve
      <4>5. j \in DOMAIN l /\ m \in DOMAIN l /\ j # m
        BY <1>1, <1>8, <2>1
      <4> QED BY <4>4, <4>5
    <3>2. PICK e \in Vuelo : tras[m] = Append(tras[n], e) /\ Vuelve(e, v)
      BY <2>3, <2>4, <2>7, <3>1, LeerRenglon
    <3>3. Queda(v) = <<v>>
      BY <2>5, <2>7 DEF Queda
    <3>4. f[m] = Append(f[n], v)
      BY <2>3, <3>3, AppendIsConcat
    <3>5. /\ Len(tras[m]) = Len(tras[n]) + 1 /\ tras[m][Len(tras[n]) + 1] = e
          /\ \A i \in 1..Len(tras[n]) : tras[m][i] = tras[n][i]
      BY <2>4, <3>2, AppendProperties
    <3>6. /\ Len(f[m]) = Len(f[n]) + 1 /\ f[m][Len(f[n]) + 1] = v
          /\ \A i \in 1..Len(f[n]) : f[m][i] = f[n][i]
      BY <2>3, <3>4, AppendProperties
    <3>7. ASSUME NEW i \in 1..Len(f[m])
          PROVE  Vuelve(tras[m][i], f[m][i]) /\ \E j \in 1..m : f[m][i] = l[j]
      <4>1. CASE i \in 1..Len(f[n])
        <5>1. Vuelve(tras[n][i], f[n][i]) /\ \E j \in 1..n : f[n][i] = l[j]
          BY <2>2, <4>1
        <5>2. 1..n \subseteq 1..m
          BY <2>1
        <5> QED BY <2>2, <3>5, <3>6, <4>1, <5>1, <5>2
      <4>2. CASE i = Len(f[n]) + 1
        <5>1. m \in 1..m
          BY <2>1
        <5> QED BY <2>2, <3>2, <3>5, <3>6, <4>2, <5>1
      <4> QED BY <2>4, <3>6, <4>1, <4>2
    <3>8. Bien(m)
      BY <2>1, <2>2, <2>4, <3>5, <3>6, <3>7
    <3> QED BY <2>1, <3>8
  <2> QED BY <2>6, <2>7
<1>9. Bien(N)
  <2>1. \A n \in 0..N : (n \in T /\ n < N) => n + 1 \in T
    BY <1>8
  <2>2. N \in T
    <3> HIDE DEF T
    <3>1. 0..N \subseteq T
      BY <1>1, <1>7, <2>1, Induccion
    <3> QED BY <1>1, <3>1
  <2> QED BY <2>2
<1>10. DOMAIN tras[N] = 1..Len(f[N])
  BY <1>1, <1>5, <1>9, LenProperties DEF Lista
<1> QED BY <1>5, <1>6, <1>9, <1>10 DEF lineas, ss

\* What is saved comes back in its order, with its id and its seats all free.
THEOREM RecargaSiempreFiel == Spec => []RecargaFiel
<1>1. VuelosInv => RecargaFiel
  <2> SUFFICES ASSUME VuelosInv,
                      \A i, j \in DOMAIN lista : i # j => lista[i].clave # lista[j].clave
               PROVE  LET completos == FlattenSeq([i \in DOMAIN lista |->
                                         IF Len(Llenos(lista[i].campos)) >= 1
                                           THEN <<lista[i]>> ELSE <<>>])
                          vuelta == vuelo_cargar_csv(<<>>, vuelo_guardar_csv(lista))
                      IN  /\ Len(vuelta) = Len(completos)
                          /\ \A i \in DOMAIN vuelta :
                               /\ vuelta[i].clave = completos[i].clave
                               /\ vuelta[i].capacidad =
                                    IF Len(Llenos(completos[i].campos)) = 2
                                      THEN completos[i].capacidad ELSE 0
                               /\ vuelta[i].asientos_disponibles = vuelta[i].capacidad
    BY DEF RecargaFiel
  <2>1. lista \in Lista
    BY DEF VuelosInv
  <2> QED BY <2>1, VueltaDeLista DEF Queda, Vuelve
<1> QED BY <1>1, VuelosInicial, VuelosPaso, PTL DEF Spec
=============================================================================
