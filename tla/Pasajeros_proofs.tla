------------------------- MODULE Pasajeros_proofs -------------------------
(***************************************************************************)
(* The list of passengers, for any keys, limits and texts.                 *)
(***************************************************************************)
EXTENDS Pasajeros, ListaCSV_proofs, FiniteSetTheorems

----------------------------------------------------------------------------
(* The invariant *)

Campo == Textos \cup Telefonos

\* The flights of a passenger: only an id that was cut is twice among them.
SinRepetir(s) ==
  \A j, k \in DOMAIN s : (j # k /\ s[j] = s[k]) =>
    \E largo \in Largas : Recorte[largo] = s[j]

Vuelos == {s \in Seq(Claves) : Len(s) <= MAX_VUELOS_P /\ SinRepetir(s)}

Pasajero == [clave : Guardadas, campos : [1..3 -> Campo], vuelos : Vuelos]

Lista == {l \in Seq(Pasajero) : Len(l) <= MAX_PASAJEROS /\ ClavesDistintas(l)}

Linea == [clave : Guardadas, campos : [1..3 -> Campo]]

PasajerosInv == lista \in Lista /\ archivo \in Seq(Linea)

----------------------------------------------------------------------------
(* The operations on the list *)

LEMMA TipoLista ==
  ASSUME NEW l \in Lista
  PROVE  /\ l \in Seq(Pasajero) /\ Len(l) \in Nat /\ DOMAIN l = 1..Len(l)
         /\ Len(l) <= MAX_PASAJEROS /\ MAX_PASAJEROS \in Nat /\ ClavesDistintas(l)
         /\ \A i \in DOMAIN l : l[i] \in Pasajero
BY LenProperties, ElementOfSeq, PasajerosAssumption DEF Lista

LEMMA ListaVacia == <<>> \in Lista
<1>1. <<>> \in Seq(Pasajero) /\ Len(<<>>) = 0 /\ DOMAIN <<>> = {}
  OBVIOUS
<1> QED BY <1>1, PasajerosAssumption DEF Lista, ClavesDistintas

LEMMA SinVuelos == <<>> \in Vuelos
<1>1. <<>> \in Seq(Claves) /\ Len(<<>>) = 0 /\ DOMAIN <<>> = {}
  OBVIOUS
<1> QED BY <1>1, PasajerosAssumption DEF Vuelos, SinRepetir

\* pasajero_crear gives the list as it was or with one passenger more.
LEMMA CrearEnLista ==
  ASSUME NEW l \in Lista, NEW dni \in Claves, NEW campos \in [1..3 -> Campo]
  PROVE  /\ pasajero_crear(l, dni, campos) \in Lista
         /\ \/ pasajero_crear(l, dni, campos) = l
            \/ \E p \in Pasajero : pasajero_crear(l, dni, campos) = Append(l, p)
         /\ (Len(l) < MAX_PASAJEROS /\ buscar(l, dni) = 0) =>
              pasajero_crear(l, dni, campos) =
                Append(l, [clave |-> Recorte[dni], campos |-> campos, vuelos |-> <<>>])
<1> DEFINE p == [clave |-> Recorte[dni], campos |-> campos, vuelos |-> <<>>]
           m == crear(l, MAX_PASAJEROS, dni, p)
<1>1. p \in Pasajero /\ p.clave = Recorte[dni]
  BY SinVuelos, TipoGuardadas DEF Pasajero
<1>2. /\ l \in Seq(Pasajero) /\ Len(l) <= MAX_PASAJEROS /\ MAX_PASAJEROS \in Nat
      /\ ClavesDistintas(l)
  BY TipoLista
<1>3. pasajero_crear(l, dni, campos) = m
  BY DEF pasajero_crear
<1> HIDE DEF p
<1>4. /\ m \in Seq(Pasajero) /\ Len(m) <= MAX_PASAJEROS
      /\ m = l \/ (buscar(l, dni) = 0 /\ m = Append(l, p))
      /\ (Len(l) < MAX_PASAJEROS /\ buscar(l, dni) = 0) => m = Append(l, p)
  BY <1>1, <1>2, Creado
<1> HIDE DEF m
<1>5. ClavesDistintas(m)
  BY <1>1, <1>2, <1>4, DistintasCrear
<1> QED BY <1>1, <1>3, <1>4, <1>5 DEF Lista, p

LEMMA EliminarEnLista ==
  ASSUME NEW l \in Lista, NEW dni \in Claves
  PROVE  eliminar(l, dni) \in Lista
<1>1. eliminar(l, dni) \in Seq(Pasajero) /\ Len(eliminar(l, dni)) <= Len(l)
  BY TipoLista, Eliminado
<1>2. ClavesDistintas(eliminar(l, dni))
  BY TipoLista, DistintasEliminar
<1>3. Len(eliminar(l, dni)) \in Nat
  BY <1>1, LenProperties
<1> QED BY <1>1, <1>2, <1>3, TipoLista DEF Lista

LEMMA CambiarEnLista ==
  ASSUME NEW l \in Lista, NEW i \in DOMAIN l, NEW p \in Pasajero, p.clave = l[i].clave
  PROVE  [l EXCEPT ![i] = p] \in Lista
<1>1. i \in 1..Len(l)
  BY TipoLista
<1>2. [l EXCEPT ![i] = p] \in Seq(Pasajero) /\ Len([l EXCEPT ![i] = p]) = Len(l)
  BY <1>1, TipoLista, ExceptSeq
<1>3. ClavesDistintas([l EXCEPT ![i] = p])
  BY TipoLista, DistintasCambiar
<1> QED BY <1>2, <1>3, TipoLista DEF Lista

\* What an update leaves of the passenger it finds.
LEMMA ActualizarEnLista ==
  ASSUME NEW l \in Lista, NEW dni \in Claves, NEW email \in Textos, NEW telefono \in Telefonos
  PROVE  \/ pasajero_actualizar(l, dni, email, telefono) = l
         \/ \E i \in DOMAIN l, p \in Pasajero :
              /\ pasajero_actualizar(l, dni, email, telefono) = [l EXCEPT ![i] = p]
              /\ p.clave = l[i].clave /\ p.vuelos = l[i].vuelos
<1> DEFINE i == buscar(l, dni)
           e == IF email.lleno THEN email ELSE l[i].campos[2]
           t == IF telefono.lleno THEN telefono ELSE l[i].campos[3]
           p == [l[i] EXCEPT !.campos[2] = e, !.campos[3] = t]
<1>1. CASE i = 0
  BY <1>1 DEF pasajero_actualizar
<1>2. CASE i # 0
  <2>1. i \in DOMAIN l /\ l[i] \in Pasajero
    BY <1>2, TipoLista, Buscado
  <2>2. e \in Campo /\ t \in Campo
    BY <2>1 DEF Pasajero, Campo
  <2>3. pasajero_actualizar(l, dni, email, telefono) = [l EXCEPT ![i] = p]
    BY <1>2, <2>1 DEF pasajero_actualizar, Pasajero
  <2> HIDE DEF e, t, i
  <2>4. p \in Pasajero /\ p.clave = l[i].clave /\ p.vuelos = l[i].vuelos
    BY <2>1, <2>2 DEF Pasajero
  <2> HIDE DEF p
  <2> QED BY <2>1, <2>3, <2>4
<1> QED BY <1>1, <1>2

\* An assignment puts one flight, the one that was not there, after the others.
LEMMA AsignarEnLista ==
  ASSUME NEW l \in Lista, NEW dni \in Claves, NEW id \in Claves
  PROVE  \/ pasajero_asignar_vuelo(l, dni, id) = l
         \/ \E i \in DOMAIN l, p \in Pasajero :
              /\ pasajero_asignar_vuelo(l, dni, id) = [l EXCEPT ![i] = p]
              /\ p.clave = l[i].clave /\ p.vuelos = Append(l[i].vuelos, Recorte[id])
<1> DEFINE i == buscar(l, dni)
           s == l[i].vuelos
           p == [l[i] EXCEPT !.vuelos = Append(s, Recorte[id])]
<1>1. CASE i = 0 \/ Len(s) >= MAX_VUELOS_P \/ Contains(s, id)
  BY <1>1 DEF pasajero_asignar_vuelo
<1>2. CASE ~(i = 0 \/ Len(s) >= MAX_VUELOS_P \/ Contains(s, id))
  <2>1. i \in DOMAIN l /\ l[i] \in Pasajero
    BY <1>2, TipoLista, Buscado
  <2>2. pasajero_asignar_vuelo(l, dni, id) = [l EXCEPT ![i] = p]
    BY <1>2, <2>1 DEF pasajero_asignar_vuelo, Pasajero
  <2> HIDE DEF i
  <2>3. s \in Seq(Claves) /\ SinRepetir(s) /\ Recorte[id] \in Claves
    BY <2>1, TipoGuardadas DEF Pasajero, Vuelos
  <2>4. Len(s) \in Nat /\ DOMAIN s = 1..Len(s) /\ ~(Len(s) >= MAX_VUELOS_P) /\ ~Contains(s, id)
    BY <1>2, <2>3, LenProperties
  <2> DEFINE t == Append(s, Recorte[id])
  <2> HIDE DEF s
  <2>5. /\ t \in Seq(Claves) /\ Len(t) = Len(s) + 1
        /\ \A j \in 1..Len(s) : t[j] = s[j]
        /\ t[Len(s) + 1] = Recorte[id]
    BY <2>3, AppendProperties
  <2>6. DOMAIN t = 1..Len(s) + 1
    BY <2>5, LenProperties
  <2>7. \A j \in 1..Len(s) : s[j] # id
    BY <2>4 DEF Contains
  <2> HIDE DEF t
  <2>8. SinRepetir(t)
    <3> SUFFICES ASSUME NEW j \in DOMAIN t, NEW k \in DOMAIN t, j # k, t[j] = t[k]
                 PROVE  \E largo \in Largas : Recorte[largo] = t[j]
      BY DEF SinRepetir
    <3>1. CASE j \in 1..Len(s) /\ k \in 1..Len(s)
      BY <2>3, <2>4, <2>5, <3>1 DEF SinRepetir
    <3>2. CASE j = Len(s) + 1 \/ k = Len(s) + 1
      <4>1. t[j] = Recorte[id] /\ Recorte[id] # id
        BY <2>4, <2>5, <2>6, <2>7, <3>2
      <4> QED BY <4>1 DEF Largas
    <3> QED BY <2>4, <2>6, <3>1, <3>2
  <2>9. t \in Vuelos
    BY <2>4, <2>5, <2>8, PasajerosAssumption DEF Vuelos
  <2>10. p \in Pasajero /\ p.clave = l[i].clave /\ p.vuelos = t
    BY <2>1, <2>9 DEF Pasajero, t
  <2> HIDE DEF p
  <2> QED BY <2>1, <2>2, <2>10 DEF t, s
<1> QED BY <1>1, <1>2

\* A removal takes one flight, the j-th, and leaves the others in their order.
LEMMA QuitarEnLista ==
  ASSUME NEW l \in Lista, NEW dni \in Claves, NEW id \in Claves
  PROVE  \/ pasajero_quitar_vuelo(l, dni, id) = l
         \/ \E i \in DOMAIN l, p \in Pasajero : \E j \in DOMAIN l[i].vuelos :
              /\ pasajero_quitar_vuelo(l, dni, id) = [l EXCEPT ![i] = p]
              /\ p.clave = l[i].clave /\ p.vuelos = RemoveAt(l[i].vuelos, j)
<1> DEFINE i == buscar(l, dni)
           s == l[i].vuelos
           j == SelectInSeq(s, LAMBDA v : v = id)
           p == [l[i] EXCEPT !.vuelos = RemoveAt(s, j)]
<1>1. CASE i = 0 \/ j = 0
  BY <1>1 DEF pasajero_quitar_vuelo
<1>2. CASE i # 0 /\ j # 0
  <2>1. i \in DOMAIN l /\ l[i] \in Pasajero
    BY <1>2, TipoLista, Buscado
  <2>2. pasajero_quitar_vuelo(l, dni, id) = [l EXCEPT ![i] = p]
    BY <1>2, <2>1 DEF pasajero_quitar_vuelo, Pasajero
  <2> HIDE DEF i
  <2>3. s \in Seq(Claves) /\ Len(s) <= MAX_VUELOS_P /\ SinRepetir(s)
    BY <2>1 DEF Pasajero, Vuelos
  <2> HIDE DEF s
  <2>4. Len(s) \in Nat /\ DOMAIN s = 1..Len(s)
    BY <2>3, LenProperties
  <2>5. j \in DOMAIN s
    <3> DEFINE I == {k \in 1..Len(s) : s[k] = id}
    <3>1. I \subseteq Nat /\ j = IF I # {} THEN Min(I) ELSE 0
      BY <2>4 DEF SelectInSeq
    <3>2. I # {}
      BY <1>2, <3>1
    <3> HIDE DEF j
    <3>3. Min(I) \in I
      <4> HIDE DEF I
      <4> QED BY <3>1, <3>2, Minimo DEF Min
    <3> QED BY <2>4, <3>1, <3>2, <3>3
  <2> DEFINE t == RemoveAt(s, j)
             antes(k) == IF k < j THEN k ELSE k + 1
  <2> HIDE DEF j
  <2>6. t \in Seq(Claves) /\ Len(t) = Len(s) - 1 /\ DOMAIN t = 1..Len(s) - 1
        /\ \A k \in DOMAIN t : t[k] = IF k < j THEN s[k] ELSE s[k + 1]
    BY <2>3, <2>5, Quitado
  <2> HIDE DEF t
  <2>7. \A k \in DOMAIN t : antes(k) \in DOMAIN s /\ t[k] = s[antes(k)]
    BY <2>4, <2>5, <2>6
  <2>8. \A k, h \in DOMAIN t : k # h => antes(k) # antes(h)
    BY <2>4, <2>5, <2>6
  <2> HIDE DEF antes
  <2>9. SinRepetir(t)
    BY <2>3, <2>7, <2>8 DEF SinRepetir
  <2>10. t \in Vuelos
    BY <2>3, <2>4, <2>6, <2>9, PasajerosAssumption DEF Vuelos
  <2>11. p \in Pasajero /\ p.clave = l[i].clave /\ p.vuelos = t
    BY <2>1, <2>10 DEF Pasajero, t
  <2> HIDE DEF p
  <2> QED BY <2>1, <2>2, <2>5, <2>11 DEF t, s
<1> QED BY <1>1, <1>2

----------------------------------------------------------------------------
(* The flights of the passengers *)

LEMMA EsAsignado ==
  ASSUME NEW l, NEW x
  PROVE  x \in Asignados(l) <=>
           \E i \in DOMAIN l : \E j \in DOMAIN l[i].vuelos : x = <<l[i].clave, l[i].vuelos[j]>>
BY DEF Asignados, Range

\* With all the flights of i still there, whoever it is now, nobody loses any.
LEMMA AsignadosDelCambio ==
  ASSUME NEW l \in Lista, NEW i \in DOMAIN l, NEW p \in Pasajero, p.clave = l[i].clave,
         \A j \in DOMAIN l[i].vuelos : \E k \in DOMAIN p.vuelos : p.vuelos[k] = l[i].vuelos[j]
  PROVE  Asignados(l) \subseteq Asignados([l EXCEPT ![i] = p])
<1> DEFINE m == [l EXCEPT ![i] = p]
<1>1. DOMAIN m = DOMAIN l /\ m[i] = p /\ \A h \in DOMAIN l : h # i => m[h] = l[h]
  OBVIOUS
<1> HIDE DEF m
<1>2. ASSUME NEW h \in DOMAIN l, NEW j \in DOMAIN l[h].vuelos
      PROVE  <<l[h].clave, l[h].vuelos[j]>> \in Asignados(m)
  <2>1. CASE h # i
    BY <1>1, <2>1, EsAsignado
  <2>2. CASE h = i
    <3>1. PICK k \in DOMAIN p.vuelos : p.vuelos[k] = l[i].vuelos[j]
      BY <2>2
    <3> QED BY <1>1, <2>2, <3>1, EsAsignado
  <2> QED BY <2>1, <2>2
<1>3. Asignados(l) \subseteq Asignados(m)
  BY <1>2, EsAsignado
<1> QED BY <1>3 DEF m

LEMMA AsignadosDelNuevo ==
  ASSUME NEW l \in Lista, NEW p \in Pasajero
  PROVE  Asignados(l) \subseteq Asignados(Append(l, p))
<1> DEFINE m == Append(l, p)
<1>1. /\ DOMAIN l = 1..Len(l) /\ Len(l) \in Nat /\ l \in Seq(Pasajero)
  BY TipoLista
<1>2. /\ m \in Seq(Pasajero) /\ Len(m) = Len(l) + 1
      /\ \A i \in 1..Len(l) : m[i] = l[i]
  BY <1>1, AppendProperties
<1>3. DOMAIN m = 1..Len(l) + 1
  BY <1>2, LenProperties
<1> HIDE DEF m
<1>4. \A i \in DOMAIN l : i \in DOMAIN m /\ m[i] = l[i]
  BY <1>1, <1>2, <1>3
<1>5. Asignados(l) \subseteq Asignados(m)
  BY <1>4, EsAsignado
<1> QED BY <1>5 DEF m

LEMMA CrearConserva ==
  ASSUME NEW l \in Lista, NEW dni \in Claves, NEW campos \in [1..3 -> Campo]
  PROVE  Asignados(l) \subseteq Asignados(pasajero_crear(l, dni, campos))
BY CrearEnLista, AsignadosDelNuevo

LEMMA ActualizarConserva ==
  ASSUME NEW l \in Lista, NEW dni \in Claves, NEW email \in Textos, NEW telefono \in Telefonos
  PROVE  /\ pasajero_actualizar(l, dni, email, telefono) \in Lista
         /\ Asignados(l) \subseteq Asignados(pasajero_actualizar(l, dni, email, telefono))
<1>1. ASSUME NEW i \in DOMAIN l, NEW p \in Pasajero, p.clave = l[i].clave, p.vuelos = l[i].vuelos
      PROVE  /\ [l EXCEPT ![i] = p] \in Lista
             /\ Asignados(l) \subseteq Asignados([l EXCEPT ![i] = p])
  BY <1>1, CambiarEnLista, AsignadosDelCambio
<1> QED BY <1>1, ActualizarEnLista

LEMMA AsignarConserva ==
  ASSUME NEW l \in Lista, NEW dni \in Claves, NEW id \in Claves
  PROVE  /\ pasajero_asignar_vuelo(l, dni, id) \in Lista
         /\ Asignados(l) \subseteq Asignados(pasajero_asignar_vuelo(l, dni, id))
<1>1. ASSUME NEW i \in DOMAIN l, NEW p \in Pasajero, p.clave = l[i].clave,
             p.vuelos = Append(l[i].vuelos, Recorte[id])
      PROVE  /\ [l EXCEPT ![i] = p] \in Lista
             /\ Asignados(l) \subseteq Asignados([l EXCEPT ![i] = p])
  <2> DEFINE s == l[i].vuelos
             t == p.vuelos
  <2>1. s \in Seq(Claves) /\ Recorte[id] \in Claves
    BY TipoLista, TipoGuardadas DEF Pasajero, Vuelos
  <2>2. /\ t \in Seq(Claves) /\ Len(t) = Len(s) + 1
        /\ \A j \in 1..Len(s) : t[j] = s[j]
    BY <1>1, <2>1, AppendProperties
  <2>3. /\ Len(s) \in Nat /\ DOMAIN s = 1..Len(s) /\ DOMAIN t = 1..Len(t)
    BY <2>1, <2>2, LenProperties
  <2>4. \A j \in DOMAIN s : j \in DOMAIN t /\ t[j] = s[j]
    BY <2>2, <2>3
  <2> QED BY <1>1, <2>4, CambiarEnLista, AsignadosDelCambio
<1> QED BY <1>1, AsignarEnLista

\* Of the flights of all, a removal takes one pair of DNI and id at most.
LEMMA QuitarUno ==
  ASSUME NEW l \in Lista, NEW dni \in Claves, NEW id \in Claves
  PROVE  /\ pasajero_quitar_vuelo(l, dni, id) \in Lista
         /\ \E x : Asignados(l) \ Asignados(pasajero_quitar_vuelo(l, dni, id)) \subseteq {x}
<1>1. ASSUME NEW i \in DOMAIN l, NEW p \in Pasajero, NEW j \in DOMAIN l[i].vuelos,
             p.clave = l[i].clave, p.vuelos = RemoveAt(l[i].vuelos, j)
      PROVE  /\ [l EXCEPT ![i] = p] \in Lista
             /\ Asignados(l) \ Asignados([l EXCEPT ![i] = p])
                  \subseteq {<<l[i].clave, l[i].vuelos[j]>>}
  <2> DEFINE m == [l EXCEPT ![i] = p]
             s == l[i].vuelos
             t == p.vuelos
  <2>1. m \in Lista
    BY <1>1, CambiarEnLista
  <2>2. DOMAIN m = DOMAIN l /\ m[i] = p /\ \A h \in DOMAIN l : h # i => m[h] = l[h]
    OBVIOUS
  <2> HIDE DEF m
  <2>3. s \in Seq(Claves)
    BY TipoLista DEF Pasajero, Vuelos
  <2>4. Len(s) \in Nat /\ DOMAIN s = 1..Len(s)
    BY <2>3, LenProperties
  <2>5. DOMAIN t = 1..Len(s) - 1 /\ \A k \in DOMAIN t : t[k] = IF k < j THEN s[k] ELSE s[k + 1]
    BY <1>1, <2>3, Quitado
  <2>6. \A k \in DOMAIN s : k # j => \E h \in DOMAIN t : t[h] = s[k]
    <3> SUFFICES ASSUME NEW k \in DOMAIN s, k # j PROVE \E h \in DOMAIN t : t[h] = s[k]
      OBVIOUS
    <3> HIDE DEF s, t
    <3>1. CASE k < j
      <4>1. k \in DOMAIN t /\ t[k] = s[k]
        BY <2>4, <2>5, <3>1 DEF s
      <4> QED BY <4>1
    <3>2. CASE ~(k < j)
      <4>1. k - 1 \in DOMAIN t /\ ~(k - 1 < j) /\ k - 1 + 1 = k
        BY <2>4, <2>5, <3>2 DEF s
      <4>2. t[k - 1] = s[k]
        BY <2>5, <4>1
      <4> QED BY <4>1, <4>2
    <3> QED BY <3>1, <3>2
  <2>7. ASSUME NEW h \in DOMAIN l, NEW k \in DOMAIN l[h].vuelos,
               <<l[h].clave, l[h].vuelos[k]>> \notin Asignados(m)
        PROVE  <<l[h].clave, l[h].vuelos[k]>> = <<l[i].clave, l[i].vuelos[j]>>
    <3>1. h = i
      BY <2>2, <2>7, EsAsignado
    <3>2. \A g \in DOMAIN t : t[g] # s[k]
      BY <1>1, <2>2, <2>7, <3>1, EsAsignado
    <3>3. k = j
      BY <2>6, <3>1, <3>2
    <3> QED BY <3>1, <3>3
  <2>8. Asignados(l) \ Asignados(m) \subseteq {<<l[i].clave, l[i].vuelos[j]>>}
    BY <2>7, EsAsignado
  <2> QED BY <2>1, <2>8 DEF m
<1>2. ASSUME pasajero_quitar_vuelo(l, dni, id) = l
      PROVE  Asignados(l) \ Asignados(pasajero_quitar_vuelo(l, dni, id)) \subseteq {dni}
  BY <1>2
<1> QED BY <1>1, <1>2, QuitarEnLista

----------------------------------------------------------------------------
(* Saving and loading *)

Renglon(p) == [clave |-> p.clave, campos |-> p.campos]

LEMMA GuardarLineas ==
  ASSUME NEW l \in Lista
  PROVE  /\ pasajero_guardar_csv(l) \in Seq(Linea)
         /\ Len(pasajero_guardar_csv(l)) = Len(l)
         /\ \A i \in 1..Len(l) : l[i] \in Pasajero /\ pasajero_guardar_csv(l)[i] = Renglon(l[i])
<1>1. DOMAIN l = 1..Len(l) /\ Len(l) \in Nat /\ \A i \in 1..Len(l) : l[i] \in Pasajero
  BY TipoLista
<1>2. pasajero_guardar_csv(l) = [i \in 1..Len(l) |-> Renglon(l[i])]
  BY <1>1 DEF pasajero_guardar_csv, Renglon
<1>3. \A i \in 1..Len(l) : Renglon(l[i]) \in Linea
  BY <1>1 DEF Renglon, Pasajero, Linea
<1>4. pasajero_guardar_csv(l) \in [1..Len(l) -> Linea]
  BY <1>2, <1>3
<1>5. pasajero_guardar_csv(l) \in Seq(Linea) /\ Len(pasajero_guardar_csv(l)) = Len(l)
  BY <1>1, <1>4, EsSecuencia
<1> QED BY <1>1, <1>2, <1>5

\* The three texts that Leer makes of those of a line that are not empty.
Textos3(c) == IF Len(Llenos(c)) = 2 THEN Append(Llenos(c), VACIO) ELSE Llenos(c)

LEMMA TextosReleidos ==
  ASSUME NEW c \in [1..3 -> Campo], ~(Len(Llenos(c)) < 2)
  PROVE  /\ Textos3(c) \in [1..3 -> Campo]
         /\ (c[1].lleno /\ c[2].lleno) => Textos3(c) = c
         /\ ~(c[1].lleno /\ c[2].lleno) => Textos3(c)[2] = c[3]
<1> DEFINE n == Len(Llenos(c))
<1>1. /\ c[1] \in Campo /\ c[2] \in Campo /\ c[3] \in Campo
      /\ \A x \in Campo : x.lleno \in BOOLEAN /\ (~x.lleno => x = VACIO)
  BY PasajerosAssumption DEF Campo
<1>2. /\ Llenos(c) \in Seq(Campo)
      /\ n = Len(Trozo(c[1])) + Len(Trozo(c[2])) + Len(Trozo(c[3]))
  BY LlenosDeLinea
<1>3. /\ Len(Trozo(c[1])) = IF c[1].lleno THEN 1 ELSE 0
      /\ Len(Trozo(c[2])) = IF c[2].lleno THEN 1 ELSE 0
      /\ Len(Trozo(c[3])) = IF c[3].lleno THEN 1 ELSE 0
  BY <1>1, TipoTrozo
<1>4. \A x, y, z \in Campo : /\ <<x, y, z>> \in [1..3 -> Campo]
                             /\ Append(<<x, y>>, z) = <<x, y, z>>
                             /\ <<x, y, z>>[2] = y
  <2> SUFFICES ASSUME NEW x \in Campo, NEW y \in Campo, NEW z \in Campo
               PROVE  /\ <<x, y, z>> \in [1..3 -> Campo] /\ <<x, y, z>>[2] = y
                      /\ Append(<<x, y>>, z) = <<x, y, z>>
    OBVIOUS
  <2>1. <<x, y, z>> \in [1..3 -> Campo] /\ <<x, y, z>>[2] = y
    OBVIOUS
  <2>2. Append(<<x, y>>, z) = <<x, y, z>>
    <3> DEFINE d == <<x, y>>
               e == Append(d, z)
               t == <<x, y, z>>
    <3>1. d \in Seq(Campo) /\ t \in Seq(Campo)
      OBVIOUS
    <3>2. Len(d) = 2 /\ d[1] = x /\ d[2] = y
      OBVIOUS
    <3>3. Len(t) = 3 /\ t[1] = x /\ t[2] = y /\ t[3] = z
      OBVIOUS
    <3> HIDE DEF d, t
    <3>4. /\ e \in Seq(Campo) /\ Len(e) = Len(d) + 1
          /\ \A i \in 1..Len(d) : e[i] = d[i]
          /\ e[Len(d) + 1] = z
      BY <3>1, AppendProperties
    <3> HIDE DEF e
    <3>5. Len(e) = 3 /\ e[1] = x /\ e[2] = y /\ e[3] = z
      BY <3>2, <3>4
    <3>6. \A i \in 1..3 : e[i] = t[i]
      BY <3>3, <3>5
    <3>7. e = t
      BY <3>1, <3>3, <3>4, <3>5, <3>6, SeqEqual
    <3> QED BY <3>7 DEF d, e, t
  <2> QED BY <2>1, <2>2
<1>11. <<c[1], c[2], c[3]>> = c
  <2> DEFINE t == <<c[1], c[2], c[3]>>
  <2>1. t \in Seq(Campo) /\ Len(t) = 3 /\ t[1] = c[1] /\ t[2] = c[2] /\ t[3] = c[3]
    BY <1>1
  <2> HIDE DEF t
  <2>2. \A i \in 1..3 : t[i] = c[i]
    BY <2>1
  <2>3. c \in Seq(Campo) /\ Len(c) = 3
    BY EsSecuencia
  <2>4. t = c
    BY <2>1, <2>2, <2>3, SeqEqual
  <2> QED BY <2>4 DEF t
<1>5. CASE c[1].lleno /\ c[2].lleno /\ c[3].lleno
  <2>1. Llenos(c) = <<c[1], c[2]>> \o <<c[3]>> /\ n = 3
    BY <1>2, <1>3, <1>5, LlenosDeLinea DEF Trozo
  <2>2. <<c[1], c[2]>> \o <<c[3]>> = Append(<<c[1], c[2]>>, c[3])
    <3>1. <<c[1], c[2]>> \in Seq(Campo)
      BY <1>1
    <3> QED BY <1>1, <3>1, AppendIsConcat
  <2>3. Llenos(c) = c
    BY <1>1, <1>4, <1>11, <2>1, <2>2
  <2>4. Textos3(c) = c
    BY <2>1, <2>3 DEF Textos3
  <2> QED BY <1>5, <2>4
<1>6. CASE c[1].lleno /\ c[2].lleno /\ ~c[3].lleno
  <2>0. n = 2
    BY <1>2, <1>3, <1>6
  <2>1. Llenos(c) = <<c[1], c[2]>> \o <<>>
    BY <1>6, LlenosDeLinea DEF Trozo
  <2>2. Llenos(c) = <<c[1], c[2]>>
    <3>1. <<c[1], c[2]>> \in Seq(Campo)
      BY <1>1
    <3> QED BY <2>1, <3>1, ConcatEmptySeq
  <2>3. c[3] = VACIO
    BY <1>1, <1>6
  <2>4. Textos3(c) = Append(<<c[1], c[2]>>, c[3])
    BY <2>0, <2>2, <2>3 DEF Textos3
  <2>5. Textos3(c) = c
    BY <1>1, <1>4, <1>11, <2>4
  <2> QED BY <1>6, <2>5
<1>7. ASSUME NEW x \in Campo, Llenos(c) = <<x, c[3]>>, n = 2, ~(c[1].lleno /\ c[2].lleno),
             VACIO \in Campo
      PROVE  /\ Textos3(c) \in [1..3 -> Campo]
             /\ Textos3(c)[2] = c[3]
  <2>1. Textos3(c) = Append(<<x, c[3]>>, VACIO)
    BY <1>7 DEF Textos3
  <2>2. /\ <<x, c[3], VACIO>> \in [1..3 -> Campo] /\ <<x, c[3], VACIO>>[2] = c[3]
        /\ Append(<<x, c[3]>>, VACIO) = <<x, c[3], VACIO>>
    <3> DEFINE z == VACIO
               y == c[3]
    <3>1. x \in Campo /\ y \in Campo /\ z \in Campo
      BY <1>1, <1>7
    <3> HIDE DEF y, z
    <3>2. /\ <<x, y, z>> \in [1..3 -> Campo] /\ <<x, y, z>>[2] = y
          /\ Append(<<x, y>>, z) = <<x, y, z>>
      BY <1>4, <3>1
    <3> QED BY <3>2 DEF y, z
  <2> QED BY <2>1, <2>2
<1>8. CASE c[1].lleno /\ ~c[2].lleno /\ c[3].lleno
  <2>1. n = 2 /\ VACIO \in Campo
    BY <1>1, <1>2, <1>3, <1>8
  <2>2. Llenos(c) = <<c[1], c[3]>>
    BY <1>8, LlenosDeLinea
  <2> QED BY <1>1, <1>7, <1>8, <2>1, <2>2
<1>9. CASE ~c[1].lleno /\ c[2].lleno /\ c[3].lleno
  <2>1. n = 2 /\ VACIO \in Campo
    BY <1>1, <1>2, <1>3, <1>9
  <2>2. Llenos(c) = <<c[2], c[3]>>
    BY <1>9, LlenosDeLinea
  <2> QED BY <1>1, <1>7, <1>9, <2>1, <2>2
<1>10. (IF c[1].lleno THEN 1 ELSE 0) + (IF c[2].lleno THEN 1 ELSE 0)
         + (IF c[3].lleno THEN 1 ELSE 0) >= 2
  BY <1>2, <1>3
<1> QED BY <1>5, <1>6, <1>8, <1>9, <1>10

\* A line either gives nothing or is one pasajero_crear.
LEMMA LeerCrea ==
  ASSUME NEW l, NEW linea \in Linea
  PROVE  /\ linea.clave \in Claves /\ linea.campos \in [1..3 -> Campo]
         /\ Leer(l, linea) = IF Len(Llenos(linea.campos)) < 2 THEN l
                             ELSE pasajero_crear(l, linea.clave, Textos3(linea.campos))
BY TipoGuardadas DEF Linea, Leer, Textos3

LEMMA LeerEnLista ==
  ASSUME NEW l \in Lista, NEW linea \in Linea
  PROVE  Leer(l, linea) \in Lista /\ Asignados(l) \subseteq Asignados(Leer(l, linea))
<1> DEFINE c == linea.campos
<1>1. /\ linea.clave \in Claves /\ c \in [1..3 -> Campo]
      /\ Leer(l, linea) = IF Len(Llenos(c)) < 2 THEN l
                          ELSE pasajero_crear(l, linea.clave, Textos3(c))
  BY LeerCrea
<1> HIDE DEF c
<1>2. CASE Len(Llenos(c)) < 2
  BY <1>1, <1>2
<1>3. CASE ~(Len(Llenos(c)) < 2)
  <2>1. Textos3(c) \in [1..3 -> Campo]
    BY <1>1, <1>3, TextosReleidos
  <2> QED BY <1>1, <1>3, <2>1, CrearEnLista, CrearConserva
<1> QED BY <1>2, <1>3

\* A load, one line at a time.
LEMMA Cargado ==
  ASSUME NEW l \in Lista, NEW lineas \in Seq(Linea)
  PROVE  \E tras \in [0..Len(lineas) -> Lista] :
           /\ tras[0] = l
           /\ \A n \in 1..Len(lineas) : tras[n] = Leer(tras[n - 1], lineas[n])
           /\ pasajero_cargar_csv(l, lineas) = tras[Len(lineas)]
<1> DEFINE N == Len(lineas)
           T == {n \in 0..N : \E f \in [0..n -> Lista] :
                                f[0] = l /\ \A i \in 1..n : f[i] = Leer(f[i - 1], lineas[i])}
<1>1. N \in Nat /\ \A i \in 1..N : lineas[i] \in Linea
  BY LenProperties, ElementOfSeq
<1>2. 0 \in T
  <2> DEFINE g == [i \in 0..0 |-> l]
  <2>1. g \in [0..0 -> Lista]
    OBVIOUS
  <2>2. g[0] = l /\ \A i \in 1..0 : g[i] = Leer(g[i - 1], lineas[i])
    OBVIOUS
  <2>3. 0 \in 0..N
    BY <1>1
  <2> HIDE DEF g, N
  <2>4. \E f \in [0..0 -> Lista] : f[0] = l /\ \A i \in 1..0 : f[i] = Leer(f[i - 1], lineas[i])
    BY <2>1, <2>2
  <2> QED BY <2>3, <2>4
<1>3. ASSUME NEW n \in 0..N, n \in T, n < N PROVE n + 1 \in T
  <2>0. n \in Nat /\ n + 1 \in 0..N /\ n + 1 \in 1..N
    BY <1>1, <1>3
  <2>1. PICK f \in [0..n -> Lista] :
          f[0] = l /\ \A i \in 1..n : f[i] = Leer(f[i - 1], lineas[i])
    BY <1>3
  <2> DEFINE g == [i \in 0..n + 1 |-> IF i <= n THEN f[i] ELSE Leer(f[n], lineas[n + 1])]
  <2>2. Leer(f[n], lineas[n + 1]) \in Lista
    <3>1. f[n] \in Lista /\ lineas[n + 1] \in Linea
      BY <1>1, <2>0, <2>1
    <3> QED BY <3>1, LeerEnLista
  <2>3. g \in [0..n + 1 -> Lista]
    BY <2>0, <2>1, <2>2
  <2>4. g[0] = l
    BY <2>0, <2>1
  <2>5. ASSUME NEW i \in 1..n + 1 PROVE g[i] = Leer(g[i - 1], lineas[i])
    <3>1. i - 1 \in 0..n /\ i \in 0..n + 1 /\ (~(i <= n) => i = n + 1 /\ i - 1 = n)
      BY <2>0
    <3>2. g[i - 1] = f[i - 1] /\ g[i] = IF i <= n THEN f[i] ELSE Leer(f[n], lineas[n + 1])
      BY <2>0, <3>1
    <3>3. CASE i <= n
      <4>1. i \in 1..n
        BY <2>0, <3>3
      <4> HIDE DEF g
      <4> QED BY <2>1, <3>2, <3>3, <4>1
    <3>4. CASE ~(i <= n)
      <4> HIDE DEF g
      <4> QED BY <3>1, <3>2, <3>4
    <3> QED BY <3>3, <3>4
  <2> HIDE DEF g
  <2> QED BY <2>0, <2>3, <2>4, <2>5
<1>4. N \in T
  <2>1. \A n \in 0..N : (n \in T /\ n < N) => n + 1 \in T
    BY <1>3
  <2> HIDE DEF T
  <2>2. 0..N \subseteq T
    BY <1>1, <1>2, <2>1, Induccion
  <2> QED BY <1>1, <2>2
<1>5. PICK f \in [0..N -> Lista] :
        f[0] = l /\ \A i \in 1..N : f[i] = Leer(f[i - 1], lineas[i])
  BY <1>4
<1> DEFINE Es(g) == g = [n \in 0..N |-> IF n = 0 THEN l ELSE Leer(g[n - 1], lineas[n])]
<1>6. Es(f)
  BY <1>5
<1>7. ASSUME NEW g, Es(g) PROVE g[N] = f[N]
  <2> DEFINE U == {n \in 0..N : g[n] = f[n]}
  <2>1. 0 \in U
    BY <1>1, <1>5, <1>7
  <2>2. ASSUME NEW n \in 0..N, n \in U, n < N PROVE n + 1 \in U
    <3> DEFINE m == n + 1
    <3>1. m \in 1..N /\ m \in 0..N /\ m - 1 = n /\ m # 0
      BY <1>1, <2>2
    <3> HIDE DEF m
    <3>2. g[m] = Leer(g[m - 1], lineas[m]) /\ f[m] = Leer(f[m - 1], lineas[m])
      BY <1>5, <1>7, <3>1
    <3>3. m \in U
      BY <2>2, <3>1, <3>2
    <3> QED BY <3>3 DEF m
  <2>3. \A n \in 0..N : (n \in U /\ n < N) => n + 1 \in U
    BY <2>2
  <2> HIDE DEF U
  <2>4. 0..N \subseteq U
    BY <1>1, <2>1, <2>3, Induccion
  <2> QED BY <1>1, <2>4 DEF U
<1>8. pasajero_cargar_csv(l, lineas) = (CHOOSE g : Es(g))[N]
  BY DEF pasajero_cargar_csv
<1>9. pasajero_cargar_csv(l, lineas) = f[N]
  <2> HIDE DEF Es
  <2>1. Es(CHOOSE g : Es(g))
    BY <1>6
  <2> QED BY <1>7, <1>8, <2>1
<1> QED BY <1>5, <1>9

\* A load takes no flight from anybody.
LEMMA CargarConserva ==
  ASSUME NEW l \in Lista, NEW lineas \in Seq(Linea)
  PROVE  /\ pasajero_cargar_csv(l, lineas) \in Lista
         /\ Asignados(l) \subseteq Asignados(pasajero_cargar_csv(l, lineas))
<1> DEFINE N == Len(lineas)
<1>1. N \in Nat /\ \A i \in 1..N : lineas[i] \in Linea
  BY LenProperties, ElementOfSeq
<1>2. PICK tras \in [0..N -> Lista] :
        /\ tras[0] = l
        /\ \A n \in 1..N : tras[n] = Leer(tras[n - 1], lineas[n])
        /\ pasajero_cargar_csv(l, lineas) = tras[N]
  BY Cargado
<1> HIDE DEF N
<1> DEFINE T == {n \in 0..N : Asignados(l) \subseteq Asignados(tras[n])}
<1>3. 0 \in T
  BY <1>1, <1>2
<1>4. ASSUME NEW n \in 0..N, n \in T, n < N PROVE n + 1 \in T
  <2> DEFINE m == n + 1
  <2>1. m \in 1..N /\ m \in 0..N /\ m - 1 = n
    BY <1>1, <1>4
  <2> HIDE DEF m
  <2>2. Asignados(tras[n]) \subseteq Asignados(tras[m])
    BY <1>1, <1>2, <2>1, LeerEnLista
  <2>3. m \in T
    BY <1>4, <2>1, <2>2
  <2> QED BY <2>3 DEF m
<1>5. N \in T
  <2>1. \A n \in 0..N : (n \in T /\ n < N) => n + 1 \in T
    BY <1>4
  <2> HIDE DEF T
  <2>2. 0..N \subseteq T
    BY <1>1, <1>3, <2>1, Induccion
  <2> QED BY <1>1, <2>2
<1> QED BY <1>1, <1>2, <1>5

----------------------------------------------------------------------------
(* The invariant is inductive *)

LEMMA PasajerosInicial == Init => PasajerosInv
BY ListaVacia, EmptySeq DEF Init, PasajerosInv

LEMMA PasoDeCrear ==
  ASSUME PasajerosInv, Crear
  PROVE  lista' \in Lista /\ Asignados(lista) \subseteq Asignados(lista')
<1>1. PICK dni \in Claves, nombre \in Textos, email \in Textos, telefono \in Telefonos :
        lista' = pasajero_crear(lista, dni, <<nombre, email, telefono>>)
  BY DEF Crear
<1>2. <<nombre, email, telefono>> \in [1..3 -> Campo]
  BY DEF Campo
<1> QED BY <1>1, <1>2, CrearEnLista, CrearConserva DEF PasajerosInv

LEMMA PasajerosPaso == PasajerosInv /\ [Next]_vars => PasajerosInv'
<1> SUFFICES ASSUME PasajerosInv, [Next]_vars PROVE PasajerosInv'
  OBVIOUS
<1> USE DEF PasajerosInv
<1>1. CASE Crear /\ UNCHANGED archivo
  BY <1>1, PasoDeCrear
<1>2. CASE Eliminar /\ UNCHANGED archivo
  BY <1>2, EliminarEnLista DEF Eliminar
<1>3. CASE Actualizar /\ UNCHANGED archivo
  BY <1>3, ActualizarConserva DEF Actualizar
<1>4. CASE Asignar /\ UNCHANGED archivo
  BY <1>4, AsignarConserva DEF Asignar
<1>5. CASE Quitar /\ UNCHANGED archivo
  BY <1>5, QuitarUno DEF Quitar
<1>6. CASE Cargar /\ UNCHANGED archivo
  BY <1>6, CargarConserva DEF Cargar
<1>7. CASE Reiniciar /\ UNCHANGED archivo
  BY <1>7, ListaVacia DEF Reiniciar
<1>8. CASE Guardar /\ UNCHANGED lista
  BY <1>8, GuardarLineas DEF Guardar
<1>9. CASE UNCHANGED vars
  BY <1>9 DEF vars
<1> QED BY <1>1, <1>2, <1>3, <1>4, <1>5, <1>6, <1>7, <1>8, <1>9 DEF Next

\* Every passenger is a record of its type, and the list and the flights of
\* each fit in their arrays.
THEOREM PasajerosSiempreConTipo == Spec => []TypeOK
<1>1. PasajerosInv => TypeOK
  <2> SUFFICES ASSUME PasajerosInv PROVE TypeOK
    OBVIOUS
  <2>1. ASSUME NEW i \in DOMAIN lista
        PROVE  /\ lista[i].clave \in Claves /\ Recorte[lista[i].clave] = lista[i].clave
               /\ lista[i].campos \in [1..3 -> Campo]
               /\ lista[i].vuelos \in BoundedSeq(Claves, MAX_VUELOS_P)
    <3>1. lista[i] \in Pasajero
      BY TipoLista DEF PasajerosInv
    <3> DEFINE s == lista[i].vuelos
    <3>2. s \in Seq(Claves) /\ Len(s) <= MAX_VUELOS_P
      BY <3>1 DEF Pasajero, Vuelos
    <3>3. Len(s) \in 0..MAX_VUELOS_P /\ s \in [1..Len(s) -> Claves]
      BY <3>2, LenProperties, PasajerosAssumption
    <3>4. s \in BoundedSeq(Claves, MAX_VUELOS_P)
      <4> HIDE DEF s
      <4> QED BY <3>3 DEF BoundedSeq, SeqOf
    <3> QED BY <3>1, <3>4, TipoGuardadas DEF Pasajero
  <2> QED BY <2>1, TipoLista DEF PasajerosInv, TypeOK, Campo
<1> QED BY <1>1, PasajerosInicial, PasajerosPaso, PTL DEF Spec

\* Only a key that was cut is twice: a DNI in the list, an id in the flights of
\* one passenger.
THEOREM RepetidosSiemprePorRecorte == Spec => []RepetidosPorRecorte
<1>1. PasajerosInv => RepetidosPorRecorte
  <2> SUFFICES ASSUME PasajerosInv PROVE RepetidosPorRecorte
    OBVIOUS
  <2>1. \A i \in DOMAIN lista : SinRepetir(lista[i].vuelos)
    BY TipoLista DEF PasajerosInv, Pasajero, Vuelos
  <2> QED BY <2>1, TipoLista DEF PasajerosInv, RepetidosPorRecorte, SinRepetir
<1> QED BY <1>1, PasajerosInicial, PasajerosPaso, PTL DEF Spec

\* Nobody loses a flight but by a removal, and to a removal of a flight one.
THEOREM VuelosSiempreQuedan == Spec => VuelosQuedan
<1>1. ASSUME PasajerosInv, Quitar
      PROVE  Cardinality(Asignados(lista) \ Asignados(lista')) <= 1
  <2>1. PICK x : Asignados(lista) \ Asignados(lista') \subseteq {x}
    BY <1>1, QuitarUno DEF PasajerosInv, Quitar
  <2>2. IsFiniteSet({x}) /\ Cardinality({x}) = 1
    BY FS_Singleton
  <2>3. Cardinality(Asignados(lista) \ Asignados(lista')) <= Cardinality({x})
    BY <2>1, <2>2, FS_Subset
  <2> QED BY <2>2, <2>3
<1>2. ASSUME PasajerosInv, Next
      PROVE  (Asignados(lista) \subseteq Asignados(lista')) \/ Eliminar \/ Quitar \/ Reiniciar
  <2>1. CASE Crear
    BY <1>2, <2>1, PasoDeCrear
  <2>2. CASE Actualizar
    BY <1>2, <2>2, ActualizarConserva DEF Actualizar, PasajerosInv
  <2>3. CASE Asignar
    BY <1>2, <2>3, AsignarConserva DEF Asignar, PasajerosInv
  <2>4. CASE Cargar
    BY <1>2, <2>4, CargarConserva DEF Cargar, PasajerosInv
  <2>5. CASE UNCHANGED lista
    BY <2>5 DEF Asignados
  <2> QED BY <1>2, <2>1, <2>2, <2>3, <2>4, <2>5 DEF Next
<1>3. PasajerosInv /\ [Next]_vars =>
        [/\ (Asignados(lista) \subseteq Asignados(lista')) \/ Eliminar \/ Quitar \/ Reiniciar
         /\ Quitar => Cardinality(Asignados(lista) \ Asignados(lista')) <= 1]_vars
  BY <1>1, <1>2
<1> QED BY <1>3, PasajerosInicial, PasajerosPaso, PTL DEF Spec, VuelosQuedan

----------------------------------------------------------------------------
(* What a saved list gives back *)

\* The passenger w is what p comes back as.
Vuelve(w, p) ==
  /\ w.clave = p.clave
  /\ w.vuelos = <<>>
  /\ (p.campos[1].lleno /\ p.campos[2].lleno) => w.campos = p.campos
  /\ ~(p.campos[1].lleno /\ p.campos[2].lleno) => w.campos[2] = p.campos[3]

\* What is left of a passenger among those with two texts or more.
Queda(p) == IF Len(Llenos(p.campos)) >= 2 THEN <<p>> ELSE <<>>

\* Reading the line of a passenger that the list does not have.
LEMMA LeerRenglon ==
  ASSUME NEW l \in Lista, NEW p \in Pasajero
  PROVE  /\ Len(Llenos(p.campos)) < 2 => Leer(l, Renglon(p)) = l
         /\ (~(Len(Llenos(p.campos)) < 2) /\ Len(l) < MAX_PASAJEROS /\ buscar(l, p.clave) = 0) =>
              \E e \in Pasajero : Leer(l, Renglon(p)) = Append(l, e) /\ Vuelve(e, p)
<1> DEFINE c == p.campos
<1>1. /\ Renglon(p) \in Linea /\ Renglon(p).clave = p.clave /\ Renglon(p).campos = c
      /\ p.clave \in Claves /\ Recorte[p.clave] = p.clave /\ c \in [1..3 -> Campo]
      /\ p.clave \in Guardadas
  BY TipoGuardadas DEF Renglon, Pasajero, Linea
<1>2. Leer(l, Renglon(p)) = IF Len(Llenos(c)) < 2 THEN l
                           ELSE pasajero_crear(l, p.clave, Textos3(c))
  BY <1>1, LeerCrea
<1>3. ASSUME ~(Len(Llenos(c)) < 2), Len(l) < MAX_PASAJEROS, buscar(l, p.clave) = 0
      PROVE  \E e \in Pasajero : Leer(l, Renglon(p)) = Append(l, e) /\ Vuelve(e, p)
  <2> DEFINE t == Textos3(c)
             e == [clave |-> Recorte[p.clave], campos |-> t, vuelos |-> <<>>]
  <2>1. /\ t \in [1..3 -> Campo]
        /\ (c[1].lleno /\ c[2].lleno) => t = c
        /\ ~(c[1].lleno /\ c[2].lleno) => t[2] = c[3]
    BY <1>1, <1>3, TextosReleidos
  <2> HIDE DEF t
  <2>2. Leer(l, Renglon(p)) = Append(l, e)
    BY <1>1, <1>2, <1>3, <2>1, CrearEnLista DEF t
  <2>3. e \in Pasajero
    BY <1>1, <2>1, SinVuelos DEF Pasajero
  <2>4. Vuelve(e, p)
    BY <1>1, <2>1 DEF Vuelve
  <2> QED BY <2>2, <2>3, <2>4
<1> QED BY <1>2, <1>3

\* After n lines the list has what the first n passengers come back as, so that
\* the next one finds no passenger with its DNI.
LEMMA VueltaDeLista ==
  ASSUME NEW l \in Lista,
         \A i, j \in DOMAIN l : i # j => l[i].clave # l[j].clave
  PROVE  LET completos == FlattenSeq([i \in DOMAIN l |-> Queda(l[i])])
             vuelta == pasajero_cargar_csv(<<>>, pasajero_guardar_csv(l))
         IN  /\ Len(vuelta) = Len(completos)
             /\ \A i \in DOMAIN vuelta : Vuelve(vuelta[i], completos[i])
<1> DEFINE N == Len(l)
           lineas == pasajero_guardar_csv(l)
           ss == [i \in DOMAIN l |-> Queda(l[i])]
<1>1. /\ N \in Nat /\ DOMAIN l = 1..N /\ N <= MAX_PASAJEROS /\ MAX_PASAJEROS \in Nat
      /\ \A i \in 1..N : l[i] \in Pasajero
  BY TipoLista
<1>2. /\ lineas \in Seq(Linea) /\ Len(lineas) = N
      /\ \A i \in 1..N : lineas[i] = Renglon(l[i])
  BY GuardarLineas
<1>3. ss \in Seq(Seq(Pasajero)) /\ Len(ss) = N /\ \A i \in 1..N : ss[i] = Queda(l[i])
  <2>1. \A i \in 1..N : Queda(l[i]) \in Seq(Pasajero)
    BY <1>1 DEF Queda
  <2>2. ss \in [1..N -> Seq(Pasajero)]
    BY <1>1, <2>1
  <2>3. \A i \in 1..N : ss[i] = Queda(l[i])
    BY <1>1
  <2> HIDE DEF ss
  <2> QED BY <1>1, <2>2, <2>3, EsSecuencia
<1>4. <<>> \in Lista
  BY ListaVacia
<1> HIDE DEF N, lineas, ss
<1>5. PICK tras \in [0..N -> Lista] :
        /\ tras[0] = <<>>
        /\ \A n \in 1..N : tras[n] = Leer(tras[n - 1], lineas[n])
        /\ pasajero_cargar_csv(<<>>, lineas) = tras[N]
  BY <1>2, <1>4, Cargado
<1>6. PICK f \in [0..N -> Seq(Pasajero)] :
        /\ f[0] = <<>>
        /\ \A n \in 1..N : f[n] = f[n - 1] \o ss[n]
        /\ FlattenSeq(ss) = f[N]
  BY <1>3, Aplanado
<1> DEFINE Bien(n) == /\ Len(tras[n]) = Len(f[n]) /\ Len(f[n]) <= n
                      /\ \A i \in 1..Len(f[n]) :
                           /\ Vuelve(tras[n][i], f[n][i])
                           /\ \E j \in 1..n : f[n][i] = l[j]
           T == {n \in 0..N : Bien(n)}
<1>7. 0 \in T
  BY <1>1, <1>5, <1>6, EmptySeq
<1>8. ASSUME NEW n \in 0..N, n \in T, n < N PROVE n + 1 \in T
  <2> DEFINE m == n + 1
             v == l[m]
  <2>1. m \in 1..N /\ m \in 0..N /\ m - 1 = n /\ n \in Nat /\ m = n + 1
    BY <1>1, <1>8
  <2>2. Bien(n)
    BY <1>8
  <2> HIDE DEF m
  <2>3. /\ tras[n] \in Lista /\ f[n] \in Seq(Pasajero) /\ v \in Pasajero
        /\ tras[m] = Leer(tras[n], Renglon(v)) /\ f[m] = f[n] \o Queda(v)
    BY <1>1, <1>2, <1>3, <1>5, <1>6, <2>1
  <2>4. tras[n] \in Seq(Pasajero) /\ Len(tras[n]) \in Nat /\ Len(f[n]) \in Nat
        /\ Len(tras[n]) < MAX_PASAJEROS
    <3>1. tras[n] \in Seq(Pasajero)
      BY <2>3 DEF Lista
    <3> QED BY <1>1, <1>8, <2>1, <2>2, <2>3, <3>1, LenProperties
  <2>5. Len(Llenos(v.campos)) \in Nat
    BY <2>3, LlenosDeLinea, LenProperties DEF Pasajero
  <2>6. CASE Len(Llenos(v.campos)) < 2
    <3>1. tras[m] = tras[n]
      BY <2>3, <2>6, LeerRenglon
    <3>2. f[m] = f[n]
      BY <2>3, <2>5, <2>6, ConcatEmptySeq DEF Queda
    <3>3. Bien(m)
      BY <2>1, <2>2, <2>4, <3>1, <3>2
    <3> QED BY <2>1, <3>3
  <2>7. CASE ~(Len(Llenos(v.campos)) < 2)
    <3>1. buscar(tras[n], v.clave) = 0
      <4> DEFINE k == buscar(tras[n], v.clave)
      <4>1. SUFFICES ASSUME k # 0 PROVE FALSE
        OBVIOUS
      <4>2. k \in 1..Len(f[n]) /\ tras[n][k].clave = v.clave
        BY <2>2, <2>4, <4>1, Buscado, LenProperties
      <4> HIDE DEF k
      <4>3. PICK j \in 1..n : f[n][k] = l[j]
        BY <2>2, <4>2
      <4>4. l[j].clave = l[m].clave
        BY <2>2, <4>2, <4>3 DEF Vuelve
      <4>5. j \in DOMAIN l /\ m \in DOMAIN l /\ j # m
        BY <1>1, <1>8, <2>1
      <4> QED BY <4>4, <4>5
    <3>2. PICK e \in Pasajero : tras[m] = Append(tras[n], e) /\ Vuelve(e, v)
      BY <2>3, <2>4, <2>7, <3>1, LeerRenglon
    <3>3. Queda(v) = <<v>>
      BY <2>5, <2>7 DEF Queda
    <3>4. f[m] = Append(f[n], v)
      BY <2>3, <3>3, AppendIsConcat
    <3>5. /\ Len(tras[m]) = Len(tras[n]) + 1 /\ tras[m][Len(tras[n]) + 1] = e
          /\ \A i \in 1..Len(tras[n]) : tras[m][i] = tras[n][i]
      BY <2>4, <3>2, AppendProperties
    <3>6. /\ Len(f[m]) = Len(f[n]) + 1 /\ f[m][Len(f[n]) + 1] = v
          /\ \A i \in 1..Len(f[n]) : f[m][i] = f[n][i]
      BY <2>3, <3>4, AppendProperties
    <3>7. ASSUME NEW i \in 1..Len(f[m])
          PROVE  Vuelve(tras[m][i], f[m][i]) /\ \E j \in 1..m : f[m][i] = l[j]
      <4>1. CASE i \in 1..Len(f[n])
        <5>1. Vuelve(tras[n][i], f[n][i]) /\ \E j \in 1..n : f[n][i] = l[j]
          BY <2>2, <4>1
        <5>2. 1..n \subseteq 1..m
          BY <2>1
        <5> QED BY <2>2, <3>5, <3>6, <4>1, <5>1, <5>2
      <4>2. CASE i = Len(f[n]) + 1
        <5>1. m \in 1..m
          BY <2>1
        <5> QED BY <2>2, <3>2, <3>5, <3>6, <4>2, <5>1
      <4> QED BY <2>4, <3>6, <4>1, <4>2
    <3>8. Bien(m)
      BY <2>1, <2>2, <2>4, <3>5, <3>6, <3>7
    <3> QED BY <2>1, <3>8
  <2> QED BY <2>6, <2>7
<1>9. Bien(N)
  <2>1. \A n \in 0..N : (n \in T /\ n < N) => n + 1 \in T
    BY <1>8
  <2>2. N \in T
    <3> HIDE DEF T
    <3>1. 0..N \subseteq T
      BY <1>1, <1>7, <2>1, Induccion
    <3> QED BY <1>1, <3>1
  <2> QED BY <2>2
<1>10. DOMAIN tras[N] = 1..Len(f[N])
  BY <1>1, <1>5, <1>9, LenProperties DEF Lista
<1> QED BY <1>5, <1>6, <1>9, <1>10 DEF lineas, ss

\* A saved list comes back in its order, without flights; who has no name or no
\* email, with the telephone in the place of the email.
THEOREM RecargaSiempreFiel == Spec => []RecargaFiel
<1>1. PasajerosInv => RecargaFiel
  <2> SUFFICES ASSUME PasajerosInv, IsInjective([i \in DOMAIN lista |-> lista[i].clave])
               PROVE  LET completos == FlattenSeq([i \in DOMAIN lista |->
                                         IF Len(Llenos(lista[i].campos)) >= 2
                                           THEN <<lista[i]>> ELSE <<>>])
                          vuelta == pasajero_cargar_csv(<<>>, pasajero_guardar_csv(lista))
                      IN  /\ Len(vuelta) = Len(completos)
                          /\ \A i \in DOMAIN vuelta :
                               LET antes == completos[i].campos
                               IN  /\ vuelta[i].clave = completos[i].clave
                                   /\ vuelta[i].vuelos = <<>>
                                   /\ (antes[1].lleno /\ antes[2].lleno) => vuelta[i].campos = antes
                                   /\ ~(antes[1].lleno /\ antes[2].lleno) =>
                                        vuelta[i].campos[2] = antes[3]
    BY DEF RecargaFiel
  <2>1. lista \in Lista
    BY DEF PasajerosInv
  <2>2. \A i, j \in DOMAIN lista : i # j => lista[i].clave # lista[j].clave
    BY DEF IsInjective
  <2> QED BY <2>1, <2>2, VueltaDeLista DEF Queda, Vuelve
<1> QED BY <1>1, PasajerosInicial, PasajerosPaso, PTL DEF Spec
=============================================================================
