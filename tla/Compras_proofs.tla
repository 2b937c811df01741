--------------------------- MODULE Compras_proofs ---------------------------
(***************************************************************************)
(* Airflow sells tickets as Reservas says, and a client reads of its own    *)
(* what it was told.                                                       *)
(***************************************************************************)
EXTENDS AirflowReservas, Airflow_proofs, FiniteSetTheorems, FunctionTheorems

----------------------------------------------------------------------------
(* Purchases among the requests of a socket *)

Compras(s) == {i \in DOMAIN s : s[i].op = "COMPRAR_BILLETE"}
Pedidos(s) == {s[i].arg : i \in Compras(s)}

LEMMA ComprasFinitas ==
  ASSUME NEW s \in Seq(Peticion)
  PROVE  IsFiniteSet(Compras(s)) /\ Cardinality(Compras(s)) \in Nat
<1>1. DOMAIN s = 1..Len(s) /\ Len(s) \in Int
  BY LenProperties
<1>2. IsFiniteSet(DOMAIN s)
  BY <1>1, FS_Interval
<1>3. Compras(s) \in SUBSET DOMAIN s
  BY DEF Compras
<1> QED BY <1>2, <1>3, FS_Subset, FS_CardinalityType

LEMMA SinCompras == Cardinality(Compras(<<>>)) = 0 /\ Pedidos(<<>>) = {}
<1>1. DOMAIN <<>> = {}
  OBVIOUS
<1>2. Compras(<<>>) = {}
  BY <1>1 DEF Compras
<1> QED BY <1>2, FS_EmptySet DEF Pedidos

\* One request more is one purchase more at most.
LEMMA ComprasMas ==
  ASSUME NEW s \in Seq(Peticion), NEW q \in Peticion
  PROVE  /\ q.op # "COMPRAR_BILLETE" =>
              /\ Cardinality(Compras(Append(s, q))) = Cardinality(Compras(s))
              /\ Pedidos(Append(s, q)) = Pedidos(s)
         /\ q.op = "COMPRAR_BILLETE" =>
              /\ Cardinality(Compras(Append(s, q))) <= Cardinality(Compras(s)) + 1
              /\ Pedidos(Append(s, q)) = Pedidos(s) \cup {q.arg}
<1> DEFINE t == Append(s, q)
<1>1. /\ Len(s) \in Nat /\ t \in Seq(Peticion) /\ Len(t) = Len(s) + 1
      /\ \A i \in 1..Len(s) : t[i] = s[i]
      /\ t[Len(s) + 1] = q
  BY AppendProperties, LenProperties
<1>2. DOMAIN t = DOMAIN s \cup {Len(s) + 1} /\ Len(s) + 1 \notin DOMAIN s
      /\ DOMAIN s = 1..Len(s)
  <2>1. DOMAIN t = 1..Len(s) + 1 /\ DOMAIN s = 1..Len(s)
    BY <1>1, LenProperties
  <2>2. 1..Len(s) + 1 = 1..Len(s) \cup {Len(s) + 1} /\ Len(s) + 1 \notin 1..Len(s)
    BY <1>1
  <2> QED BY <2>1, <2>2
<1> DEFINE n == Len(s) + 1
<1>3. /\ \A i \in DOMAIN s : t[i] = s[i]
      /\ t[n] = q /\ DOMAIN t = DOMAIN s \cup {n} /\ n \notin DOMAIN s
  BY <1>1, <1>2
<1> HIDE DEF t, n
<1>4. CASE q.op # "COMPRAR_BILLETE"
  <2>1. Compras(t) = Compras(s)
    BY <1>3, <1>4 DEF Compras
  <2>2. \A i \in Compras(s) : t[i].arg = s[i].arg
    BY <1>3 DEF Compras
  <2>3. Pedidos(t) = Pedidos(s)
    BY <2>1, <2>2 DEF Pedidos
  <2> QED BY <1>4, <2>1, <2>3 DEF t
<1>5. CASE q.op = "COMPRAR_BILLETE"
  <2>1. Compras(t) = Compras(s) \cup {n}
    BY <1>3, <1>5 DEF Compras
  <2>2. \A i \in Compras(s) : t[i].arg = s[i].arg
    BY <1>3 DEF Compras
  <2>3. Pedidos(t) = Pedidos(s) \cup {q.arg}
    BY <1>3, <2>1, <2>2 DEF Pedidos
  <2>4. Cardinality(Compras(t)) =
          IF n \in Compras(s) THEN Cardinality(Compras(s)) ELSE Cardinality(Compras(s)) + 1
    BY <2>1, ComprasFinitas, FS_AddElement
  <2>5. Cardinality(Compras(t)) <= Cardinality(Compras(s)) + 1
    BY <2>4, ComprasFinitas
  <2> QED BY <1>5, <2>3, <2>5 DEF t
<1> QED BY <1>4, <1>5

\* What a recv leaves has no purchase that was not there, and not the one that
\* it took first.
LEMMA ComprasMenos ==
  ASSUME NEW s \in Seq(Peticion), NEW p \in Prefijos(s)
  PROVE  /\ Cardinality(Compras(Resto(s, p))) <= Cardinality(Compras(s))
         /\ Pedidos(Resto(s, p)) \subseteq Pedidos(s)
         /\ p[1].op = "COMPRAR_BILLETE" =>
              /\ Cardinality(Compras(Resto(s, p))) + 1 <= Cardinality(Compras(s))
              /\ p[1].arg \in Pedidos(s)
<1> DEFINE t == Resto(s, p)
           n == Len(p)
<1>1. /\ n \in 1..Len(s) /\ t \in Seq(Peticion) /\ Len(t) = Len(s) - n
      /\ \A i \in 1..Len(t) : t[i] = s[i + n]
      /\ \A i \in 1..n : p[i] = s[i]
  BY Recv
<1>2. Len(s) \in Nat /\ DOMAIN s = 1..Len(s) /\ DOMAIN t = 1..Len(t)
  BY <1>1, LenProperties
<1>3. n \in Nat /\ n >= 1 /\ Len(t) = Len(s) - n /\ Len(t) \in Nat
  BY <1>1, <1>2
<1>a. 1 \in 1..n
  BY <1>3
<1>4. 1 \in DOMAIN s /\ p[1] = s[1]
  <2>1. 1 \in 1..Len(s)
    BY <1>1, <1>2
  <2> QED BY <1>1, <1>2, <1>a, <2>1
<1>5. \A i \in 1..Len(t) : i + n \in 1..Len(s) /\ i + n # 1
  BY <1>2, <1>3
<1>6. \A i \in DOMAIN t : i + n \in DOMAIN s \ {1} /\ t[i] = s[i + n]
  BY <1>1, <1>2, <1>5
<1>7. \A i, j \in DOMAIN t : i + n = j + n => i = j
  BY <1>2, <1>3
<1> HIDE DEF t, n
<1> DEFINE f == [i \in Compras(t) |-> i + n]
<1>8. \A i \in Compras(t) : i \in DOMAIN t /\ f[i] = i + n
  BY DEF Compras
<1>9. f \in [Compras(t) -> Compras(s) \ {1}]
  BY <1>6, <1>8 DEF Compras
<1>10. \A i, j \in Compras(t) : f[i] = f[j] => i = j
  BY <1>7, <1>8
<1>11. f \in Injection(Compras(t), Compras(s) \ {1})
  BY <1>9, <1>10, Fun_IsInj
<1>12. /\ IsFiniteSet(Compras(s)) /\ Cardinality(Compras(s)) \in Nat
       /\ Cardinality(Compras(t)) \in Nat
  BY <1>1, ComprasFinitas DEF t
<1>13. /\ IsFiniteSet(Compras(s) \ {1})
       /\ Cardinality(Compras(s) \ {1}) =
            IF 1 \in Compras(s) THEN Cardinality(Compras(s)) - 1 ELSE Cardinality(Compras(s))
  BY <1>12, FS_RemoveElement
<1>14. Cardinality(Compras(t)) <= Cardinality(Compras(s) \ {1})
  BY <1>11, <1>13, FS_Injection
<1>15. /\ Cardinality(Compras(t)) <= Cardinality(Compras(s))
       /\ 1 \in Compras(s) => Cardinality(Compras(t)) + 1 <= Cardinality(Compras(s))
  BY <1>12, <1>13, <1>14
<1>16. Pedidos(t) \subseteq Pedidos(s)
  <2> SUFFICES ASSUME NEW i \in Compras(t) PROVE t[i].arg \in Pedidos(s)
    BY DEF Pedidos
  <2>1. i + n \in Compras(s) /\ t[i] = s[i + n]
    BY <1>6 DEF Compras
  <2> QED BY <2>1 DEF Pedidos
<1>17. p[1].op = "COMPRAR_BILLETE" => 1 \in Compras(s) /\ p[1].arg \in Pedidos(s)
  BY <1>4 DEF Compras, Pedidos
<1> QED BY <1>15, <1>16, <1>17 DEF t

----------------------------------------------------------------------------
(* Tickets in the answers of a socket *)

Noticias(s) == UNION {Comprados(s[i].r) : i \in DOMAIN s}

\* No two pieces bring the same ticket.
UnaVez(s) ==
  \A i, j \in DOMAIN s : i # j => Comprados(s[i].r) \cap Comprados(s[j].r) = {}

LEMMA SinNoticias == Noticias(<<>>) = {} /\ UnaVez(<<>>)
<1>1. DOMAIN <<>> = {}
  OBVIOUS
<1> QED BY <1>1 DEF Noticias, UnaVez

\* What a recv takes is news no more.
LEMMA NoticiasLeidas ==
  ASSUME NEW s \in Seq(Trozo), NEW p \in Prefijos(s), UnaVez(s)
  PROVE  /\ Noticias(Resto(s, p)) = Noticias(s) \ Noticias(p)
         /\ Noticias(p) \subseteq Noticias(s)
         /\ UnaVez(Resto(s, p))
<1> DEFINE t == Resto(s, p)
           n == Len(p)
<1>1. /\ n \in 1..Len(s) /\ t \in Seq(Trozo) /\ Len(t) = Len(s) - n
      /\ p \in Seq(Trozo)
      /\ \A i \in 1..Len(t) : t[i] = s[i + n]
      /\ \A i \in 1..n : p[i] = s[i]
  BY Recv
<1>2. Len(s) \in Nat /\ DOMAIN s = 1..Len(s) /\ DOMAIN t = 1..Len(t) /\ DOMAIN p = 1..n
  BY <1>1, LenProperties
<1>3. n \in Nat /\ Len(t) = Len(s) - n /\ Len(t) \in Nat /\ n <= Len(s)
  BY <1>1, <1>2
<1>4. \A i \in 1..Len(t) : i + n \in 1..Len(s) /\ i + n \notin 1..n
  BY <1>2, <1>3
<1>5. \A i \in DOMAIN t : i + n \in DOMAIN s \ DOMAIN p /\ t[i] = s[i + n]
  BY <1>1, <1>2, <1>4
<1>a. \A i \in 1..n : i \in 1..Len(s)
  BY <1>2, <1>3
<1>6. \A i \in DOMAIN p : i \in DOMAIN s /\ p[i] = s[i]
  BY <1>1, <1>2, <1>a
<1>7. \A i, j \in DOMAIN t : i # j => i + n # j + n
  BY <1>2, <1>3
<1>b. \A k \in 1..Len(s) : k \notin 1..n => \E i \in 1..Len(t) : k = i + n
  <2> SUFFICES ASSUME NEW k \in 1..Len(s), k \notin 1..n PROVE \E i \in 1..Len(t) : k = i + n
    OBVIOUS
  <2>1. k - n \in 1..Len(t) /\ k = (k - n) + n
    BY <1>2, <1>3
  <2> QED BY <2>1
<1>8. \A k \in DOMAIN s \ DOMAIN p : \E i \in DOMAIN t : k = i + n
  BY <1>2, <1>b
<1> HIDE DEF t, n
<1>9. Noticias(p) \subseteq Noticias(s)
  BY <1>6 DEF Noticias
<1>10. Noticias(t) \subseteq Noticias(s) \ Noticias(p)
  <2> SUFFICES ASSUME NEW b \in Noticias(t) PROVE b \in Noticias(s) \ Noticias(p)
    OBVIOUS
  <2>0. PICK i \in DOMAIN t : b \in Comprados(t[i].r)
    BY DEF Noticias
  <2>1. i + n \in DOMAIN s \ DOMAIN p /\ b \in Comprados(s[i + n].r)
    BY <1>5, <2>0
  <2>2. b \in Noticias(s)
    BY <2>1 DEF Noticias
  <2>3. ASSUME NEW j \in DOMAIN p PROVE b \notin Comprados(p[j].r)
    <3>1. j \in DOMAIN s /\ p[j] = s[j] /\ j # i + n
      BY <1>6, <2>1
    <3> QED BY <2>1, <3>1 DEF UnaVez
  <2> QED BY <2>2, <2>3 DEF Noticias
<1>11. Noticias(s) \ Noticias(p) \subseteq Noticias(t)
  <2> SUFFICES ASSUME NEW k \in DOMAIN s, NEW b \in Comprados(s[k].r), b \notin Noticias(p)
               PROVE  b \in Noticias(t)
    BY DEF Noticias
  <2>1. k \notin DOMAIN p
    BY <1>6 DEF Noticias
  <2>2. PICK i \in DOMAIN t : k = i + n
    BY <1>8, <2>1
  <2>3. b \in Comprados(t[i].r)
    BY <1>5, <2>2
  <2> QED BY <2>3 DEF Noticias
<1>12. UnaVez(t)
  <2> SUFFICES ASSUME NEW i \in DOMAIN t, NEW j \in DOMAIN t, i # j
               PROVE  Comprados(t[i].r) \cap Comprados(t[j].r) = {}
    BY DEF UnaVez
  <2>1. i + n \in DOMAIN s /\ j + n \in DOMAIN s /\ i + n # j + n
    BY <1>5, <1>7
  <2>2. t[i] = s[i + n] /\ t[j] = s[j + n]
    BY <1>5
  <2> QED BY <2>1, <2>2 DEF UnaVez
<1> QED BY <1>9, <1>10, <1>11, <1>12 DEF t

\* A piece of an answer that is being sent brings what the answer brings, and
\* an answer with tickets is one piece.
LEMMA NoticiasEnviadas ==
  ASSUME NEW s \in Seq(Trozo), UnaVez(s), NEW r \in Respuesta, NEW corte \in Cortes(r),
         Noticias(s) \cap Comprados(r) = {}
  PROVE  /\ Noticias(s \o corte) \subseteq Noticias(s) \cup Comprados(r)
         /\ UnaVez(s \o corte)
<1> DEFINE t == s \o corte
           n == Len(s)
<1>1. corte \in Seq(Trozo)
  BY TipoCortes
<1>2. /\ t \in Seq(Trozo) /\ Len(t) = n + Len(corte)
      /\ \A i \in 1..Len(t) : t[i] = IF i <= n THEN s[i] ELSE corte[i - n]
  BY <1>1, ConcatProperties
<1>3. /\ n \in Nat /\ Len(corte) \in Nat /\ DOMAIN s = 1..n
      /\ DOMAIN corte = 1..Len(corte) /\ DOMAIN t = 1..Len(t)
  BY <1>1, <1>2, LenProperties
<1>4. \A i \in DOMAIN corte : corte[i].r = r
  BY PiezasDe
<1>5. \A i \in 1..Len(t) : i <= n => i \in 1..n
  BY <1>2, <1>3
<1>6. \A i \in 1..Len(t) : ~(i <= n) => i - n \in 1..Len(corte)
  BY <1>2, <1>3
<1>7. Comprados(r) # {} => Len(corte) = 1
  <2>1. Comprados(r) # {} => ~Larga(r)
    BY DEF Comprados, Larga
  <2>2. PICK k \in IF Larga(r) THEN 1..Trozos ELSE {1} :
          corte = [i \in 1..k |-> [r |-> r, parte |-> i, de |-> k]]
    BY DEF Cortes
  <2>3. ~Larga(r) => DOMAIN corte = 1..1
    BY <2>2
  <2>4. ~Larga(r) => Len(corte) = 1
    BY <1>3, <2>3
  <2> QED BY <2>1, <2>4
\* Where each piece comes from.
<1>8. \A i \in DOMAIN t :
        \/ i <= n /\ i \in DOMAIN s /\ t[i] = s[i]
        \/ ~(i <= n) /\ t[i].r = r
  BY <1>2, <1>3, <1>4, <1>5, <1>6
<1>9. Comprados(r) # {} => \A i, j \in DOMAIN t : (~(i <= n) /\ ~(j <= n)) => i = j
  BY <1>2, <1>3, <1>7
<1> HIDE DEF t, n
<1>10. Noticias(t) \subseteq Noticias(s) \cup Comprados(r)
  BY <1>8 DEF Noticias
<1>11. UnaVez(t)
  <2> SUFFICES ASSUME NEW i \in DOMAIN t, NEW j \in DOMAIN t, i # j
               PROVE  Comprados(t[i].r) \cap Comprados(t[j].r) = {}
    BY DEF UnaVez
  <2>1. ASSUME NEW k \in DOMAIN s PROVE Comprados(s[k].r) \cap Comprados(r) = {}
    BY DEF Noticias
  <2>2. CASE i <= n /\ j <= n
    BY <1>8, <2>2 DEF UnaVez
  <2>3. CASE i <= n /\ ~(j <= n)
    BY <1>8, <2>1, <2>3
  <2>4. CASE ~(i <= n) /\ j <= n
    BY <1>8, <2>1, <2>4
  <2>5. CASE ~(i <= n) /\ ~(j <= n)
    <3>1. Comprados(r) = {}
      BY <1>9, <2>5
    <3> QED BY <1>8, <2>5, <3>1
  <2> QED BY <2>2, <2>3, <2>4, <2>5
<1> QED BY <1>10, <1>11 DEF t
----------------------------------------------------------------------------
(* The invariant *)

\* What c has to read brings each ticket once, of those sold, and none that
\* the server is about to send.
Suelta(c) ==
  /\ UnaVez(al_cliente[c])
  /\ Noticias(al_cliente[c]) \subseteq 1..billete.seq
  /\ atendido = c => Noticias(al_cliente[c]) \cap Comprados(respuesta) = {}

\* Who buys has chosen a flight.
Elegido(c) == pc[c] \in {"comprar", "confirmar"} => codigo[c] \in Vuelos

Ventas ==
  /\ servidor # "enviar" => Comprados(respuesta) = {}
  /\ Comprados(respuesta) \subseteq 1..billete.seq
  /\ borrado <= billete.seq /\ billete.seq <= pedidas
  /\ ComprasContadas
  /\ \A c \in Clientes : Suelta(c) /\ Elegido(c)

\* SesionInv says that nobody but the client being served has a purchase in its
\* socket: without it the purchases of several clients would have to be added.
ComprasInv == SesionInv /\ Ventas

LEMMA SoloElAtendido ==
  ASSUME SesionInv, NEW c \in Clientes, c # atendido
  PROVE  Cardinality(Compras(al_servidor[c])) = 0 /\ Pedidos(al_servidor[c]) = {}
<1>1. CASE al_servidor[c] = <<>>
  BY <1>1, SinCompras
<1>2. CASE al_servidor[c] # <<>>
  <2>1. Conectado(c)
    BY <1>2 DEF SesionInv, ConversacionInv, Conversacion
  <2>2. EnLaCola(c)
    BY <2>1 DEF Conectado, EnLaCola
  <2>3. PICK q \in Peticion : al_servidor[c] = <<q>> /\ q.op = "LOGIN"
    BY <1>2, <2>2 DEF SesionInv, EnEspera
  <2>4. DOMAIN <<q>> = {1} /\ <<q>>[1] = q
    OBVIOUS
  <2>5. Compras(<<q>>) = {}
    BY <2>3, <2>4 DEF Compras
  <2> QED BY <2>3, <2>5, FS_EmptySet DEF Pedidos
<1> QED BY <1>1, <1>2

\* The requests, the news and the counts, as Airflow and AirflowReservas write them.
LEMMA Escrituras ==
  ASSUME NEW c \in Clientes
  PROVE  /\ EnCamino(c) = Cardinality(Compras(al_servidor[c]))
         /\ Encargos(c) = Pedidos(al_servidor[c])
         /\ PorAvisar(c) =
              Noticias(al_cliente[c]) \cup (IF atendido = c THEN Comprados(respuesta) ELSE {})
<1>1. EnCamino(c) = Cardinality(Compras(al_servidor[c]))
  BY DEF EnCamino, Compras
<1>2. Encargos(c) = Pedidos(al_servidor[c])
  BY DEF Encargos, Pedidos, Compras
<1>3. PorAvisar(c) =
        Noticias(al_cliente[c]) \cup (IF atendido = c THEN Comprados(respuesta) ELSE {})
  <2>1. UNION {Comprados(al_cliente[c][i].r) : i \in DOMAIN al_cliente[c]}
          = Noticias(al_cliente[c])
    BY DEF Noticias
  <2> QED BY <2>1, Zenon DEF PorAvisar
<1> QED BY <1>1, <1>2, <1>3

LEMMA Recontadas ==
  ASSUME RedTypeOK, ServidorTypeOK
  PROVE  /\ billete.seq \in Nat /\ borrado \in Nat /\ pedidas \in Nat
         /\ \A c \in Clientes : Cardinality(Compras(al_servidor[c])) \in Nat
<1>1. \A c \in Clientes : al_servidor[c] \in Seq(Peticion)
  BY DEF RedTypeOK
<1>2. billete.seq \in Nat
  BY DEF ServidorTypeOK, Tabla
<1> QED BY <1>1, <1>2, ComprasFinitas DEF RedTypeOK, ServidorTypeOK

\* A step that sells nothing, tells nothing and asks for nothing loses at most.
LEMMA VentasMenos ==
  ASSUME Ventas, RedTypeOK, ServidorTypeOK, RedTypeOK', ServidorTypeOK', ControladorTypeOK',
         UNCHANGED <<pedidas, billete, borrado>>,
         \/ Comprados(respuesta') = {}
         \/ /\ UNCHANGED <<servidor, respuesta, atendido>>
            /\ \A d \in Clientes : Noticias(al_cliente'[d]) \subseteq Noticias(al_cliente[d]),
         \A d \in Clientes :
           /\ Cardinality(Compras(al_servidor'[d])) <= Cardinality(Compras(al_servidor[d]))
           /\ Pedidos(al_servidor'[d]) \subseteq Pedidos(al_servidor[d])
           /\ UnaVez(al_cliente'[d])
           /\ Noticias(al_cliente'[d]) \subseteq PorAvisar(d)
           /\ confirmados'[d] \subseteq confirmados[d]
           /\ Elegido(d)'
  PROVE  Ventas' /\ R!Next
<1>1. \A d \in Clientes : PorAvisar(d) \subseteq 1..billete.seq
  BY Escrituras DEF Ventas, Suelta
<1>2. \A d \in Clientes : Suelta(d)'
  <2>1. \A d \in Clientes : Noticias(al_cliente'[d]) \subseteq 1..billete'.seq
    BY <1>1
  <2>2. \A d \in Clientes :
          atendido' = d => Noticias(al_cliente'[d]) \cap Comprados(respuesta') = {}
    BY DEF Ventas, Suelta
  <2> QED BY <2>1, <2>2 DEF Suelta, UnaVez, Noticias, Comprados
<1>3. ComprasContadas'
  <2> SUFFICES ASSUME NEW d \in Clientes PROVE billete.seq + EnCamino(d)' <= pedidas
    BY DEF ComprasContadas
  <2>1. /\ EnCamino(d) = Cardinality(Compras(al_servidor[d]))
        /\ EnCamino(d)' = Cardinality(Compras(al_servidor'[d]))
    BY DEF EnCamino, Compras
  <2>2. billete.seq + EnCamino(d) <= pedidas
    BY DEF Ventas, ComprasContadas
  <2>3. /\ billete.seq \in Nat /\ pedidas \in Nat
        /\ Cardinality(Compras(al_servidor[d])) \in Nat
    BY Recontadas
  <2>4. Cardinality(Compras(al_servidor'[d])) \in Nat
    <3>1. al_servidor'[d] \in Seq(Peticion)
      BY DEF RedTypeOK
    <3> QED BY <3>1, ComprasFinitas
  <2> QED BY <2>1, <2>2, <2>3, <2>4
<1>4. /\ servidor' # "enviar" => Comprados(respuesta') = {}
      /\ Comprados(respuesta') \subseteq 1..billete'.seq
  BY DEF Ventas
<1>5. Ventas'
  BY <1>2, <1>3, <1>4 DEF Ventas, Comprados
<1>6. \A d \in Clientes : Encargos(d)' \subseteq Encargos(d)
  BY DEF Encargos, Pedidos, Compras
<1>7. \A d \in Clientes : PorAvisar(d)' \subseteq PorAvisar(d)
  <2> SUFFICES ASSUME NEW d \in Clientes PROVE PorAvisar(d)' \subseteq PorAvisar(d)
    OBVIOUS
  <2>1. PorAvisar(d)' = Noticias(al_cliente'[d])
                          \cup (IF atendido' = d THEN Comprados(respuesta') ELSE {})
    <3>1. (UNION {Comprados(al_cliente[d][i].r) : i \in DOMAIN al_cliente[d]})'
            = Noticias(al_cliente'[d])
      BY Zenon DEF Noticias, Comprados
    <3>2. Comprados(respuesta)' = Comprados(respuesta')
      BY Zenon DEF Comprados
    <3> QED BY <3>1, <3>2, Zenon DEF PorAvisar
  <2>2. atendido' = d => Comprados(respuesta') \subseteq PorAvisar(d)
    BY Escrituras
  <2> QED BY <2>1, <2>2
<1>8. DOMAIN confirmados' = Clientes
  BY DEF ControladorTypeOK
<1>9. R!Perder
  BY <1>6, <1>7, <1>8 DEF R!Perder, R!SoloMenos
<1> QED BY <1>5, <1>9 DEF R!Next

----------------------------------------------------------------------------
(* The steps of a client *)

\* A request that is no purchase.
PideOtra(c, p) ==
  /\ Pedir(c, p) /\ p \in Peticion
  /\ p.op # "COMPRAR_BILLETE"
  /\ UNCHANGED pedidas

LEMMA ComprasDelCliente ==
  ASSUME RedTypeOK, ControladorTypeOK, NEW c \in Clientes, NEW e \in BOOLEAN,
         ClienteNext(c, e)
  PROVE  \/ Conectar(c, e) \/ Terminar(c) \/ Cancelar(c) \/ CambiarUsuario(c)
         \/ RecibirRespuesta(c) \/ Confirmar(c) \/ \E p \in Peticion : PideOtra(c, p)
<1>1. \A p : Pedir(c, p) => p \in Peticion
  <2> SUFFICES ASSUME NEW p, Pedir(c, p) PROVE p \in Peticion
    OBVIOUS
  <2>1. pendiente'[c] = p
    BY DEF Pedir, ControladorTypeOK
  <2>2. ControladorTypeOK'
    BY TipoCliente
  <2> QED BY <2>1, <2>2 DEF ControladorTypeOK
<1>2. \A op, arg, id : Texto(op, arg, id).op = op /\ Orden(op).op = op
  BY DEF Texto, Orden
<1>3. ASSUME NEW p, Pedir(c, p), p.op # "COMPRAR_BILLETE", UNCHANGED pedidas
      PROVE  \E q \in Peticion : PideOtra(c, q)
  BY <1>1, <1>3 DEF PideOtra
<1>4. ASSUME NEW x \in Credenciales, hacerLogin(c, x) PROVE \E q \in Peticion : PideOtra(c, q)
  BY <1>2, <1>3, <1>4 DEF hacerLogin
<1>5. ASSUME NEW t \in Listas, VerLista(c, t) PROVE \E q \in Peticion : PideOtra(c, q)
  <2>1. Pedir(c, Texto("LISTAR", t, -1)) /\ UNCHANGED pedidas
    BY <1>5 DEF VerLista
  <2>2. Texto("LISTAR", t, -1).op # "COMPRAR_BILLETE"
    BY <1>2
  <2> QED BY <1>3, <2>1, <2>2
<1>6. ASSUME NEW v \in Vuelos, buscarVueloPorCodigo(c, v) \/ comprarBillete(c, v)
      PROVE  \E q \in Peticion : PideOtra(c, q)
  BY <1>2, <1>3, <1>6 DEF buscarVueloPorCodigo, comprarBillete
<1>7. ASSUME \/ buscarVuelosOrigenDestino(c) \/ CargarCSVEnBD(c) \/ verMisBilletes(c)
             \/ SalirDelMenu(c)
      PROVE  \E q \in Peticion : PideOtra(c, q)
  BY <1>2, <1>3, <1>7 DEF buscarVuelosOrigenDestino, CargarCSVEnBD, verMisBilletes, SalirDelMenu
<1>8. Morir(c) \/ SalirContestado(c) => Terminar(c)
  BY DEF Morir, SalirContestado
<1> QED BY <1>4, <1>5, <1>6, <1>7, <1>8 DEF ClienteNext, PasoCliente

\* comprarBillete fixes a flight, and its place in the menu is left with it.
LEMMA ElegidoSiempre ==
  ASSUME RedTypeOK, ControladorTypeOK, NEW c \in Clientes, NEW e \in BOOLEAN,
         ClienteNext(c, e), NEW d \in Clientes, Elegido(d)
  PROVE  Elegido(d)'
<1> USE DEF ControladorTypeOK, Elegido
<1>1. CASE UNCHANGED <<pc, codigo>>
  BY <1>1
<1>2. CASE Conectar(c, e)
  BY <1>2 DEF Conectar
<1>3. CASE Terminar(c)
  BY <1>3 DEF Terminar
<1>4. CASE Cancelar(c) \/ CambiarUsuario(c)
  BY <1>4 DEF Cancelar, CambiarUsuario
<1>5. CASE Confirmar(c)
  BY <1>5 DEF Confirmar
<1>6. ASSUME NEW v \in Vuelos, comprarBillete(c, v)
      PROVE  Elegido(d)'
  BY <1>6 DEF comprarBillete
<1>7. CASE RecibirRespuesta(c)
  <2>1. PICK texto : Contestar(c, texto)
    BY <1>7 DEF RecibirRespuesta
  <2>2. codigo' = codigo
    BY <2>1 DEF Contestar, LoginContestado, ListaContestada, CargaContestada, InfoContestada,
         TextoMostrado
  <2>3. /\ pc'[d] \in {"comprar", "confirmar"} => pc[d] \in {"comprar", "confirmar"}
    BY <2>1 DEF Contestar, LoginContestado, ListaContestada, CargaContestada, InfoContestada,
         TextoMostrado
  <2> QED BY <2>2, <2>3
<1>8. Morir(c) \/ SalirContestado(c) => Terminar(c)
  BY DEF Morir, SalirContestado
<1>9. ASSUME NEW x \in Credenciales, hacerLogin(c, x) PROVE UNCHANGED <<pc, codigo>>
  BY <1>9 DEF hacerLogin
<1>10. ASSUME NEW t \in Listas, VerLista(c, t) PROVE UNCHANGED <<pc, codigo>>
  BY <1>10 DEF VerLista
<1>11. ASSUME NEW v \in Vuelos, buscarVueloPorCodigo(c, v) PROVE UNCHANGED <<pc, codigo>>
  BY <1>11 DEF buscarVueloPorCodigo
<1>12. ASSUME \/ buscarVuelosOrigenDestino(c) \/ CargarCSVEnBD(c) \/ verMisBilletes(c)
              \/ SalirDelMenu(c)
       PROVE  UNCHANGED <<pc, codigo>>
  BY <1>12 DEF buscarVuelosOrigenDestino, CargarCSVEnBD, verMisBilletes, SalirDelMenu
<1> QED BY <1>1, <1>2, <1>3, <1>4, <1>5, <1>6, <1>7, <1>8, <1>9, <1>10, <1>11, <1>12
        DEF ClienteNext, PasoCliente

\* Reading an answer is being told of the tickets in it, once.
LEMMA VentasLeer ==
  ASSUME Ventas, RedTypeOK, ServidorTypeOK, ControladorTypeOK, NEW c \in Clientes,
         RecibirRespuesta(c), UNCHANGED <<sesion, bd>>, \A d \in Clientes : Elegido(d)'
  PROVE  Ventas' /\ R!Next
<1>1. PICK texto : /\ Contestar(c, texto)
                   /\ \/ texto = <<>> /\ UNCHANGED al_cliente
                      \/ /\ texto \in Prefijos(al_cliente[c])
                         /\ al_cliente' = [al_cliente EXCEPT ![c] = Resto(@, texto)]
  BY DEF RecibirRespuesta
<1>2. al_cliente[c] \in Seq(Trozo) /\ UnaVez(al_cliente[c])
  BY DEF RedTypeOK, Ventas, Suelta
<1>3. /\ Noticias(al_cliente'[c]) = Noticias(al_cliente[c]) \ Noticias(texto)
      /\ Noticias(texto) \subseteq Noticias(al_cliente[c])
      /\ UnaVez(al_cliente'[c])
      /\ \A d \in Clientes \ {c} : al_cliente'[d] = al_cliente[d]
  <2>1. CASE texto = <<>> /\ UNCHANGED al_cliente
    BY <1>2, <2>1, SinNoticias
  <2>2. CASE /\ texto \in Prefijos(al_cliente[c])
             /\ al_cliente' = [al_cliente EXCEPT ![c] = Resto(@, texto)]
    BY <1>2, <2>2, NoticiasLeidas DEF RedTypeOK
  <2> QED BY <1>1, <2>1, <2>2
<1>4. confirmados' = [confirmados EXCEPT ![c] = @ \cup Noticias(texto)]
  <2>1. UNION {texto[i].r.billetes : i \in {j \in DOMAIN texto : texto[j].r.tipo = "OK"}}
          = Noticias(texto)
    <3>1. \A b : (\E i \in DOMAIN texto : texto[i].r.tipo = "OK" /\ b \in texto[i].r.billetes)
                   <=> \E i \in DOMAIN texto : b \in Comprados(texto[i].r)
      BY DEF Comprados
    <3> QED BY <3>1 DEF Noticias
  <2> QED BY <1>1, <2>1 DEF Contestar
<1>5. /\ UNCHANGED <<cola, atendido, abierto, al_servidor, pedidas>>
      /\ UNCHANGED <<servidor, respuesta, billete, borrado>>
  BY <1>1 DEF Contestar, sesion, bd
<1>6. \A d \in Clientes : Suelta(d)'
  <2> SUFFICES ASSUME NEW d \in Clientes
               PROVE  /\ UnaVez(al_cliente'[d])
                      /\ Noticias(al_cliente'[d]) \subseteq 1..billete.seq
                      /\ atendido = d => Noticias(al_cliente'[d]) \cap Comprados(respuesta) = {}
    BY <1>5 DEF Suelta, UnaVez, Noticias, Comprados
  <2>1. Suelta(d)
    BY DEF Ventas
  <2> QED BY <1>3, <2>1 DEF Suelta
<1>7. ComprasContadas'
  BY <1>5 DEF Ventas, ComprasContadas, EnCamino
<1>8. Ventas'
  BY <1>5, <1>6, <1>7 DEF Ventas, Comprados
<1>9. \A d \in Clientes : Encargos(d)' = Encargos(d)
  BY <1>5 DEF Encargos
<1>10. /\ PorAvisar(c)' = PorAvisar(c) \ Noticias(texto)
       /\ \A d \in Clientes \ {c} : PorAvisar(d)' = PorAvisar(d)
  <2>1. ASSUME NEW d \in Clientes
        PROVE  PorAvisar(d)' = Noticias(al_cliente'[d])
                                 \cup (IF atendido = d THEN Comprados(respuesta) ELSE {})
    <3>1. (UNION {Comprados(al_cliente[d][i].r) : i \in DOMAIN al_cliente[d]})'
            = Noticias(al_cliente'[d])
      BY Zenon DEF Noticias, Comprados
    <3>2. Comprados(respuesta)' = Comprados(respuesta)
      BY <1>5 DEF Comprados
    <3> QED BY <1>5, <3>1, <3>2, Zenon DEF PorAvisar
  <2>2. atendido = c => Noticias(texto) \cap Comprados(respuesta) = {}
    BY <1>3 DEF Ventas, Suelta
  <2>3. PorAvisar(c)' = PorAvisar(c) \ Noticias(texto)
    BY <1>3, <2>1, <2>2, Escrituras
  <2>4. \A d \in Clientes \ {c} : PorAvisar(d)' = PorAvisar(d)
    BY <1>3, <2>1, Escrituras
  <2> QED BY <2>3, <2>4
<1>11. Noticias(texto) \in SUBSET PorAvisar(c)
  BY <1>3, Escrituras
<1>12. R!Avisar(c)
  <2>1. [d \in Clientes |-> PorAvisar(d)]'
          = [[d \in Clientes |-> PorAvisar(d)] EXCEPT ![c] = @ \ Noticias(texto)]
    BY <1>10
  <2>2. [d \in Clientes |-> Encargos(d)]' = [d \in Clientes |-> Encargos(d)]
    BY <1>9
  <2> QED BY <1>4, <1>5, <1>11, <2>1, <2>2 DEF R!Avisar
<1> QED BY <1>8, <1>12 DEF R!Next

\* Asking for a ticket.
LEMMA VentasPedir ==
  ASSUME Ventas, RedTypeOK, ServidorTypeOK, ControladorTypeOK, NEW c \in Clientes,
         Confirmar(c), UNCHANGED <<sesion, bd>>, \A d \in Clientes : Elegido(d)'
  PROVE  Ventas' /\ R!Next
<1> DEFINE q == Texto("COMPRAR_BILLETE", codigo[c], idUsuarioAutenticado[c])
<1>1. q.op = "COMPRAR_BILLETE" /\ q.arg = codigo[c] /\ q \in Peticion
  <2>1. /\ codigo[c] \in Argumentos /\ idUsuarioAutenticado[c] \in {-1, ID_PASAJERO}
        /\ "COMPRAR_BILLETE" \in Ops
    BY DEF ControladorTypeOK, Argumentos, Ops
  <2>2. q \in Peticion
    BY <2>1, TipoTexto
  <2> QED BY <2>2 DEF Texto
<1>2. /\ al_servidor' = IF Conectado(c) THEN [al_servidor EXCEPT ![c] = Append(@, q)]
                                        ELSE al_servidor
      /\ pedidas' = pedidas + 1 /\ pc[c] = "confirmar"
      /\ UNCHANGED <<atendido, al_cliente, confirmados, servidor, respuesta, billete, borrado>>
  BY DEF Confirmar, Pedir, sesion, bd
<1> HIDE DEF q
<1>3. al_servidor[c] \in Seq(Peticion)
  BY DEF RedTypeOK
<1>4. /\ Cardinality(Compras(al_servidor'[c])) <= Cardinality(Compras(al_servidor[c])) + 1
      /\ \A d \in Clientes \ {c} : al_servidor'[d] = al_servidor[d]
      /\ \/ al_servidor' = al_servidor
         \/ Pedidos(al_servidor'[c]) = Pedidos(al_servidor[c]) \cup {codigo[c]}
  <2>1. CASE Conectado(c)
    <3>1. al_servidor'[c] = Append(al_servidor[c], q)
      BY <1>2, <2>1 DEF RedTypeOK
    <3> QED BY <1>1, <1>2, <1>3, <2>1, <3>1, ComprasMas DEF RedTypeOK
  <2>2. CASE ~Conectado(c)
    <3>1. al_servidor' = al_servidor /\ Cardinality(Compras(al_servidor[c])) \in Nat
      BY <1>2, <1>3, <2>2, ComprasFinitas
    <3> QED BY <3>1
  <2> QED BY <2>1, <2>2
<1>5. ComprasContadas'
  <2> SUFFICES ASSUME NEW d \in Clientes PROVE billete.seq + EnCamino(d)' <= pedidas + 1
    BY <1>2 DEF ComprasContadas
  <2>1. /\ EnCamino(d) = Cardinality(Compras(al_servidor[d]))
        /\ EnCamino(d)' = Cardinality(Compras(al_servidor'[d]))
    BY DEF EnCamino, Compras
  <2>2. billete.seq + EnCamino(d) <= pedidas
    BY DEF Ventas, ComprasContadas
  <2>3. /\ billete.seq \in Nat /\ pedidas \in Nat
        /\ Cardinality(Compras(al_servidor[d])) \in Nat
    BY Recontadas
  <2>4. Cardinality(Compras(al_servidor'[d])) \in Nat
    <3>1. al_servidor'[d] \in Seq(Peticion)
      <4>1. Append(al_servidor[c], q) \in Seq(Peticion)
        BY <1>1, <1>3, AppendProperties
      <4> QED BY <1>2, <1>4, <4>1 DEF RedTypeOK
    <3> QED BY <3>1, ComprasFinitas
  <2>5. Cardinality(Compras(al_servidor'[d])) <= Cardinality(Compras(al_servidor[d])) + 1
    <3>1. CASE d = c
      BY <1>4, <3>1
    <3>2. CASE d # c
      BY <1>4, <2>3, <3>2
    <3> QED BY <3>1, <3>2
  <2> QED BY <2>1, <2>2, <2>3, <2>4, <2>5
<1>6. billete.seq <= pedidas'
  BY <1>2, Recontadas DEF Ventas
<1>7. Ventas'
  BY <1>2, <1>5, <1>6 DEF Ventas, Suelta, UnaVez, Noticias, Comprados
<1>8. \A d \in Clientes : PorAvisar(d)' = PorAvisar(d)
  BY <1>2 DEF PorAvisar, Comprados
<1>9. R!Encargar(c, codigo[c])
  <2>1. [d \in Clientes |-> PorAvisar(d)]' = [d \in Clientes |-> PorAvisar(d)]
    BY <1>8
  <2>2. \/ [d \in Clientes |-> Encargos(d)]' = [d \in Clientes |-> Encargos(d)]
        \/ [d \in Clientes |-> Encargos(d)]'
             = [[d \in Clientes |-> Encargos(d)] EXCEPT ![c] = @ \cup {codigo[c]}]
    <3>1. \A d \in Clientes : /\ Encargos(d) = Pedidos(al_servidor[d])
                              /\ Encargos(d)' = Pedidos(al_servidor'[d])
      BY DEF Encargos, Pedidos, Compras
    <3>2. CASE al_servidor' = al_servidor
      BY <3>1, <3>2
    <3>3. CASE Pedidos(al_servidor'[c]) = Pedidos(al_servidor[c]) \cup {codigo[c]}
      <4>1. \A d \in Clientes \ {c} : Encargos(d)' = Encargos(d)
        BY <1>4, <3>1
      <4>2. Encargos(c)' = Encargos(c) \cup {codigo[c]}
        BY <3>1, <3>3
      <4> QED BY <4>1, <4>2
    <3> QED BY <1>4, <3>2, <3>3
  <2> QED BY <1>2, <2>1, <2>2 DEF R!Encargar
<1>10. codigo[c] \in Vuelos
  BY <1>2 DEF Ventas, Elegido
<1> QED BY <1>7, <1>9, <1>10 DEF R!Next

\* Nothing a client does touches the tickets.
LEMMA VentasCliente ==
  ASSUME ComprasInv, SesionInv', NEW c \in Clientes, NEW e \in BOOLEAN, ClienteNext(c, e),
         UNCHANGED <<sesion, bd>>
  PROVE  Ventas' /\ R!Next
<1>0. /\ Ventas /\ RedTypeOK /\ ServidorTypeOK /\ ControladorTypeOK
      /\ RedTypeOK' /\ ServidorTypeOK' /\ ControladorTypeOK'
  BY DEF ComprasInv, SesionInv, ConversacionInv, EsperaInv, TypeOK
<1>1. /\ UNCHANGED <<atendido, servidor, respuesta, billete, borrado>>
      /\ \A d \in Clientes : Elegido(d)'
  BY <1>0, TipoCliente, ElegidoSiempre DEF sesion, bd, Ventas
<1>2. \A d \in Clientes : /\ Cardinality(Compras(al_servidor[d])) \in Nat
                          /\ UnaVez(al_cliente[d]) /\ Noticias(al_cliente[d]) \subseteq PorAvisar(d)
  BY <1>0, Recontadas, Escrituras DEF Ventas, Suelta
\* What is the same for all of them, and what is not.
<1>3. ASSUME UNCHANGED pedidas,
             \A d \in Clientes :
               /\ confirmados'[d] \subseteq confirmados[d]
               /\ al_cliente'[d] = al_cliente[d] \/ al_cliente'[d] = <<>>
               /\ \/ al_servidor'[d] = al_servidor[d]
                  \/ al_servidor'[d] = <<>>
                  \/ /\ Cardinality(Compras(al_servidor'[d])) = Cardinality(Compras(al_servidor[d]))
                     /\ Pedidos(al_servidor'[d]) = Pedidos(al_servidor[d])
      PROVE  Ventas' /\ R!Next
  <2> SUFFICES ASSUME NEW d \in Clientes
               PROVE  /\ Cardinality(Compras(al_servidor'[d])) <= Cardinality(Compras(al_servidor[d]))
                      /\ Pedidos(al_servidor'[d]) \subseteq Pedidos(al_servidor[d])
                      /\ UnaVez(al_cliente'[d])
                      /\ Noticias(al_cliente'[d]) \subseteq Noticias(al_cliente[d])
    BY <1>0, <1>1, <1>2, <1>3, VentasMenos
  <2>1. /\ Cardinality(Compras(al_servidor'[d])) <= Cardinality(Compras(al_servidor[d]))
        /\ Pedidos(al_servidor'[d]) \subseteq Pedidos(al_servidor[d])
    BY <1>2, <1>3, SinCompras
  <2>2. UnaVez(al_cliente'[d]) /\ Noticias(al_cliente'[d]) \subseteq Noticias(al_cliente[d])
    BY <1>2, <1>3, SinNoticias
  <2> QED BY <2>1, <2>2
<1>4. CASE Conectar(c, e)
  BY <1>3, <1>4 DEF Conectar
<1>5. CASE Terminar(c)
  <2>1. /\ \A d \in Clientes : al_cliente'[d] = al_cliente[d] \/ al_cliente'[d] = <<>>
        /\ \A d \in Clientes : confirmados'[d] = confirmados[d] \/ confirmados'[d] = {}
    <3>1. /\ confirmados' = [confirmados EXCEPT ![c] = {}]
          /\ al_cliente' = [al_cliente EXCEPT ![c] = <<>>]
      BY <1>5 DEF Terminar
    <3> QED BY <1>0, <3>1 DEF RedTypeOK, ControladorTypeOK
  <2>2. \A d \in Clientes : al_servidor'[d] = al_servidor[d] \/ al_servidor'[d] = <<>>
    BY <1>0, <1>5 DEF Terminar, RedTypeOK
  <2>3. UNCHANGED pedidas
    BY <1>5 DEF Terminar
  <2> QED BY <1>3, <2>1, <2>2, <2>3
<1>6. CASE Cancelar(c) \/ CambiarUsuario(c)
  BY <1>3, <1>6 DEF Cancelar, CambiarUsuario, red
<1>7. ASSUME NEW p \in Peticion, PideOtra(c, p)
      PROVE  Ventas' /\ R!Next
  <2>1. al_servidor[c] \in Seq(Peticion)
    BY <1>0 DEF RedTypeOK
  <2>2. /\ Cardinality(Compras(Append(al_servidor[c], p))) = Cardinality(Compras(al_servidor[c]))
        /\ Pedidos(Append(al_servidor[c], p)) = Pedidos(al_servidor[c])
    BY <1>7, <2>1, ComprasMas DEF PideOtra
  <2>3. \A d \in Clientes : \/ al_servidor'[d] = al_servidor[d]
                            \/ d = c /\ al_servidor'[d] = Append(al_servidor[c], p)
    BY <1>0, <1>7 DEF PideOtra, Pedir, RedTypeOK
  <2>4. UNCHANGED <<pedidas, confirmados, al_cliente>>
    BY <1>7 DEF PideOtra, Pedir
  <2> QED BY <1>3, <2>2, <2>3, <2>4
<1>8. CASE RecibirRespuesta(c)
  BY <1>0, <1>1, <1>8, VentasLeer
<1>9. CASE Confirmar(c)
  BY <1>0, <1>1, <1>9, VentasPedir
<1> QED BY <1>0, <1>4, <1>5, <1>6, <1>7, <1>8, <1>9, ComprasDelCliente

----------------------------------------------------------------------------
(* The steps of the server *)

\* Only a purchase sells, one ticket, and only its answer tells of one.
LEMMA LoQueSeVende ==
  ASSUME ServidorTypeOK, NEW p \in Seq(Peticion), Len(p) >= 1, procesarPeticion(p)
  PROVE  \/ Comprados(respuesta') = {} /\ UNCHANGED <<billete, borrado>>
         \/ /\ p[1].op = "COMPRAR_BILLETE" /\ p[1].arg \in Vuelos
            /\ billete' = billete_insertar(billete, p[1].id, p[1].arg)
            /\ billete'.seq = billete.seq + 1
            /\ Comprados(respuesta') = {billete'.seq}
            /\ UNCHANGED borrado
<1>1. \A t, v, b : Comprados(Responder(t, p, v, b)) = IF t = "OK" THEN b ELSE {}
  BY DEF Comprados, Responder
<1>2. Comprados(Error(p)) = {}
  BY <1>1 DEF Error
<1>3. CASE procesarLogin(p)
  BY <1>1, <1>2, <1>3 DEF procesarLogin, bd
<1>4. CASE Listar(p)
  BY <1>1, <1>4 DEF Listar, bd
<1>5. CASE BuscarVuelo(p) \/ BuscarVuelosOrigenDestino(p)
  BY <1>1, <1>2, <1>5 DEF BuscarVuelo, BuscarVuelosOrigenDestino, bd
<1>6. CASE CargarCSV(p)
  BY <1>1, <1>6 DEF CargarCSV
<1>7. CASE ComprarBillete(p)
  <2>1. \/ Comprados(respuesta') = {} /\ UNCHANGED <<billete, borrado>>
        \/ /\ p[1].op = "COMPRAR_BILLETE" /\ p[1].arg \in vuelos
           /\ billete' = billete_insertar(billete, p[1].id, p[1].arg)
           /\ Comprados(respuesta') = {billete'.seq}
           /\ UNCHANGED borrado
    BY <1>1, <1>2, <1>7 DEF ComprarBillete, Es
  <2>2. billete_insertar(billete, p[1].id, p[1].arg).seq = billete.seq + 1
    BY DEF billete_insertar, Insertar
  <2>3. vuelos \subseteq Vuelos
    BY DEF ServidorTypeOK
  <2> QED BY <2>1, <2>2, <2>3
<1>8. CASE VerMisBilletes(p)
  BY <1>1, <1>2, <1>8 DEF VerMisBilletes, bd
<1>9. CASE Salir(p) \/ NoReconocida(p) \/ SinMemoria(p)
  BY <1>1, <1>2, <1>9 DEF Salir, NoReconocida, SinMemoria, bd
<1> QED BY <1>3, <1>4, <1>5, <1>6, <1>7, <1>8, <1>9 DEF procesarPeticion

\* The requests taken and the ones they leave.
LEMMA LoQueSeRecibe ==
  ASSUME RedTypeOK, NEW c \in Clientes, NEW p \in Prefijos(al_servidor[c]),
         al_servidor' = [al_servidor EXCEPT ![c] = Resto(@, p)]
  PROVE  /\ p \in Seq(Peticion) /\ Len(p) >= 1
         /\ \A d \in Clientes :
              /\ Cardinality(Compras(al_servidor'[d])) <= Cardinality(Compras(al_servidor[d]))
              /\ Pedidos(al_servidor'[d]) \subseteq Pedidos(al_servidor[d])
              /\ d # c => al_servidor'[d] = al_servidor[d]
         /\ p[1].op = "COMPRAR_BILLETE" =>
              /\ Cardinality(Compras(al_servidor'[c])) + 1 <= Cardinality(Compras(al_servidor[c]))
              /\ p[1].arg \in Pedidos(al_servidor[c])
<1>1. al_servidor[c] \in Seq(Peticion)
  BY DEF RedTypeOK
<1>2. p \in Seq(Peticion) /\ Len(p) >= 1
  BY <1>1, Recv
<1>3. /\ al_servidor'[c] = Resto(al_servidor[c], p)
      /\ \A d \in Clientes : d # c => al_servidor'[d] = al_servidor[d]
  BY DEF RedTypeOK
<1>4. \A d \in Clientes : Cardinality(Compras(al_servidor[d])) \in Nat
  BY ComprasFinitas DEF RedTypeOK
<1>5. ASSUME NEW d \in Clientes
      PROVE  /\ Cardinality(Compras(al_servidor'[d])) <= Cardinality(Compras(al_servidor[d]))
             /\ Pedidos(al_servidor'[d]) \subseteq Pedidos(al_servidor[d])
  <2>1. CASE d = c
    BY <1>1, <1>3, <2>1, ComprasMenos
  <2>2. CASE d # c
    BY <1>3, <1>4, <2>2
  <2> QED BY <2>1, <2>2
<1>6. p[1].op = "COMPRAR_BILLETE" =>
        /\ Cardinality(Compras(al_servidor'[c])) + 1 <= Cardinality(Compras(al_servidor[c]))
        /\ p[1].arg \in Pedidos(al_servidor[c])
  BY <1>1, <1>3, ComprasMenos
<1> QED BY <1>2, <1>3, <1>5, <1>6

\* A sale: one of the purchases in the socket of the client being served.
LEMMA VentasVender ==
  ASSUME ComprasInv, UNCHANGED cliente, NEW c \in Clientes, c = atendido, servidor = "recv",
         servidor' = "enviar", UNCHANGED <<cola, atendido, abierto, al_cliente, pedidas>>,
         NEW p \in Prefijos(al_servidor[c]),
         al_servidor' = [al_servidor EXCEPT ![c] = Resto(@, p)], RedTypeOK',
         p[1].op = "COMPRAR_BILLETE", p[1].arg \in Vuelos,
         billete' = billete_insertar(billete, p[1].id, p[1].arg),
         billete'.seq = billete.seq + 1,
         Comprados(respuesta') = {billete'.seq}, UNCHANGED borrado
  PROVE  Ventas' /\ R!Next
<1>0. Ventas /\ RedTypeOK /\ ServidorTypeOK /\ SesionInv
  BY DEF ComprasInv, SesionInv, ConversacionInv, EsperaInv, TypeOK
<1>1. Comprados(respuesta) = {}
  BY <1>0 DEF Ventas
<1>2. /\ billete.seq \in Nat /\ borrado \in Nat /\ pedidas \in Nat
      /\ \A d \in Clientes : /\ Cardinality(Compras(al_servidor[d])) \in Nat
                             /\ Cardinality(Compras(al_servidor'[d])) \in Nat
  <2>1. \A d \in Clientes : al_servidor'[d] \in Seq(Peticion)
    BY DEF RedTypeOK
  <2> QED BY <1>0, <2>1, Recontadas, ComprasFinitas
<1>3. /\ \A d \in Clientes : d # c => al_servidor'[d] = al_servidor[d]
      /\ \A d \in Clientes : Pedidos(al_servidor'[d]) \subseteq Pedidos(al_servidor[d])
      /\ Cardinality(Compras(al_servidor'[c])) + 1 <= Cardinality(Compras(al_servidor[c]))
      /\ p[1].arg \in Pedidos(al_servidor[c])
  BY <1>0, LoQueSeRecibe
<1>4. \A d \in Clientes : billete.seq + Cardinality(Compras(al_servidor[d])) <= pedidas
  BY <1>0, Escrituras DEF Ventas, ComprasContadas
<1>5. billete.seq < pedidas
  BY <1>2, <1>3, <1>4
<1>6. ComprasContadas'
  <2> SUFFICES ASSUME NEW d \in Clientes PROVE billete.seq + 1 + EnCamino(d)' <= pedidas
    BY DEF ComprasContadas
  <2>1. EnCamino(d)' = Cardinality(Compras(al_servidor'[d]))
    BY DEF EnCamino, Compras
  <2>2. CASE d = c
    BY <1>2, <1>3, <1>4, <2>1, <2>2
  <2>3. CASE d # c
    <3>1. Cardinality(Compras(al_servidor'[d])) = 0
      BY <1>0, <1>3, <2>3, SoloElAtendido
    <3> QED BY <1>2, <1>5, <2>1, <3>1
  <2> QED BY <2>2, <2>3
<1>7. \A d \in Clientes : Suelta(d)'
  <2> SUFFICES ASSUME NEW d \in Clientes
               PROVE  /\ Noticias(al_cliente[d]) \subseteq 1..billete'.seq
                      /\ billete'.seq \notin Noticias(al_cliente[d])
    BY <1>0 DEF Ventas, Suelta, UnaVez, Noticias, Comprados
  <2>1. Noticias(al_cliente[d]) \subseteq 1..billete.seq
    BY <1>0 DEF Ventas, Suelta
  <2>2. 1..billete.seq \subseteq 1..billete'.seq /\ billete'.seq \notin 1..billete.seq
    BY <1>2
  <2> QED BY <2>1, <2>2
<1>8. Ventas'
  <2>1. Comprados(respuesta') \subseteq 1..billete'.seq
    BY <1>2
  <2>2. borrado <= billete'.seq /\ billete'.seq <= pedidas
    BY <1>0, <1>2, <1>5 DEF Ventas
  <2>3. \A d \in Clientes : Elegido(d)'
    BY <1>0 DEF Ventas, Elegido, cliente
  <2> QED BY <1>6, <1>7, <2>1, <2>2, <2>3 DEF Ventas, Comprados
<1>9. R!Vender(c, p[1].arg)
  <2>1. \A d \in Clientes : /\ Encargos(d) = Pedidos(al_servidor[d])
                            /\ Encargos(d)' = Pedidos(al_servidor'[d])
    BY DEF Encargos, Pedidos, Compras
  <2>2. [d \in Clientes |-> PorAvisar(d)]'
          = [[d \in Clientes |-> PorAvisar(d)] EXCEPT ![c] = @ \cup {billete'.seq}]
    <3>1. \A d \in Clientes \ {c} : PorAvisar(d)' = PorAvisar(d)
      BY DEF PorAvisar, Comprados
    <3>2. PorAvisar(c)' = PorAvisar(c) \cup {billete'.seq}
      <4>1. (UNION {Comprados(al_cliente[c][i].r) : i \in DOMAIN al_cliente[c]})'
              = Noticias(al_cliente'[c])
        BY Zenon DEF Noticias, Comprados
      <4>2. Comprados(respuesta)' = {billete'.seq}
        BY Zenon DEF Comprados
      <4>3. PorAvisar(c)' = Noticias(al_cliente[c]) \cup {billete'.seq}
        BY <4>1, <4>2 DEF PorAvisar
      <4> QED BY <1>1, <4>3, Escrituras
    <3> QED BY <3>1, <3>2
  <2>3. {[id |-> f.id, vuelo |-> f.id_vuelo] : f \in billete'.filas}
          = {[id |-> f.id, vuelo |-> f.id_vuelo] : f \in billete.filas}
              \cup {[id |-> billete'.seq, vuelo |-> p[1].arg]}
    <3> DEFINE fila == [id |-> billete.seq + 1, id_usuario |-> p[1].id, id_vuelo |-> p[1].arg]
    <3>1. billete'.filas = billete.filas \cup {fila}
      BY DEF billete_insertar, Insertar
    <3>2. fila.id = billete'.seq /\ fila.id_vuelo = p[1].arg
      OBVIOUS
    <3> HIDE DEF fila
    <3> QED BY <3>1, <3>2
  <2>4. UNCHANGED <<pedidas, borrado, confirmados>>
    BY DEF cliente
  <2> QED BY <1>3, <1>5, <2>1, <2>2, <2>3, <2>4 DEF R!Vender, R!SoloMenos, R!Billete
<1> QED BY <1>8, <1>9 DEF R!Next

\* A server starts, with the tickets cleared or locked by the console.
LEMMA VentasLimpiar ==
  ASSUME ComprasInv, SesionInv', UNCHANGED <<red, pedidas, respuesta, cliente>>, Limpiar,
         servidor' = servidor \/ servidor # "enviar"
  PROVE  Ventas' /\ R!Next
<1>0. /\ Ventas /\ RedTypeOK /\ ServidorTypeOK /\ ControladorTypeOK
      /\ RedTypeOK' /\ ServidorTypeOK' /\ ControladorTypeOK'
  BY DEF ComprasInv, SesionInv, ConversacionInv, EsperaInv, TypeOK
<1>1. \A d \in Clientes : Elegido(d)'
  BY <1>0 DEF Ventas, Elegido, cliente
<1>2. UNCHANGED <<cola, atendido, abierto, al_servidor, al_cliente, confirmados>>
  BY DEF red, cliente
<1>3. CASE UNCHANGED <<billete, borrado>>
  <2>1. \A d \in Clientes : /\ Cardinality(Compras(al_servidor[d])) \in Nat
                            /\ UnaVez(al_cliente[d])
                            /\ Noticias(al_cliente[d]) \subseteq PorAvisar(d)
    BY <1>0, Recontadas, Escrituras DEF Ventas, Suelta
  <2>2. Comprados(respuesta') = {} \/ UNCHANGED <<servidor, respuesta, atendido>>
    BY <1>0, <1>2 DEF Ventas
  <2>3. \A d \in Clientes :
          Cardinality(Compras(al_servidor'[d])) <= Cardinality(Compras(al_servidor[d]))
    BY <1>2, <2>1
  <2> QED BY <1>0, <1>1, <1>2, <1>3, <2>1, <2>2, <2>3, VentasMenos
<1>4. CASE billete' = db_limpiar_billetes(billete) /\ borrado' = billete.seq
  <2>1. billete'.seq = billete.seq /\ billete'.filas = {} /\ billete.seq \in Nat
    BY <1>0, <1>4 DEF db_limpiar_billetes, ServidorTypeOK, Tabla
  <2>2. ComprasContadas'
    BY <1>0, <1>2, <2>1 DEF Ventas, ComprasContadas, EnCamino
  <2>3. \A d \in Clientes : Suelta(d)'
    BY <1>0, <1>2, <2>1 DEF Ventas, Suelta, UnaVez, Noticias, Comprados
  <2>4. borrado' <= billete'.seq
    BY <1>4, <2>1
  <2>5. Ventas'
    BY <1>0, <1>1, <2>1, <2>2, <2>3, <2>4 DEF Ventas, Comprados
  <2>6. /\ \A d \in Clientes : PorAvisar(d)' = PorAvisar(d)
        /\ \A d \in Clientes : Encargos(d)' = Encargos(d)
    BY <1>2 DEF PorAvisar, Encargos, Comprados
  <2>7. {[id |-> f.id, vuelo |-> f.id_vuelo] : f \in billete'.filas} = {}
    BY <2>1
  <2>8. R!Borrar
    <3>1. [d \in Clientes |-> PorAvisar(d)]' = [d \in Clientes |-> PorAvisar(d)]
      BY <2>6
    <3>2. [d \in Clientes |-> Encargos(d)]' = [d \in Clientes |-> Encargos(d)]
      BY <2>6
    <3> QED BY <1>2, <1>4, <2>1, <2>7, <3>1, <3>2 DEF R!Borrar
  <2> QED BY <2>5, <2>8 DEF R!Next
<1> QED BY <1>3, <1>4 DEF Limpiar

\* An answer on its way is news that could be told already.
LEMMA VentasEnviar ==
  ASSUME ComprasInv, Enviar, NEW d \in Clientes
  PROVE  UnaVez(al_cliente'[d]) /\ Noticias(al_cliente'[d]) \subseteq PorAvisar(d)
<1>0. /\ RedTypeOK /\ ServidorTypeOK /\ Suelta(d)
      /\ servidor \in {"recv", "enviar"} <=> atendido # NADIE
  BY DEF ComprasInv, Ventas, SesionInv, ConversacionInv, EsperaInv, TypeOK
<1>1. CASE al_cliente'[d] = al_cliente[d]
  BY <1>0, <1>1, Escrituras DEF Suelta
<1>2. CASE al_cliente'[d] # al_cliente[d]
  <2>1. PICK corte \in Cortes(respuesta) :
          al_cliente' = [al_cliente EXCEPT ![atendido] = @ \o corte]
    BY <1>2 DEF Enviar
  <2>2. d = atendido /\ al_cliente'[d] = al_cliente[d] \o corte
    BY <1>0, <1>2, <2>1 DEF RedTypeOK
  <2>3. /\ al_cliente[d] \in Seq(Trozo) /\ respuesta \in Respuesta
        /\ UnaVez(al_cliente[d]) /\ Noticias(al_cliente[d]) \cap Comprados(respuesta) = {}
    BY <1>0, <2>2 DEF RedTypeOK, ServidorTypeOK, Suelta
  <2>4. /\ Noticias(al_cliente[d] \o corte) \subseteq Noticias(al_cliente[d]) \cup Comprados(respuesta)
        /\ UnaVez(al_cliente[d] \o corte)
    BY <2>1, <2>3, NoticiasEnviadas
  <2> QED BY <2>2, <2>4, Escrituras
<1> QED BY <1>1, <1>2

LEMMA VentasServidor ==
  ASSUME ComprasInv, SesionInv', ServidorNext, UNCHANGED cliente
  PROVE  Ventas' /\ R!Next
<1>0. /\ Ventas /\ RedTypeOK /\ ServidorTypeOK /\ ControladorTypeOK
      /\ RedTypeOK' /\ ServidorTypeOK' /\ ControladorTypeOK'
      /\ servidor \in {"recv", "enviar"} <=> atendido # NADIE
  BY DEF ComprasInv, SesionInv, ConversacionInv, EsperaInv, TypeOK
<1>1. /\ UNCHANGED <<confirmados, pc, codigo>>
      /\ \A d \in Clientes : Elegido(d)'
  BY <1>0 DEF Ventas, Elegido, cliente
<1>2. \A d \in Clientes : /\ Cardinality(Compras(al_servidor[d])) \in Nat
                          /\ UnaVez(al_cliente[d]) /\ Noticias(al_cliente[d]) \subseteq PorAvisar(d)
  BY <1>0, Recontadas, Escrituras DEF Ventas, Suelta
<1>3. Comprados(SIN_RESPUESTA) = {}
  BY DEF Comprados, SIN_RESPUESTA, Error, Responder
\* With no ticket to tell of and requests that may only be fewer.
<1>4. ASSUME UNCHANGED <<pedidas, billete, borrado>>, Comprados(respuesta') = {},
             \A d \in Clientes :
               /\ UnaVez(al_cliente'[d]) /\ Noticias(al_cliente'[d]) \subseteq PorAvisar(d)
               /\ al_servidor'[d] = al_servidor[d] \/ al_servidor'[d] = <<>>
      PROVE  Ventas' /\ R!Next
  <2>1. \A d \in Clientes :
          /\ Cardinality(Compras(al_servidor'[d])) <= Cardinality(Compras(al_servidor[d]))
          /\ Pedidos(al_servidor'[d]) \subseteq Pedidos(al_servidor[d])
    BY <1>2, <1>4, SinCompras
  <2> QED BY <1>0, <1>1, <1>4, <2>1, VentasMenos
<1>5. CASE Aceptar
  <2>1. /\ servidor # "enviar"
        /\ UNCHANGED <<al_servidor, al_cliente, pedidas, respuesta, billete, borrado>>
    BY <1>5 DEF Aceptar, bd
  <2> QED BY <1>0, <1>2, <1>4, <2>1 DEF Ventas
<1>6. CASE Recibir
  <2>0. atendido \in Clientes
    BY <1>0, <1>6 DEF Recibir, RedTypeOK
  <2>1. PICK p \in Prefijos(al_servidor[atendido]) :
          /\ al_servidor' = [al_servidor EXCEPT ![atendido] = Resto(@, p)]
          /\ procesarPeticion(p)
    BY <1>6 DEF Recibir
  <2>2. /\ servidor = "recv" /\ servidor' = "enviar"
        /\ UNCHANGED <<cola, atendido, abierto, al_cliente, pedidas>>
    BY <1>6 DEF Recibir
  <2>3. /\ p \in Seq(Peticion) /\ Len(p) >= 1
        /\ \A d \in Clientes :
             /\ Cardinality(Compras(al_servidor'[d])) <= Cardinality(Compras(al_servidor[d]))
             /\ Pedidos(al_servidor'[d]) \subseteq Pedidos(al_servidor[d])
    BY <1>0, <2>0, <2>1, LoQueSeRecibe
  <2>4. CASE Comprados(respuesta') = {} /\ UNCHANGED <<billete, borrado>>
    BY <1>0, <1>1, <1>2, <2>2, <2>3, <2>4, VentasMenos
  <2>5. CASE /\ p[1].op = "COMPRAR_BILLETE" /\ p[1].arg \in Vuelos
             /\ billete' = billete_insertar(billete, p[1].id, p[1].arg)
             /\ billete'.seq = billete.seq + 1
             /\ Comprados(respuesta') = {billete'.seq}
             /\ UNCHANGED borrado
    BY <1>0, <2>0, <2>1, <2>2, <2>5, VentasVender
  <2> QED BY <1>0, <2>1, <2>3, <2>4, <2>5, LoQueSeVende
<1>7. CASE Enviar
  <2>1. \A d \in Clientes :
          UnaVez(al_cliente'[d]) /\ Noticias(al_cliente'[d]) \subseteq PorAvisar(d)
    BY <1>7, VentasEnviar
  <2>2. \A d \in Clientes : al_servidor'[d] = al_servidor[d] \/ al_servidor'[d] = <<>>
    BY <1>0, <1>7 DEF Enviar, cerrarCliente, RedTypeOK
  <2>3. UNCHANGED <<pedidas, billete, borrado>> /\ respuesta' = SIN_RESPUESTA
    BY <1>7 DEF Enviar, bd
  <2> QED BY <1>3, <1>4, <2>1, <2>2, <2>3
<1>8. CASE Desconectado
  <2>1. /\ servidor # "enviar"
        /\ UNCHANGED <<al_cliente, pedidas, respuesta, billete, borrado>>
    BY <1>8 DEF Desconectado, bd
  <2>2. \A d \in Clientes : al_servidor'[d] = al_servidor[d] \/ al_servidor'[d] = <<>>
    BY <1>0, <1>8 DEF Desconectado, cerrarCliente, RedTypeOK
  <2> QED BY <1>0, <1>2, <1>4, <2>1, <2>2 DEF Ventas
<1>9. CASE Arrancar
  BY <1>9, VentasLimpiar DEF Arrancar
<1>10. CASE SegundoServidor
  BY <1>10, VentasLimpiar DEF SegundoServidor, sesion
<1>11. CASE Caer
  <2>1. /\ al_servidor' = [c \in Clientes |-> <<>>]
        /\ \E perdidos \in SUBSET Clientes :
             al_cliente' = [c \in Clientes |-> IF c \in perdidos THEN <<>> ELSE al_cliente[c]]
        /\ respuesta' = SIN_RESPUESTA
        /\ UNCHANGED <<pedidas, billete, borrado>>
    BY <1>11 DEF Caer
  <2>2. \A d \in Clientes : al_cliente'[d] = al_cliente[d] \/ al_cliente'[d] = <<>>
    BY <2>1
  <2>3. \A d \in Clientes :
          UnaVez(al_cliente'[d]) /\ Noticias(al_cliente'[d]) \subseteq PorAvisar(d)
    BY <1>2, <2>2, SinNoticias
  <2> QED BY <1>3, <1>4, <2>1, <2>3
\* The console.
<1>12. CASE UNCHANGED <<red, pedidas, sesion, billete, borrado>>
  <2>1. UNCHANGED <<cola, atendido, abierto, al_servidor, al_cliente, servidor, respuesta>>
    BY <1>12 DEF red, sesion
  <2>2. \A d \in Clientes :
          Cardinality(Compras(al_servidor'[d])) <= Cardinality(Compras(al_servidor[d]))
    BY <1>2, <2>1
  <2> QED BY <1>0, <1>1, <1>2, <1>12, <2>1, <2>2, VentasMenos
<1> QED BY <1>5, <1>6, <1>7, <1>8, <1>9, <1>10, <1>11, <1>12 DEF ServidorNext, PasoServidor,
      ConsolaEmpieza, ConsolaInserta, ConsolaTermina

----------------------------------------------------------------------------
(* Every behaviour of Airflow is one of Reservas *)

LEMMA ComprasInicial == Init => ComprasInv /\ R!Init
<1> SUFFICES ASSUME Init PROVE ComprasInv /\ R!Init
  OBVIOUS
<1>1. SesionInv
  BY SesionInicial
<1>2. /\ al_servidor = [c \in Clientes |-> <<>>] /\ al_cliente = [c \in Clientes |-> <<>>]
      /\ pedidas = 0 /\ servidor # "enviar" /\ respuesta = SIN_RESPUESTA
      /\ billete.filas = {} /\ billete.seq = 0 /\ borrado = 0
      /\ confirmados = [c \in Clientes |-> {}] /\ \A c \in Clientes : pc[c] = "login"
  BY DEF Init, RedInit, ServidorInit, ControladorInit, TablaVacia
<1>3. Comprados(respuesta) = {}
  BY <1>2 DEF Comprados, SIN_RESPUESTA, Error, Responder
<1>4. \A c \in Clientes : EnCamino(c) = 0 /\ Encargos(c) = {} /\ PorAvisar(c) = {}
  BY <1>2, <1>3, SinCompras, SinNoticias, Escrituras
<1>5. \A c \in Clientes : Suelta(c) /\ Elegido(c)
  BY <1>2, <1>3, SinNoticias DEF Suelta, Elegido
<1>6. Ventas
  BY <1>2, <1>3, <1>4, <1>5 DEF Ventas, ComprasContadas
<1>7. R!Init
  BY <1>2, <1>4 DEF R!Init
<1> QED BY <1>1, <1>6, <1>7 DEF ComprasInv

LEMMA ComprasPaso ==
  ASSUME ComprasInv, [Next]_vars
  PROVE  ComprasInv' /\ [R!Next]_R!vars
<1>1. SesionInv'
  BY SesionPaso DEF ComprasInv
<1>2. CASE UNCHANGED vars
  <2>1. UNCHANGED <<cola, atendido, abierto, al_servidor, al_cliente, pedidas, servidor,
                    respuesta, billete, borrado, confirmados, pc, codigo>>
    BY <1>2 DEF vars, red, sesion, bd, cliente
  <2>2. Ventas'
    <3>1. ComprasContadas' /\ \A c \in Clientes : Suelta(c)' /\ Elegido(c)'
      BY <2>1 DEF ComprasInv, Ventas, ComprasContadas, EnCamino, Suelta, Elegido, UnaVez,
           Noticias, Comprados
    <3> QED BY <2>1, <3>1 DEF ComprasInv, Ventas, Comprados
  <2>3. UNCHANGED R!vars
    <3>1. \A c \in Clientes : Encargos(c)' = Encargos(c) /\ PorAvisar(c)' = PorAvisar(c)
      BY <2>1 DEF Encargos, PorAvisar, Comprados
    <3>2. UNCHANGED <<[c \in Clientes |-> Encargos(c)], [c \in Clientes |-> PorAvisar(c)]>>
      BY <3>1
    <3> QED BY <2>1, <3>2 DEF R!vars
  <2> QED BY <1>1, <2>2, <2>3 DEF ComprasInv
<1>3. CASE ServidorNext /\ UNCHANGED cliente
  BY <1>1, <1>3, VentasServidor DEF ComprasInv
<1>4. CASE (\E c \in Clientes : ClienteNext(c, servidor # "apagado")) /\ UNCHANGED <<sesion, bd>>
  <2>1. PICK c \in Clientes : ClienteNext(c, servidor # "apagado")
    BY <1>4
  <2>2. (servidor # "apagado") \in BOOLEAN
    OBVIOUS
  <2> QED BY <1>1, <1>4, <2>1, <2>2, VentasCliente DEF ComprasInv
<1> QED BY <1>2, <1>3, <1>4 DEF Next

\* Each request to buy is one ticket at most, whatever is lost, joined or late.
THEOREM ComprasSiempreContadas == Spec => []ComprasContadas
<1>1. ComprasInv => ComprasContadas
  BY DEF ComprasInv, Ventas
<1>2. Init => ComprasInv
  BY ComprasInicial
<1>3. ComprasInv /\ [Next]_vars => ComprasInv'
  BY ComprasPaso
<1> QED BY <1>1, <1>2, <1>3, PTL DEF Spec

\* Airflow, with its sockets, menus and locks, implements Reservas.
THEOREM AirflowImplementaReservas == Spec => ImplementaReservas
<1>1. Init => ComprasInv /\ R!Init
  BY ComprasInicial
<1>2. ComprasInv /\ [Next]_vars => ComprasInv' /\ [R!Next]_R!vars
  BY ComprasPaso
<1> QED BY <1>1, <1>2, PTL DEF Spec, ImplementaReservas, R!Spec

----------------------------------------------------------------------------
(* What Reservas promises, Airflow keeps *)

\* What Airflow's state is in Reservas, as R maps it.
vendidos == {[id |-> f.id, vuelo |-> f.id_vuelo] : f \in billete.filas}
ultimo == billete.seq
porAvisar == [c \in Clientes |-> PorAvisar(c)]

\* Every client has its tickets and its news: R!SoloMenos keeps it.
Tipos ==
  /\ pedidas \in Nat /\ ultimo \in Nat /\ borrado \in Nat
  /\ DOMAIN confirmados = Clientes /\ DOMAIN porAvisar = Clientes

\* R!CadaUnoElSuyo bounds the numbers of what was told, so that a ticket sold
\* next is nobody's, and what is cleared is all there was.
ReservasInv == Tipos /\ R!CadaUnoElSuyo /\ R!AvisadoGuardado

USE DEF vendidos, ultimo, porAvisar

\* These lemmas are about Reservas alone, whatever step of Airflow is mapped.
LEMMA ReservasInicial == R!Init => ReservasInv
BY DEF R!Init, ReservasInv, Tipos, R!CadaUnoElSuyo, R!AvisadoGuardado, R!Suyos

\* With no more news than before and no fewer tickets, nothing is lost.
LEMMA Conserva ==
  ASSUME ReservasInv, Tipos',
         \A c \in Clientes : confirmados'[c] \subseteq confirmados[c] /\ porAvisar'[c] \subseteq porAvisar[c],
         UNCHANGED <<ultimo, vendidos, borrado>>, ultimo <= pedidas'
  PROVE  ReservasInv'
<1>1. \A c \in Clientes : R!Suyos(c)' \subseteq R!Suyos(c)
  BY DEF R!Suyos
<1>2. R!CadaUnoElSuyo'
  BY <1>1 DEF ReservasInv, R!CadaUnoElSuyo
<1>3. R!AvisadoGuardado'
  BY <1>1 DEF ReservasInv, R!AvisadoGuardado, R!Billete
<1> QED BY <1>2, <1>3 DEF ReservasInv

LEMMA ReservasPaso == ReservasInv /\ [R!Next]_R!vars => ReservasInv'
<1> SUFFICES ASSUME ReservasInv, [R!Next]_R!vars PROVE ReservasInv'
  OBVIOUS
<1> USE DEF ReservasInv
<1>1. ASSUME NEW c \in Clientes, NEW v \in Vuelos, R!Encargar(c, v) PROVE ReservasInv'
  <2>1. pedidas' \in Nat /\ ultimo <= pedidas'
    BY <1>1 DEF R!Encargar, Tipos, R!CadaUnoElSuyo
  <2>2. UNCHANGED <<vendidos, ultimo, borrado, porAvisar, confirmados>>
    BY <1>1 DEF R!Encargar
  <2>3. Tipos'
    BY <2>1, <2>2 DEF Tipos
  <2> QED BY <2>1, <2>2, <2>3, Conserva
<1>2. ASSUME NEW c \in Clientes, NEW v \in Vuelos, R!Vender(c, v) PROVE ReservasInv'
  <2>1. /\ ultimo' = ultimo + 1 /\ ultimo < pedidas
        /\ vendidos' = vendidos \cup {R!Billete(ultimo', v)}
        /\ porAvisar' = [porAvisar EXCEPT ![c] = @ \cup {ultimo'}]
        /\ UNCHANGED <<pedidas, borrado, confirmados>>
    BY <1>2 DEF R!Vender
  <2>2. Tipos'
    BY <2>1 DEF Tipos
  <2>3. /\ R!Suyos(c)' = R!Suyos(c) \cup {ultimo'}
        /\ \A d \in Clientes \ {c} : R!Suyos(d)' = R!Suyos(d)
    BY <2>1 DEF R!Suyos, Tipos
  <2>4. \A d \in Clientes : R!Suyos(d) \subseteq 1..ultimo
    BY DEF R!CadaUnoElSuyo
  <2>5. ultimo' \notin 1..ultimo /\ 1..ultimo \subseteq 1..ultimo' /\ ultimo' \in 1..ultimo'
        /\ ultimo' <= pedidas'
    BY <2>1 DEF Tipos
  <2>6. \A d \in Clientes : ultimo' \notin R!Suyos(d) /\ R!Suyos(d) \subseteq 1..ultimo'
    BY <2>4, <2>5
  <2>7. R!CadaUnoElSuyo'
    <3>1. ASSUME NEW d \in Clientes, NEW e \in Clientes, d # e
          PROVE  R!Suyos(d)' \cap R!Suyos(e)' = {}
      BY <2>3, <2>6, <3>1 DEF R!CadaUnoElSuyo
    <3>2. ASSUME NEW d \in Clientes PROVE confirmados'[d] \cap porAvisar'[d] = {}
      <4>1. confirmados[d] \cap porAvisar[d] = {} /\ ultimo' \notin confirmados[d]
        BY <2>6 DEF R!CadaUnoElSuyo, R!Suyos
      <4> QED BY <2>1, <4>1 DEF Tipos
    <3>3. ASSUME NEW d \in Clientes PROVE R!Suyos(d)' \subseteq 1..ultimo'
      BY <2>3, <2>5, <2>6
    <3> QED BY <2>5, <3>1, <3>2, <3>3 DEF R!CadaUnoElSuyo
  <2>8. R!AvisadoGuardado'
    <3>1. \A b, w : R!Billete(b, w)' = R!Billete(b, w)
      BY DEF R!Billete
    <3>2. R!Billete(ultimo', v) \in vendidos' /\ vendidos \subseteq vendidos'
      BY <2>1
    <3>3. ASSUME NEW d \in Clientes, NEW b \in R!Suyos(d)'
          PROVE  b <= borrado' \/ \E w \in Vuelos : R!Billete(b, w) \in vendidos'
      <4>1. b = ultimo' \/ b \in R!Suyos(d)
        BY <2>3, <3>3
      <4> QED BY <2>1, <3>2, <4>1 DEF R!AvisadoGuardado
    <3> QED BY <3>1, <3>3 DEF R!AvisadoGuardado
  <2> QED BY <2>2, <2>7, <2>8
<1>3. ASSUME NEW c \in Clientes, R!Avisar(c) PROVE ReservasInv'
  <2>1. PICK b \in SUBSET porAvisar[c] :
          /\ confirmados' = [confirmados EXCEPT ![c] = @ \cup b]
          /\ porAvisar' = [porAvisar EXCEPT ![c] = @ \ b]
    BY <1>3 DEF R!Avisar
  <2>2. UNCHANGED <<pedidas, vendidos, ultimo, borrado>>
    BY <1>3 DEF R!Avisar
  <2>3. \A d \in Clientes : R!Suyos(d)' = R!Suyos(d)
    BY <2>1 DEF R!Suyos, Tipos
  <2>4. \A d \in Clientes : confirmados[d] \cap porAvisar[d] = {} => confirmados'[d] \cap porAvisar'[d] = {}
    BY <2>1 DEF Tipos
  <2>5. Tipos'
    BY <2>1, <2>2 DEF Tipos
  <2>6. R!CadaUnoElSuyo'
    BY <2>2, <2>3, <2>4 DEF R!CadaUnoElSuyo
  <2>7. R!AvisadoGuardado'
    BY <2>2, <2>3 DEF R!AvisadoGuardado, R!Billete
  <2> QED BY <2>5, <2>6, <2>7
<1>4. CASE R!Perder
  <2>1. Tipos' /\ ultimo <= pedidas'
    BY <1>4 DEF R!Perder, R!SoloMenos, Tipos, R!CadaUnoElSuyo
  <2> QED BY <1>4, <2>1, Conserva DEF R!Perder, R!SoloMenos
<1>5. CASE R!Borrar
  <2>1. Tipos' /\ \A d \in Clientes : R!Suyos(d)' = R!Suyos(d)
    BY <1>5 DEF R!Borrar, Tipos, R!Suyos
  <2>2. R!CadaUnoElSuyo'
    BY <1>5, <2>1 DEF R!Borrar, R!CadaUnoElSuyo
  <2>3. ASSUME NEW d \in Clientes, NEW b \in R!Suyos(d)' PROVE b <= borrado'
    <3>1. b \in 1..ultimo /\ borrado' = ultimo
      BY <1>5, <2>1, <2>3 DEF R!Borrar, R!CadaUnoElSuyo
    <3> QED BY <3>1
  <2> QED BY <2>1, <2>2, <2>3 DEF R!AvisadoGuardado
<1>6. CASE UNCHANGED R!vars
  <2>1. Tipos' /\ ultimo <= pedidas'
    BY <1>6 DEF R!vars, Tipos, R!CadaUnoElSuyo
  <2> QED BY <1>6, <2>1, Conserva DEF R!vars
<1> QED BY <1>1, <1>2, <1>3, <1>4, <1>5, <1>6 DEF R!Next

HIDE DEF vendidos, ultimo, porAvisar

PromesasInv == ComprasInv /\ ReservasInv

LEMMA PromesasInicial == Init => PromesasInv
BY ComprasInicial, ReservasInicial DEF PromesasInv

LEMMA PromesasPaso == PromesasInv /\ [Next]_vars => PromesasInv'
BY ComprasPaso, ReservasPaso DEF PromesasInv

\* No ticket is news for two clients, nor twice for one.
THEOREM CadaBilleteSiempreUno == Spec => []CadaBilleteUno
<1>1. PromesasInv => CadaBilleteUno
  BY DEF PromesasInv, ReservasInv, CadaBilleteUno
<1> QED BY <1>1, PromesasInicial, PromesasPaso, PTL DEF Spec

\* What a client was told it bought, or may be, is kept until a server starts.
THEOREM AvisadoSiempreGuardado == Spec => []R!AvisadoGuardado
<1>1. PromesasInv => R!AvisadoGuardado
  BY DEF PromesasInv, ReservasInv
<1> QED BY <1>1, PromesasInicial, PromesasPaso, PTL DEF Spec

\* What a client was told of is in the mapped Reservas, ticket by ticket.
LEMMA GuardadoPorPromesa == PromesasInv => ConfirmadoGuardado
<1> SUFFICES ASSUME PromesasInv, NEW c \in Clientes,
                    NEW b \in (confirmados[c] \cup Noticias(al_cliente[c])) \cup Comprados(respuesta)
             PROVE  b \in {f.id : f \in billete.filas} \/ b <= borrado
  BY Zenon DEF ConfirmadoGuardado, Noticias
<1>1. PICK d \in Clientes : b \in confirmados[d] \cup PorAvisar(d)
  <2>1. CASE b \in Comprados(respuesta)
    <3>1. servidor = "enviar" /\ atendido \in Clientes
      BY <2>1 DEF PromesasInv, ComprasInv, Ventas, SesionInv, ConversacionInv, EsperaInv,
           TypeOK, RedTypeOK
    <3> QED BY <2>1, <3>1, Escrituras
  <2>2. CASE b \notin Comprados(respuesta)
    <3>1. b \in confirmados[c] \cup Noticias(al_cliente[c])
      BY <2>2
    <3> QED BY <3>1, Escrituras
  <2> QED BY <2>1, <2>2
<1>2. b \in R!Suyos(d)
  BY <1>1 DEF R!Suyos
<1>3. b <= borrado \/ \E v \in Vuelos :
        [id |-> b, vuelo |-> v] \in {[id |-> f.id, vuelo |-> f.id_vuelo] : f \in billete.filas}
  BY <1>2 DEF PromesasInv, ReservasInv, R!AvisadoGuardado, R!Billete
<1>4. ASSUME NEW v \in Vuelos, NEW f \in billete.filas,
             [id |-> b, vuelo |-> v] = [id |-> f.id, vuelo |-> f.id_vuelo]
      PROVE  b = f.id
  BY <1>4
<1> QED BY <1>3, <1>4

\* A purchase that was, or is about to be, confirmed is a row of Billete or
\* was cleared.
THEOREM ConfirmadoSiempreGuardado == Spec => []ConfirmadoGuardado
BY GuardadoPorPromesa, PromesasInicial, PromesasPaso, PTL DEF Spec

----------------------------------------------------------------------------
(* What a client reads of its own tickets *)

\* The list r shows all of suyos that was not cleared.
Completa(suyos, desde, r) ==
  (r.tipo = "DATA" /\ r.a.op = "VER_MIS_BILLETES") =>
    {b \in suyos : b > desde} \subseteq r.billetes

\* The list may grow old on its way only if its client is told of a ticket
\* meanwhile, and that takes another answer, which is not there.
Leida(c) ==
  (abierto[c] /\ entero[c]) =>
    /\ EnMarcha(c) => Completa(confirmados[c], borrado, respuesta)
    /\ \A i \in DOMAIN al_cliente[c] : Completa(confirmados[c], borrado, al_cliente[c][i].r)

LecturasInv == PromesasInv /\ \A c \in Clientes : Leida(c)

\* A step that tells c nothing and gives it no answer.
LEMMA LeidaIgual ==
  ASSUME NEW c \in Clientes, Leida(c), borrado \in Nat, borrado' \in Nat, borrado <= borrado',
         confirmados[c] \in SUBSET Nat, confirmados'[c] \subseteq confirmados[c],
         (abierto'[c] /\ entero'[c]) => abierto[c] /\ entero[c],
         EnMarcha(c)' => EnMarcha(c) /\ respuesta' = respuesta,
         al_cliente'[c] = al_cliente[c] \/ al_cliente'[c] = <<>>
  PROVE  Leida(c)'
<1>1. ASSUME NEW r, Completa(confirmados[c], borrado, r)
      PROVE  Completa(confirmados'[c], borrado', r)
  <2>1. {b \in confirmados'[c] : b > borrado'} \subseteq {b \in confirmados[c] : b > borrado}
    <3> SUFFICES ASSUME NEW b \in confirmados[c], b > borrado' PROVE b > borrado
      OBVIOUS
    <3>1. b \in Nat
      OBVIOUS
    <3> QED BY <3>1
  <2> QED BY <1>1, <2>1 DEF Completa
<1>2. DOMAIN <<>> = {}
  OBVIOUS
<1>3. ASSUME abierto'[c], entero'[c], EnMarcha(c)'
      PROVE  Completa(confirmados'[c], borrado', respuesta')
  BY <1>1, <1>3 DEF Leida
<1>4. ASSUME abierto'[c], entero'[c], NEW i \in DOMAIN al_cliente'[c]
      PROVE  Completa(confirmados'[c], borrado', al_cliente'[c][i].r)
  <2>1. al_cliente'[c] = al_cliente[c]
    BY <1>2
  <2>2. Completa(confirmados[c], borrado, al_cliente[c][i].r)
    BY <1>4, <2>1 DEF Leida
  <2> QED BY <1>1, <2>1, <2>2
<1> QED BY <1>3, <1>4 DEF Leida, Completa

\* With no answer at hand there is nothing to be complete.
LEMMA LeidaSinNada ==
  ASSUME NEW c \in Clientes, al_cliente[c] = <<>>, ~EnMarcha(c)
  PROVE  Leida(c)
<1>1. DOMAIN <<>> = {}
  OBVIOUS
<1> QED BY <1>1 DEF Leida

\* A client is told of tickets by the only answer there is.
LEMMA LeidaCliente ==
  ASSUME LecturasInv, SesionInv', NEW c \in Clientes, NEW e \in BOOLEAN, ClienteNext(c, e),
         UNCHANGED <<sesion, bd>>, NEW d \in Clientes
  PROVE  Leida(d)'
<1>0. /\ RedTypeOK /\ ControladorTypeOK /\ ServidorTypeOK /\ Leida(d) /\ Conversacion(d)
      /\ Conversacion(d)' /\ ServidorTypeOK' /\ ControladorTypeOK'
  BY DEF LecturasInv, PromesasInv, ComprasInv, SesionInv, ConversacionInv, EsperaInv, TypeOK
<1>1. /\ UNCHANGED <<atendido, servidor, respuesta, borrado>>
      /\ EnMarcha(d)' <=> EnMarcha(d)
      /\ borrado \in Nat /\ confirmados[d] \in SUBSET Nat
  BY <1>0, TipoCliente DEF sesion, bd, EnMarcha, ServidorTypeOK, ControladorTypeOK
<1>2. borrado <= borrado'
  BY <1>1
\* What is the same for all of them, and what is not.
<1>3. ASSUME abierto'[d] => abierto[d], entero'[d] = entero[d],
             confirmados'[d] \subseteq confirmados[d],
             al_cliente'[d] = al_cliente[d] \/ al_cliente'[d] = <<>>
      PROVE  Leida(d)'
  BY <1>0, <1>1, <1>2, <1>3, LeidaIgual
<1>4. CASE Conectar(c, e)
  <2>1. CASE d = c
    <3>1. al_cliente'[d] = <<>> /\ ~EnMarcha(d)'
      BY <1>0, <1>1, <1>4, <2>1 DEF Conectar, Conversacion, EnMarcha, Conectado
    <3> QED BY <3>1 DEF Leida, Completa
  <2>2. CASE d # c
    BY <1>0, <1>3, <1>4, <2>2 DEF Conectar, RedTypeOK, ControladorTypeOK
  <2> QED BY <2>1, <2>2
<1>5. CASE Terminar(c)
  <2>1. /\ abierto'[d] => abierto[d]
        /\ entero' = entero
        /\ al_cliente'[d] = al_cliente[d] \/ al_cliente'[d] = <<>>
        /\ confirmados'[d] = confirmados[d] \/ confirmados'[d] = {}
    <3>1. /\ abierto' = [abierto EXCEPT ![c] = FALSE] /\ UNCHANGED entero
          /\ al_cliente' = [al_cliente EXCEPT ![c] = <<>>]
          /\ confirmados' = [confirmados EXCEPT ![c] = {}]
      BY <1>5 DEF Terminar
    <3>2. abierto'[d] => abierto[d]
      BY <1>0, <3>1 DEF RedTypeOK
    <3>3. al_cliente'[d] = al_cliente[d] \/ al_cliente'[d] = <<>>
      BY <1>0, <3>1 DEF RedTypeOK
    <3>4. confirmados'[d] = confirmados[d] \/ confirmados'[d] = {}
      BY <1>0, <3>1 DEF ControladorTypeOK
    <3> QED BY <3>1, <3>2, <3>3, <3>4
  <2> QED BY <1>3, <2>1
<1>6. CASE Cancelar(c) \/ CambiarUsuario(c)
  BY <1>3, <1>6 DEF Cancelar, CambiarUsuario, red
<1>7. ASSUME NEW p, Pedir(c, p) PROVE Leida(d)'
  BY <1>3, <1>7 DEF Pedir
<1>8. CASE RecibirRespuesta(c)
  <2>1. PICK texto : Contestar(c, texto)
    BY <1>8 DEF RecibirRespuesta
  <2>2. /\ UNCHANGED abierto /\ pendiente'[c] = NADA
        /\ d # c => entero'[d] = entero[d] /\ confirmados'[d] = confirmados[d]
    BY <1>0, <2>1 DEF Contestar, ControladorTypeOK
  <2>3. CASE d = c
    <3>1. NADA' = NADA
      BY DEF NADA, Orden, Texto
    <3>2. (abierto'[c] /\ entero'[c]) => al_cliente'[c] = <<>> /\ ~EnMarcha(c)'
      BY <1>0, <2>2, <2>3, <3>1 DEF Conversacion, UnSitio
    <3>3. DOMAIN <<>> = {}
      OBVIOUS
    <3> QED BY <2>3, <3>2, <3>3 DEF Leida
  <2>4. CASE d # c
    <3>1. al_cliente'[d] = al_cliente[d]
      BY <1>0, <1>8, <2>4 DEF RecibirRespuesta, RedTypeOK
    <3> QED BY <1>3, <2>2, <2>4, <3>1
  <2> QED BY <2>3, <2>4
<1>9. Confirmar(c) => \E p : Pedir(c, p)
  BY DEF Confirmar
<1> QED BY <1>0, <1>4, <1>5, <1>6, <1>7, <1>8, <1>9, ComprasDelCliente DEF PideOtra

\* The list is made of all the rows there are for the passenger, and what its
\* client was told of and is not cleared is one of them.
LEMMA LeidaServidor ==
  ASSUME LecturasInv, SesionInv', ServidorNext, UNCHANGED cliente, NEW d \in Clientes
  PROVE  Leida(d)'
<1>0. /\ RedTypeOK /\ ControladorTypeOK /\ ServidorTypeOK /\ Leida(d) /\ Ventas
      /\ ServidorTypeOK' /\ UNCHANGED <<entero, confirmados>>
      /\ servidor \in {"recv", "enviar"} <=> atendido # NADIE
  BY DEF LecturasInv, PromesasInv, ComprasInv, SesionInv, ConversacionInv, EsperaInv, TypeOK,
     cliente
<1>1. /\ borrado \in Nat /\ borrado' \in Nat /\ billete.seq \in Nat /\ borrado <= billete.seq
      /\ confirmados[d] \in SUBSET Nat
  BY <1>0, Recontadas DEF ServidorTypeOK, ControladorTypeOK, Ventas
<1>2. ASSUME UNCHANGED abierto, borrado' = borrado \/ borrado' = billete.seq,
             EnMarcha(d)' => EnMarcha(d) /\ respuesta' = respuesta,
             al_cliente'[d] = al_cliente[d] \/ al_cliente'[d] = <<>>
      PROVE  Leida(d)'
  <2>1. borrado <= borrado'
    BY <1>1, <1>2
  <2> QED BY <1>0, <1>1, <1>2, <2>1, LeidaIgual
<1>3. CASE Aceptar
  BY <1>2, <1>3 DEF Aceptar, EnMarcha, bd
<1>4. CASE Recibir
  <2>1. PICK p \in Prefijos(al_servidor[atendido]) : procesarPeticion(p)
    BY <1>4 DEF Recibir
  <2>2. /\ servidor = "recv" /\ UNCHANGED <<atendido, abierto, al_cliente>>
    BY <1>4 DEF Recibir
  <2>3. UNCHANGED borrado
    BY <2>1 DEF procesarPeticion, procesarLogin, Listar, BuscarVuelo, BuscarVuelosOrigenDestino,
         CargarCSV, ComprarBillete, VerMisBilletes, Salir, NoReconocida, SinMemoria, bd
  <2>4. Completa(confirmados[d], borrado, respuesta')
    <3>1. \A t, v, b : Responder(t, p, v, b).tipo = t /\ Responder(t, p, v, b).billetes = b
                      /\ Responder(t, p, v, b).a = p[1] /\ Error(p).tipo = "ERROR"
      BY DEF Responder, Error
    <3>2. CASE p[1].op # "VER_MIS_BILLETES"
      BY <2>1, <3>2, RespuestaDe DEF Completa
    <3>3. CASE VerMisBilletes(p)
      <4> DEFINE mios == {f.id : f \in {g \in billete.filas : g.id_usuario = idUsuarioActual}}
      <4>1. \/ respuesta' = Error(p)
            \/ idUsuarioActual > 0 /\ respuesta' = Responder("DATA", p, 0, mios)
        BY <3>3 DEF VerMisBilletes
      <4>2. CASE respuesta' = Error(p)
        BY <3>1, <4>2 DEF Completa
      <4>3. CASE idUsuarioActual > 0 /\ respuesta' = Responder("DATA", p, 0, mios)
        <5>1. idUsuarioActual = ID_PASAJERO
          BY <1>0, <4>3 DEF ServidorTypeOK
        <5>2. \A f \in billete.filas : f.id_usuario = ID_PASAJERO
          BY <1>0 DEF ServidorTypeOK, Tabla
        <5>3. ASSUME NEW b \in confirmados[d], b > borrado PROVE b \in mios
          <6>1. b \in {f.id : f \in billete.filas} \/ b <= borrado
            BY GuardadoPorPromesa DEF LecturasInv, ConfirmadoGuardado
          <6>2. ~(b <= borrado)
            BY <1>1, <5>3
          <6> QED BY <5>1, <5>2, <6>1, <6>2
        <5>4. respuesta'.billetes = mios
          BY <3>1, <4>3
        <5> HIDE DEF mios
        <5> QED BY <5>3, <5>4 DEF Completa
      <4> QED BY <4>1, <4>2, <4>3
    <3>4. p[1].op = "VER_MIS_BILLETES" => VerMisBilletes(p) \/ SinMemoria(p)
      BY <2>1 DEF procesarPeticion, procesarLogin, Listar, BuscarVuelo, BuscarVuelosOrigenDestino,
           CargarCSV, ComprarBillete, Salir, NoReconocida, Es
    <3>5. CASE SinMemoria(p)
      BY <3>1, <3>5 DEF SinMemoria, Completa
    <3> QED BY <3>2, <3>3, <3>4, <3>5
  <2> QED BY <1>0, <2>2, <2>3, <2>4 DEF Leida
<1>5. CASE Enviar
  <2>1. /\ servidor = "enviar" /\ servidor' # "enviar" /\ UNCHANGED <<abierto, borrado>>
    BY <1>5 DEF Enviar, cerrarCliente, bd
  <2>2. ~EnMarcha(d)'
    BY <2>1 DEF EnMarcha
  <2>3. CASE al_cliente'[d] = al_cliente[d]
    BY <1>2, <2>1, <2>2, <2>3
  <2>4. CASE al_cliente'[d] # al_cliente[d]
    <3>1. PICK corte \in Cortes(respuesta) :
            al_cliente' = [al_cliente EXCEPT ![atendido] = @ \o corte]
      BY <1>5, <2>4 DEF Enviar
    <3>2. d = atendido /\ al_cliente'[d] = al_cliente[d] \o corte
      BY <1>0, <2>4, <3>1 DEF RedTypeOK
    <3>3. EnMarcha(d)
      BY <2>1, <3>2 DEF EnMarcha
    <3>4. /\ al_cliente[d] \in Seq(Trozo) /\ corte \in Seq(Trozo) /\ respuesta \in Respuesta
      BY <1>0, <3>1, TipoCortes DEF RedTypeOK, ServidorTypeOK
    <3>5. \A i \in DOMAIN corte : corte[i].r = respuesta
      BY <3>1, <3>4, PiezasDe
    <3>6. \A i \in DOMAIN al_cliente'[d] :
            \/ i \in DOMAIN al_cliente[d] /\ al_cliente'[d][i] = al_cliente[d][i]
            \/ al_cliente'[d][i].r = respuesta
      <4> DEFINE s == al_cliente[d]
                 t == s \o corte
      <4>1. /\ t \in Seq(Trozo) /\ Len(t) = Len(s) + Len(corte)
            /\ \A i \in 1..Len(t) : t[i] = IF i <= Len(s) THEN s[i] ELSE corte[i - Len(s)]
        BY <3>4, ConcatProperties
      <4>2. /\ Len(s) \in Nat /\ Len(corte) \in Nat /\ DOMAIN s = 1..Len(s)
            /\ DOMAIN corte = 1..Len(corte) /\ DOMAIN t = 1..Len(t)
        BY <3>4, <4>1, LenProperties
      <4>3. \A i \in 1..Len(t) : i <= Len(s) => i \in 1..Len(s)
        BY <4>1, <4>2
      <4>4. \A i \in 1..Len(t) : ~(i <= Len(s)) => i - Len(s) \in 1..Len(corte)
        BY <4>1, <4>2
      <4>5. ASSUME NEW i \in DOMAIN t
            PROVE  (i \in DOMAIN s /\ t[i] = s[i]) \/ t[i].r = respuesta
        BY <3>5, <4>1, <4>2, <4>3, <4>4
      <4>6. al_cliente'[d] = t
        BY <3>2
      <4> HIDE DEF t
      <4> QED BY <4>5, <4>6
    <3> QED BY <1>0, <2>1, <2>2, <3>3, <3>6 DEF Leida
  <2> QED BY <2>3, <2>4
<1>6. CASE Desconectado
  BY <1>2, <1>6 DEF Desconectado, cerrarCliente, EnMarcha, bd
<1>7. CASE Arrancar
  BY <1>2, <1>7 DEF Arrancar, Limpiar, EnMarcha, red
<1>8. CASE SegundoServidor
  BY <1>2, <1>8 DEF SegundoServidor, Limpiar, EnMarcha, red, sesion
<1>9. CASE Caer
  <2>1. /\ servidor' = "apagado" /\ UNCHANGED <<abierto, borrado>>
        /\ \E perdidos \in SUBSET Clientes :
             al_cliente' = [c \in Clientes |-> IF c \in perdidos THEN <<>> ELSE al_cliente[c]]
    BY <1>9 DEF Caer
  <2> QED BY <1>2, <2>1 DEF EnMarcha
\* The console.
<1>10. CASE UNCHANGED <<red, pedidas, sesion, billete, borrado>>
  BY <1>2, <1>10 DEF red, sesion, EnMarcha
<1> QED BY <1>3, <1>4, <1>5, <1>6, <1>7, <1>8, <1>9, <1>10 DEF ServidorNext, PasoServidor,
      ConsolaEmpieza, ConsolaInserta, ConsolaTermina

LEMMA LecturasPaso == LecturasInv /\ [Next]_vars => LecturasInv'
<1> SUFFICES ASSUME LecturasInv, [Next]_vars PROVE LecturasInv'
  OBVIOUS
<1>1. PromesasInv' /\ SesionInv'
  BY PromesasPaso, SesionPaso DEF LecturasInv, PromesasInv, ComprasInv
<1>2. ASSUME NEW d \in Clientes PROVE Leida(d)'
  <2>1. CASE UNCHANGED vars
    BY <2>1 DEF vars, red, sesion, bd, cliente, LecturasInv, Leida, EnMarcha
  <2>2. CASE ServidorNext /\ UNCHANGED cliente
    BY <1>1, <2>2, LeidaServidor
  <2>3. CASE (\E c \in Clientes : ClienteNext(c, servidor # "apagado")) /\ UNCHANGED <<sesion, bd>>
    <3>1. PICK c \in Clientes : ClienteNext(c, servidor # "apagado")
      BY <2>3
    <3>2. (servidor # "apagado") \in BOOLEAN
      OBVIOUS
    <3> QED BY <1>1, <2>3, <3>1, <3>2, LeidaCliente
  <2> QED BY <2>1, <2>2, <2>3 DEF Next
<1> QED BY <1>1, <1>2 DEF LecturasInv

\* The list of tickets a client is about to read has all those it was told it
\* had bought and that no start of a server cleared.
THEOREM LecturaSiemprePropia == Spec => []LecturaPropia
<1>1. Init => LecturasInv
  <2> SUFFICES ASSUME Init, NEW c \in Clientes PROVE Leida(c)
    BY PromesasInicial DEF LecturasInv
  <2>1. al_cliente[c] = <<>> /\ ~EnMarcha(c)
    BY DEF Init, RedInit, ServidorInit, EnMarcha
  <2> QED BY <2>1, LeidaSinNada
<1>2. LecturasInv => LecturaPropia
  <2> SUFFICES ASSUME LecturasInv, NEW c \in Clientes, entero[c], NEW i \in DOMAIN al_cliente[c]
               PROVE  Completa(confirmados[c], borrado, al_cliente[c][i].r)
    BY DEF LecturaPropia, Completa
  <2>1. abierto[c]
    <3>1. DOMAIN <<>> = {}
      OBVIOUS
    <3> QED BY <3>1 DEF LecturasInv, PromesasInv, ComprasInv, SesionInv, ConversacionInv, Conversacion
  <2> QED BY <2>1 DEF LecturasInv, Leida
<1> QED BY <1>1, <1>2, LecturasPaso, PTL DEF Spec
=============================================================================
