--------------------------- MODULE Consola_proofs ---------------------------
(***************************************************************************)
(* The questions of the console get the answers typed for them, its menus  *)
(* are left by their last option only, and config.txt says what it loads.  *)
(***************************************************************************)
EXTENDS Consola, SequenceTheorems, TLAPS

----------------------------------------------------------------------------
(* The invariant *)

\* A line that can be read whole is one that was asked for.
Pedida == (Hay /\ ~deMas) => entrada.para = pc /\ Pide(pc, entrada.linea)

\* Outside the menus there is no role, and inside op is not the option that
\* ends the loop, so that a line that is not valid leaves the user there.
EnSuMenu ==
  /\ pc \in {"usuario", "password"} => rol = ROL_INVALIDO
  /\ (pc \in {"menu", "pausa"} /\ rol # ROL_INVALIDO) => op # Ultima(rol)

ConsolaInv == TypeOK /\ Pedida /\ EnSuMenu

LEMMA TipoCifras ==
  /\ DOMAIN Cifras = {"1", "2", "6", "7"}
  /\ \A d \in DOMAIN Cifras : Cifras[d] \in Range(Cifras) /\ Cifras[d] \in {1, 2, 6, 7}
<1>1. DOMAIN Cifras = {"1", "2", "6", "7"}
  BY DEF Cifras
<1>2. \A d \in DOMAIN Cifras : Cifras[d] \in {1, 2, 6, 7}
  BY DEF Cifras
<1> QED BY <1>1, <1>2 DEF Range

LEMMA TipoEntrada == TypeOK => entrada.linea \in Seq(STRING) /\ Len(entrada.linea) \in Nat
<1>1. NADA.linea \in Seq(STRING)
  BY DEF NADA
<1>2. TypeOK => entrada.linea \in Seq(STRING)
  BY <1>1 DEF TypeOK
<1> QED BY <1>2, LenProperties

\* What leerCadena gives of a line is a line.
LEMMA TipoLeido == TypeOK => \A n \in Nat : Leido(n) \in Seq(STRING)
<1> SUFFICES ASSUME TypeOK, NEW n \in Nat PROVE Leido(n) \in Seq(STRING)
  OBVIOUS
<1>1. entrada.linea \in Seq(STRING) /\ Len(entrada.linea) \in Nat
  BY TipoEntrada
<1>2. CASE Len(entrada.linea) > n
  <2>1. SubSeq(entrada.linea, 1, n) \in Seq(STRING)
    BY <1>1, <1>2, SubSeqProperties
  <2> QED BY <1>2, <2>1 DEF Leido
<1>3. CASE ~(Len(entrada.linea) > n)
  BY <1>1, <1>3 DEF Leido
<1> QED BY <1>2, <1>3

LEMMA TipoCuenta == \A u, p : Cuenta(u, p) \in {ROL_INVALIDO, "ADMIN", "EMPLEADO", "PASAJERO"}
BY Zenon DEF Cuenta

LEMMA ConsolaInicial == Init => ConsolaInv
<1>1. <<>> \in Seq(STRING)
  OBVIOUS
<1>2. Init => /\ pc = "usuario" /\ usuario = <<>> /\ rol = ROL_INVALIDO
              /\ op = 0 /\ entrada = NADA /\ cerrada = FALSE /\ deMas = FALSE
  BY DEF Init
<1> QED BY <1>1, <1>2 DEF ConsolaInv, TypeOK, Pedida, EnSuMenu, Hay

\* What a read of n bytes leaves is nothing, if the line is shorter.
LEMMA LoQueQueda ==
  ASSUME TypeOK, NEW n \in Nat, Consumir(n)
  PROVE  /\ entrada' = NADA \/ entrada' \in [linea : Seq(STRING), para : Lecturas]
         /\ (~Hay \/ Len(entrada.linea) < n) => entrada' = NADA
<1>1. CASE Hay /\ Len(entrada.linea) >= n
  <2>1. entrada \in [linea : Seq(STRING), para : Lecturas]
    BY <1>1 DEF TypeOK, Hay
  <2>2. entrada.linea \in Seq(STRING) /\ Len(entrada.linea) \in Nat
    BY <2>1
  <2>3. SubSeq(entrada.linea, n + 1, Len(entrada.linea)) \in Seq(STRING)
    BY <2>2, SubSeqProperties
  <2>4. entrada' \in [linea : Seq(STRING), para : Lecturas]
    BY <1>1, <2>1, <2>3 DEF Consumir
  <2> QED BY <1>1, <2>2, <2>4
<1>2. CASE ~(Hay /\ Len(entrada.linea) >= n)
  BY <1>2 DEF Consumir
<1> QED BY <1>1, <1>2

LEMMA ConsolaPaso == ConsolaInv /\ [Next]_vars => ConsolaInv'
<1> SUFFICES ASSUME ConsolaInv, [Next]_vars PROVE ConsolaInv'
  OBVIOUS
<1>0. TypeOK /\ Pedida /\ EnSuMenu
  BY DEF ConsolaInv
<1>1. CASE Teclear
  <2>1. PICK linea \in Tecleable :
          /\ entrada' = [linea |-> linea, para |-> pc]
          /\ deMas' = (deMas \/ ~Pide(pc, linea))
    BY <1>1 DEF Teclear
  <2>2. UNCHANGED <<config, pc, usuario, rol, op, cerrada>> /\ pc # "fin"
    BY <1>1 DEF Teclear
  <2>3. linea \in Seq(STRING)
    BY <2>1, LineasAssumption, RespuestasAssumption DEF Tecleable
  <2>4. TypeOK'
    BY <1>0, <2>1, <2>2, <2>3 DEF TypeOK, Lecturas
  <2>5. Pedida'
    BY <2>1, <2>2 DEF Pedida, Pide
  <2>6. EnSuMenu'
    BY <1>0, <2>2 DEF EnSuMenu, Ultima
  <2> QED BY <2>4, <2>5, <2>6 DEF ConsolaInv
<1>2. CASE Cerrar
  BY <1>0, <1>2 DEF Cerrar, ConsolaInv, TypeOK, Pedida, EnSuMenu, Hay, Pide, Ultima, NADA
<1>3. TamCuenta - 1 \in Nat /\ TamOpcion - 1 \in Nat /\ Len(entrada.linea) \in Nat
  BY <1>0, TamAssumption, TipoEntrada
\* A pause takes one character, a confirmation three and the rest what their
\* buffers hold: it is all there is when no more was typed than was asked for.
<1>4. ASSUME NEW n \in Nat, Consumir(n), UNCHANGED <<cerrada, deMas>>, usuario' \in Seq(STRING),
             Pide(pc, entrada.linea) => Len(entrada.linea) < n,
             pc' \in {"usuario", "password", "menu", "pausa", "confirmar", "fin"},
             rol' \in {ROL_INVALIDO, "ADMIN", "EMPLEADO", "PASAJERO"}, op' \in {0} \cup Range(Cifras),
             EnSuMenu'
      PROVE  ConsolaInv'
  <2>1. /\ entrada' = NADA \/ entrada' \in [linea : Seq(STRING), para : Lecturas]
        /\ (~Hay \/ Len(entrada.linea) < n) => entrada' = NADA
    BY <1>0, <1>4, LoQueQueda
  <2>2. TypeOK'
    BY <1>0, <1>4, <2>1 DEF TypeOK, NADA
  <2>3. Pedida'
    <3>1. CASE deMas
      BY <1>4, <3>1 DEF Pedida
    <3>2. CASE ~deMas
      <4>1. entrada' = NADA
        BY <1>0, <1>4, <2>1, <3>2 DEF Pedida
      <4> QED BY <4>1 DEF Pedida, Hay, NADA
    <3> QED BY <3>1, <3>2
  <2> QED BY <1>4, <2>2, <2>3 DEF ConsolaInv
<1>5. CASE LeerUsuario
  <2>1. /\ Consumir(TamCuenta - 1) /\ UNCHANGED <<cerrada, deMas, op>>
        /\ pc = "usuario" /\ rol = ROL_INVALIDO
        /\ pc' \in {"password", "pausa"} /\ rol' = ROL_INVALIDO
    BY <1>0, <1>5 DEF LeerUsuario, Rechazar, EnSuMenu
  <2>2. usuario' \in Seq(STRING)
    BY <1>0, <1>3, <1>5, TipoLeido DEF LeerUsuario
  <2>3. Pide(pc, entrada.linea) => Len(entrada.linea) < TamCuenta - 1
    BY <1>3, <2>1, TamAssumption DEF Pide
  <2> QED BY <1>0, <1>3, <1>4, <2>1, <2>2, <2>3 DEF TypeOK, EnSuMenu
<1>6. CASE LeerPassword
  <2>1. /\ Consumir(TamCuenta - 1) /\ UNCHANGED <<cerrada, deMas>> /\ usuario' = <<>> /\ pc = "password"
    BY <1>6 DEF LeerPassword
  <2>2. PICK r \in {ROL_INVALIDO, "ADMIN", "EMPLEADO", "PASAJERO"} :
          (r # ROL_INVALIDO /\ Entrar(r)) \/ (r = ROL_INVALIDO /\ Rechazar)
    BY <1>6, TipoCuenta DEF LeerPassword
  <2>3. Pide(pc, entrada.linea) => Len(entrada.linea) < TamCuenta - 1
    BY <1>3, <2>1, TamAssumption DEF Pide
  <2>4. CASE Entrar(r)
    <3>1. rol' = r /\ pc' = "menu" /\ op' = 0
      BY <2>4 DEF Entrar
    <3>2. Ultima(r) # 0
      BY DEF Ultima, OPCION_SALIR
    <3>3. EnSuMenu'
      BY <3>1, <3>2 DEF EnSuMenu, Ultima
    <3> QED BY <1>3, <1>4, <2>1, <2>3, <3>1, <3>3
  <2>5. CASE Rechazar
    <3>1. rol' = ROL_INVALIDO /\ pc' = "pausa" /\ op' = op
      BY <2>5 DEF Rechazar
    <3>2. EnSuMenu'
      BY <3>1 DEF EnSuMenu
    <3> QED BY <1>0, <1>3, <1>4, <2>1, <2>3, <3>1, <3>2 DEF TypeOK
  <2> QED BY <2>2, <2>4, <2>5
<1>7. CASE LeerOpcion
  <2>1. /\ Consumir(TamOpcion - 1) /\ UNCHANGED <<cerrada, deMas, usuario>> /\ pc = "menu"
    BY <1>7 DEF LeerOpcion, OpcionInvalida
  <2>2. Pide(pc, entrada.linea) => Len(entrada.linea) < TamOpcion - 1
    BY <1>3, <2>1, TamAssumption DEF Pide
  <2>3. CASE pc' = "pausa" /\ op' = op /\ rol' = rol
    <3>1. EnSuMenu'
      BY <1>0, <2>1, <2>3 DEF EnSuMenu, Ultima
    <3> QED BY <1>0, <1>3, <1>4, <2>1, <2>2, <2>3, <3>1 DEF TypeOK
  <2>4. CASE Hay /\ EsNumero(entrada.linea) /\ op' = Numero(entrada.linea)
    <3>1. op' \in Range(Cifras)
      BY <2>4, TipoCifras DEF EsNumero, Numero
    <3>2. \/ VolverAlLogin
          \/ pc' = "confirmar" /\ rol' = rol
          \/ op' # Ultima(rol) /\ pc' = "pausa" /\ rol' = rol
      BY <1>7, <2>1, <2>4 DEF LeerOpcion, OpcionInvalida
    <3>3. EnSuMenu'
      BY <3>2 DEF EnSuMenu, VolverAlLogin, Ultima
    <3>4. /\ rol' \in {ROL_INVALIDO, "ADMIN", "EMPLEADO", "PASAJERO"}
          /\ pc' \in {"usuario", "confirmar", "pausa"}
      BY <1>0, <3>2 DEF TypeOK, VolverAlLogin
    <3> QED BY <1>0, <1>3, <1>4, <2>1, <2>2, <3>1, <3>3, <3>4 DEF TypeOK
  <2> QED BY <1>7, <2>3, <2>4 DEF LeerOpcion, OpcionInvalida
<1>8. CASE Pausa
  <2>1. /\ Consumir(1) /\ UNCHANGED <<cerrada, deMas, usuario, op>> /\ pc = "pausa"
        /\ rol' = IF op = Ultima(rol) THEN ROL_INVALIDO ELSE rol
        /\ pc' = IF rol' = ROL_INVALIDO THEN "usuario" ELSE "menu"
    BY <1>8 DEF Pausa
  <2>2. Pide(pc, entrada.linea) => Len(entrada.linea) < 1
    BY <2>1 DEF Pide
  <2>3. EnSuMenu'
    BY <2>1 DEF EnSuMenu, Ultima
  <2> QED BY <1>0, <1>4, <2>1, <2>2, <2>3 DEF TypeOK
<1>9. CASE confirmarAccion
  <2>1. /\ Consumir(3) /\ UNCHANGED <<cerrada, deMas, usuario, op>> /\ pc = "confirmar"
        /\ \/ pc' = "fin" /\ rol' = rol
           \/ pc' = "usuario" /\ rol' = ROL_INVALIDO
    BY <1>9 DEF confirmarAccion, TamRespuesta, VolverAlLogin
  <2>2. Pide(pc, entrada.linea) => Len(entrada.linea) < 3
    BY <1>3, <2>1 DEF Pide
  <2>3. EnSuMenu'
    BY <2>1 DEF EnSuMenu
  <2> QED BY <1>0, <1>4, <2>1, <2>2, <2>3 DEF TypeOK
<1>10. CASE UNCHANGED vars
  BY <1>0, <1>10 DEF vars, ConsolaInv, TypeOK, Pedida, EnSuMenu, Hay, Pide, Ultima, NADA
<1> QED BY <1>1, <1>2, <1>5, <1>6, <1>7, <1>8, <1>9, <1>10 DEF Next, Paso

\* A question reads what was typed for it, whatever lines there are, until
\* somebody types more than it asks for.
THEOREM SiempreEnSuPaso == Spec => []EnSuPaso
<1>1. ConsolaInv => EnSuPaso
  BY DEF ConsolaInv, Pedida, EnSuPaso
<1> QED BY <1>1, ConsolaInicial, ConsolaPaso, PTL DEF Spec

\* The role is lost in a menu by an option or by a confirmation that is not
\* given, never in a login or a pause.
THEOREM SoloOpcionSaleSiempre == Spec => SoloOpcionSale
<1>1. ConsolaInv /\ [Next]_vars => [(rol # ROL_INVALIDO /\ rol' = ROL_INVALIDO) => pc \in {"menu", "confirmar"}]_vars
  <2> SUFFICES ASSUME ConsolaInv, Next, rol # ROL_INVALIDO, rol' = ROL_INVALIDO PROVE pc \in {"menu", "confirmar"}
    OBVIOUS
  <2>1. pc \notin {"usuario", "password"} /\ (pc = "pausa" => op # Ultima(rol))
    BY DEF ConsolaInv, EnSuMenu
  <2>2. ~Teclear /\ ~Cerrar
    BY DEF Teclear, Cerrar
  <2>3. ~LeerUsuario /\ ~LeerPassword /\ ~Pausa
    BY <2>1 DEF LeerUsuario, LeerPassword, Pausa
  <2> QED BY <2>2, <2>3 DEF Next, Paso, LeerOpcion, confirmarAccion
<1> QED BY <1>1, ConsolaInicial, ConsolaPaso, PTL DEF Spec, SoloOpcionSale

----------------------------------------------------------------------------
(* What cargarConfig makes of a file *)

\* The lemmas on numbers and sequences; those on keys are not used.
Listas == INSTANCE ListaCSV_proofs WITH Claves <- {}, Recorte <- [k \in {} |-> k]

\* Each field has its bytes, and the longest value ends inside Config.
LEMMA Campos ==
  /\ \A k \in DOMAIN Base : /\ Base[k] \in Nat /\ Tam(k) \in Nat
                            /\ \A n \in 0..LEIDO : Base[k]..(Base[k] + n) \subseteq Bytes
  /\ \A k, c \in DOMAIN Base : k # c => Base[k] + Tam(k) <= Base[c] \/ Base[c] + Tam(c) <= Base[k]
<1>1. CAMPO \in Nat /\ LEIDO \in Nat /\ RUTA = LEIDO + 1
  BY TamanosAssumption DEF RUTA
<1>2. DOMAIN Base = {"admin_user", "admin_pass", "empleado_user", "empleado_pass", "pasajero_user",
                     "pasajero_pass", "ruta_aeropuertos", "ruta_log"}
  BY DEF Base
<1>3. /\ Base["admin_user"] = 0 /\ Base["admin_pass"] = CAMPO
      /\ Base["empleado_user"] = 2 * CAMPO /\ Base["empleado_pass"] = 3 * CAMPO
      /\ Base["pasajero_user"] = 4 * CAMPO /\ Base["pasajero_pass"] = 5 * CAMPO
      /\ Base["ruta_aeropuertos"] = 6 * CAMPO /\ Base["ruta_log"] = 6 * CAMPO + RUTA
  BY DEF Base
<1>4. \A k \in DOMAIN Base : Base[k] \in Nat /\ Base[k] <= 6 * CAMPO + RUTA
  BY <1>1, <1>2, <1>3
<1>5. \A k \in DOMAIN Base : Tam(k) \in Nat
  BY <1>1 DEF Tam
<1>6. ASSUME NEW k \in DOMAIN Base, NEW n \in 0..LEIDO
      PROVE  Base[k]..(Base[k] + n) \subseteq Bytes
  <2> DEFINE o == Base[k]
  <2>1. o \in Nat /\ o <= 6 * CAMPO + RUTA
    BY <1>4
  <2> HIDE DEF o
  <2>2. o..(o + n) \subseteq Bytes
    BY <1>1, <2>1 DEF Bytes
  <2> QED BY <2>2 DEF o
<1>7. ASSUME NEW k \in DOMAIN Base, NEW c \in DOMAIN Base, k # c
      PROVE  Base[k] + Tam(k) <= Base[c] \/ Base[c] + Tam(c) <= Base[k]
  BY <1>1, <1>2, <1>3, <1>7 DEF Tam
<1> QED BY <1>4, <1>5, <1>6, <1>7

\* Bytes that are written for a value are read as that value.
LEMMA Leida ==
  ASSUME NEW cfg, NEW k \in DOMAIN Base, NEW v \in Seq(STRING \ {NUL}), Len(v) \in 0..LEIDO,
         \A b \in Alcance(k, v) : cfg[b] = Escrito(k, v, b)
  PROVE  Cadena(cfg, k) = v
<1> DEFINE o == Base[k]
           n == Len(v)
           Fin(b) == o <= b /\ cfg[b] = NUL /\ \A d \in o..(b - 1) : cfg[d] # NUL
           fin == CHOOSE b \in Bytes : Fin(b)
<1>1. o \in Nat /\ n \in Nat /\ o..(o + n) \subseteq Bytes
  BY Campos
<1>2. \A i \in 1..n : v[i] # NUL
  OBVIOUS
<1>3. \A b \in o..(o + n) : cfg[b] = Append(v, NUL)[b - o + 1]
  BY DEF Alcance, Escrito
<1>4. Cadena(cfg, k) = [i \in 1..(fin - o) |-> cfg[o + i - 1]]
  BY DEF Cadena
<1>5. v = [i \in 1..n |-> v[i]]
  OBVIOUS
<1> HIDE DEF o
<1>6. cfg[o + n] = NUL
  BY <1>1, <1>3
<1>7. ASSUME NEW i \in 1..n PROVE cfg[o + i - 1] = v[i]
  <2> DEFINE b == o + i - 1
  <2>1. b \in o..(o + n) /\ b - o + 1 = i /\ i \in 1..Len(v)
    BY <1>1
  <2> HIDE DEF b
  <2>2. cfg[b] = Append(v, NUL)[i]
    BY <1>3, <2>1
  <2> QED BY <2>1, <2>2 DEF b
<1>8. \A d \in o..(o + n - 1) : cfg[d] # NUL
  <2> SUFFICES ASSUME NEW d \in o..(o + n - 1) PROVE cfg[d] # NUL
    OBVIOUS
  <2> DEFINE i == d - o + 1
  <2>1. i \in 1..n /\ d = o + i - 1
    BY <1>1
  <2> HIDE DEF i
  <2> QED BY <1>2, <1>7, <2>1
<1> HIDE DEF n
<1>9. o + n \in Bytes /\ Fin(o + n)
  BY <1>1, <1>6, <1>8
<1>10. \A b \in Bytes : Fin(b) => b = o + n
  <2> SUFFICES ASSUME NEW b \in Bytes, Fin(b) PROVE b = o + n
    OBVIOUS
  <2>1. b \in Int /\ o <= b /\ cfg[b] = NUL /\ \A d \in o..(b - 1) : cfg[d] # NUL
    BY DEF Bytes
  <2>2. ~(b < o + n)
    BY <1>1, <1>8, <2>1
  <2>3. ~(o + n < b)
    BY <1>1, <1>6, <2>1
  <2> QED BY <1>1, <2>1, <2>2, <2>3
<1> HIDE DEF Fin
<1>11. fin = o + n
  BY <1>9, <1>10
<1> HIDE DEF fin
<1>12. Cadena(cfg, k) = [i \in 1..n |-> cfg[o + i - 1]]
  BY <1>1, <1>4, <1>11
<1> QED BY <1>5, <1>7, <1>12

\* The pieces whose value is written over byte b, among the first n.
Escriben(piezas, b, n) ==
  {i \in 1..n : piezas[i].clave \in DOMAIN Base /\ b \in Alcance(piezas[i].clave, piezas[i].valor)}

\* What the last of those pieces writes there, or what was there before.
Queda(piezas, b, I) ==
  IF I = {} THEN SinLeer[b]
  ELSE LET p == piezas[CHOOSE i \in I : \A j \in I : j <= i]
       IN  Escrito(p.clave, p.valor, b)

\* What is left is what the last of them writes.
LEMMA QuedaLaUltima ==
  ASSUME NEW piezas, NEW b, NEW I, NEW i \in I, I \subseteq Int, \A j \in I : j <= i
  PROVE  Queda(piezas, b, I) = Escrito(piezas[i].clave, piezas[i].valor, b)
<1> DEFINE c == CHOOSE m \in I : \A j \in I : j <= m
<1>1. c \in I /\ \A j \in I : j <= c
  OBVIOUS
<1>2. c = i
  <2> HIDE DEF c
  <2> QED BY <1>1
<1>3. Queda(piezas, b, I) = Escrito(piezas[c].clave, piezas[c].valor, b)
  BY DEF Queda
<1> HIDE DEF c
<1> QED BY <1>2, <1>3

\* One piece more.
LEMMA QuedaUnaMas ==
  ASSUME NEW piezas, NEW b, NEW n \in Nat, NEW m, m = n + 1
  PROVE  LET c == piezas[m].clave
             v == piezas[m].valor
         IN  Queda(piezas, b, Escriben(piezas, b, m)) =
               IF c \in DOMAIN Base /\ b \in Alcance(c, v) THEN Escrito(c, v, b)
               ELSE Queda(piezas, b, Escriben(piezas, b, n))
<1> DEFINE c == piezas[m].clave
           v == piezas[m].valor
           I == Escriben(piezas, b, m)
<1>1. CASE c \in DOMAIN Base /\ b \in Alcance(c, v)
  <2>1. m \in I /\ I \subseteq Int /\ \A i \in I : i <= m
    BY <1>1 DEF Escriben
  <2> HIDE DEF I
  <2>2. Queda(piezas, b, I) = Escrito(c, v, b)
    BY <2>1, QuedaLaUltima
  <2> QED BY <1>1, <2>2 DEF I
<1>2. CASE ~(c \in DOMAIN Base /\ b \in Alcance(c, v))
  <2>1. I = Escriben(piezas, b, n)
    BY <1>2 DEF Escriben
  <2> QED BY <1>2, <2>1
<1> QED BY <1>1, <1>2

\* The pieces of a file are pieces.
LEMMA SonPiezas == \A archivo \in Archivos : FlattenSeq(archivo) \in Seq(Piezas)
<1> SUFFICES ASSUME NEW archivo \in Archivos PROVE FlattenSeq(archivo) \in Seq(Piezas)
  OBVIOUS
<1>1. archivo \in Seq(Seq(Piezas))
  <2>1. archivo \in Seq(Seq(Piezas) \ {<<>>}) /\ Seq(Piezas) \ {<<>>} \subseteq Seq(Piezas)
    BY ArchivosAssumption
  <2> QED BY <2>1, LenProperties, ElementOfSeq, SeqDef
<1>2. Len(archivo) \in 0..Len(archivo)
  BY <1>1, LenProperties
<1>3. Listas!FlattenSeq(archivo) \in Seq(Piezas)
  <2>1. PICK t \in [0..Len(archivo) -> Seq(Piezas)] :
          Listas!FlattenSeq(archivo) = t[Len(archivo)]
    BY <1>1, Listas!Aplanado
  <2> QED BY <1>2, <2>1
<1>4. Listas!FlattenSeq(archivo) = FlattenSeq(archivo)
  BY DEF FlattenSeq, Listas!FlattenSeq
<1> QED BY <1>3, <1>4

\* After all its pieces, each byte has what the last that reaches it writes.
LEMMA BytesCargados ==
  ASSUME NEW archivo \in Archivos
  PROVE  LET piezas == FlattenSeq(archivo)
         IN  cargarConfig(archivo) =
               [b \in Bytes |-> Queda(piezas, b, Escriben(piezas, b, Len(piezas)))]
<1> DEFINE piezas == FlattenSeq(archivo)
           N == Len(piezas)
           V(b, n) == Queda(piezas, b, Escriben(piezas, b, n))
           f == [n \in 0..N |-> [b \in Bytes |-> V(b, n)]]
           Es(g) == g = [n \in 0..N |-> IF n = 0 THEN SinLeer ELSE Leer(g[n - 1], piezas[n])]
<1>1. N \in Nat
  BY SonPiezas, LenProperties
<1>2. cargarConfig(archivo) = (CHOOSE g : Es(g))[N]
  BY DEF cargarConfig
<1> HIDE DEF piezas, N
<1>3. f[0] = SinLeer
  <2>1. SinLeer = [b \in Bytes |-> SinLeer[b]]
    BY Zenon DEF SinLeer, strcpy
  <2>2. \A b \in Bytes : V(b, 0) = SinLeer[b]
    <3>1. \A b \in Bytes : Escriben(piezas, b, 0) = {}
      BY DEF Escriben
    <3> QED BY <3>1 DEF Queda
  <2>3. f[0] = [b \in Bytes |-> V(b, 0)]
    BY <1>1
  <2> HIDE DEF f, V
  <2> QED BY <2>1, <2>2, <2>3
<1>4. ASSUME NEW m \in 1..N PROVE f[m] = Leer(f[m - 1], piezas[m])
  <2> DEFINE n == m - 1
             c == piezas[m].clave
             v == piezas[m].valor
             g == f[n]
  <2>1. n \in Nat /\ m = n + 1 /\ m \in 0..N /\ n \in 0..N
    BY <1>1
  <2>2. \A b \in Bytes : V(b, m) = IF c \in DOMAIN Base /\ b \in Alcance(c, v)
                                     THEN Escrito(c, v, b) ELSE V(b, n)
    <3> HIDE DEF n
    <3> SUFFICES ASSUME NEW b \in Bytes
                 PROVE  V(b, m) = IF c \in DOMAIN Base /\ b \in Alcance(c, v)
                                    THEN Escrito(c, v, b) ELSE V(b, n)
      OBVIOUS
    <3> HIDE DEF f
    <3> QED BY ONLY <2>1, QuedaUnaMas
  <2> HIDE DEF n, V
  <2>3. f[m] = [b \in Bytes |-> V(b, m)] /\ g = [b \in Bytes |-> V(b, n)]
    BY <2>1
  <2> HIDE DEF f, g, c, v
  <2>4. CASE c \in DOMAIN Base
    <3>1. \A b \in Bytes : V(b, m) = IF b \in Alcance(c, v) THEN Escrito(c, v, b) ELSE g[b]
      BY <2>2, <2>3, <2>4
    <3>2. f[m] = [b \in Bytes |-> IF b \in Alcance(c, v) THEN Escrito(c, v, b) ELSE g[b]]
      BY <2>3, <3>1
    <3>3. f[m] = strcpy(g, c, v)
      BY <3>2 DEF strcpy
    <3> QED BY <2>4, <3>3 DEF Leer, c, v, g, n
  <2>5. CASE c \notin DOMAIN Base
    <3>1. \A b \in Bytes : V(b, m) = V(b, n)
      BY <2>2, <2>5
    <3>2. f[m] = g
      BY <2>3, <3>1
    <3> QED BY <2>5, <3>2 DEF Leer, c, g, n
  <2> QED BY <2>4, <2>5
<1>5. Es(f)
  <2>1. DOMAIN f = 0..N /\ f = [n \in 0..N |-> f[n]]
    OBVIOUS
  <2> HIDE DEF f
  <2>2. \A n \in 0..N : f[n] = IF n = 0 THEN SinLeer ELSE Leer(f[n - 1], piezas[n])
    BY <1>1, <1>3, <1>4
  <2> QED BY <2>1, <2>2
<1>6. ASSUME NEW g, Es(g) PROVE g[N] = f[N]
  <2> DEFINE U == {n \in 0..N : g[n] = f[n]}
  <2>1. 0 \in U
    BY <1>1, <1>3, <1>6
  <2>2. ASSUME NEW n \in 0..N, n \in U, n < N PROVE n + 1 \in U
    <3> DEFINE m == n + 1
    <3>1. m \in 1..N /\ m \in 0..N /\ m - 1 = n /\ m # 0
      BY <1>1, <2>2
    <3> HIDE DEF m, f
    <3>2. g[m] = Leer(g[m - 1], piezas[m]) /\ f[m] = Leer(f[m - 1], piezas[m])
      BY <1>4, <1>6, <3>1
    <3>3. m \in U
      BY <2>2, <3>1, <3>2
    <3> QED BY <3>3 DEF m
  <2>3. \A n \in 0..N : (n \in U /\ n < N) => n + 1 \in U
    BY <2>2
  <2> HIDE DEF U, f
  <2>4. 0..N \subseteq U
    BY <1>1, <2>1, <2>3, Listas!Induccion
  <2>5. N \in U
    BY <1>1, <2>4
  <2> QED BY <2>5 DEF U
<1>7. cargarConfig(archivo) = f[N]
  <2> HIDE DEF Es, f
  <2>1. Es(CHOOSE g : Es(g))
    BY <1>5
  <2> QED BY <1>2, <1>6, <2>1
<1>8. cargarConfig(archivo) = [b \in Bytes |-> V(b, N)]
  BY <1>1, <1>7
<1> QED BY <1>8 DEF piezas, N

\* What a key starts with is in the bytes of its field.
LEMMA BytesIniciales ==
  ASSUME NEW k \in DOMAIN Base
  PROVE  /\ Inicial(k) \in Seq(STRING \ {NUL}) /\ Len(Inicial(k)) \in 0..LEIDO
         /\ \A b \in Alcance(k, Inicial(k)) : SinLeer[b] = Escrito(k, Inicial(k), b)
<1>1. "ruta_log" \in DOMAIN Base
  BY DEF Base
<1>2. /\ RUTA_LOG \in Seq(STRING \ {NUL}) /\ Len(RUTA_LOG) \in 0..LEIDO
      /\ <<>> \in Seq(STRING \ {NUL}) /\ Len(<<>>) = 0 /\ 0 \in 0..LEIDO
  <2>1. RUTA_LOG \in Seq(STRING \ {NUL}) /\ Len(RUTA_LOG) \in 1..LEIDO
    BY ValoresAssumption
  <2> QED BY <2>1, TamanosAssumption
<1>3. \A b \in Bytes : SinLeer[b] = IF b \in Alcance("ruta_log", RUTA_LOG)
                                      THEN Escrito("ruta_log", RUTA_LOG, b) ELSE NUL
  BY DEF SinLeer, strcpy
<1>4. CASE k = "ruta_log"
  <2>1. Inicial(k) = RUTA_LOG
    BY <1>4 DEF Inicial
  <2>2. Alcance(k, RUTA_LOG) \subseteq Bytes
    BY <1>2, Campos DEF Alcance
  <2> QED BY <1>2, <1>3, <1>4, <2>1, <2>2
<1>5. CASE k # "ruta_log"
  <2> DEFINE o == Base[k]
             l == Base["ruta_log"]
  <2>1. Inicial(k) = <<>>
    BY <1>5 DEF Inicial
  <2>2. o \in Nat /\ o \in Bytes /\ l \in Nat /\ o < l
    <3>1. l = 6 * CAMPO + RUTA /\ CAMPO \in Nat \ {0} /\ RUTA \in Nat \ {0}
      BY TamanosAssumption DEF Base, RUTA
    <3>2. o \in {0, CAMPO, 2 * CAMPO, 3 * CAMPO, 4 * CAMPO, 5 * CAMPO, 6 * CAMPO}
      BY <1>5 DEF Base
    <3> HIDE DEF o, l
    <3> QED BY <3>1, <3>2 DEF Bytes
  <2>3. Alcance(k, <<>>) = {o}
    BY <1>2, <2>2 DEF Alcance
  <2>4. o \notin Alcance("ruta_log", RUTA_LOG)
    BY <2>2, <1>2 DEF Alcance
  <2>5. Escrito(k, <<>>, o) = NUL
    <3>1. o - o + 1 = 1
      BY <2>2
    <3> QED BY <3>1 DEF Escrito
  <2> HIDE DEF o, l
  <2> QED BY <1>2, <1>3, <2>1, <2>2, <2>3, <2>4, <2>5
<1> QED BY <1>4, <1>5

\* Two values that fit in their fields share no byte.
LEMMA SinPisarse ==
  ASSUME NEW k \in DOMAIN Base, NEW c \in DOMAIN Base, k # c, NEW v, NEW w,
         Len(v) \in Nat, Len(w) \in Nat, Cabe(k, v), Cabe(c, w)
  PROVE  Alcance(k, v) \cap Alcance(c, w) = {}
<1>1. /\ Base[k] \in Nat /\ Base[c] \in Nat /\ Tam(k) \in Nat /\ Tam(c) \in Nat
      /\ Base[k] + Tam(k) <= Base[c] \/ Base[c] + Tam(c) <= Base[k]
  BY Campos
<1>2. Len(v) < Tam(k) /\ Len(w) < Tam(c)
  BY DEF Cabe
<1> QED BY <1>1, <1>2 DEF Alcance

\* What the console has is what some file says, and stays so.
ConfigDeUnArchivo == \E archivo \in Archivos : config = Cargado[archivo]

\* The console works with what its file says: of each key, the value of the
\* last piece that names it, unless a value that does not fit in its field
\* reaches the bytes of another.
THEOREM ConfigSiempreFiel == Spec => [](ConfigDeUnArchivo /\ ConfigFiel)
<1>1. ConfigFiel
  <2>1. ASSUME NEW archivo \in Archivos, config = Cargado[archivo],
               NEW k \in DOMAIN Base, NEW i \in 0..Len(FlattenSeq(archivo)),
               i = 0 \/ FlattenSeq(archivo)[i].clave = k,
               \A j \in i + 1 .. Len(FlattenSeq(archivo)) : FlattenSeq(archivo)[j].clave # k,
               NEW v, v = IF i = 0 THEN Inicial(k) ELSE FlattenSeq(archivo)[i].valor,
               \A j \in i + 1 .. Len(FlattenSeq(archivo)) :
                 LET c == FlattenSeq(archivo)[j].clave
                     w == FlattenSeq(archivo)[j].valor
                 IN  ~(/\ c \in DOMAIN Base \ {k} /\ Alcance(c, w) \cap Alcance(k, v) # {}
                       /\ ~Cabe(c, w) \/ ~Cabe(k, v))
        PROVE  Cadena(config, k) = v
    <3> DEFINE piezas == FlattenSeq(archivo)
               N == Len(piezas)
    <3>1. piezas \in Seq(Piezas) /\ N \in Nat
      BY SonPiezas, LenProperties
    <3>2. config = [b \in Bytes |-> Queda(piezas, b, Escriben(piezas, b, N))]
      BY <2>1, BytesCargados DEF Cargado
    <3>3. /\ i = 0 \/ piezas[i].clave = k
          /\ v = IF i = 0 THEN Inicial(k) ELSE piezas[i].valor
      BY <2>1
    <3>4. \A j \in i + 1 .. N :
            /\ piezas[j].clave # k
            /\ LET c == piezas[j].clave
                   w == piezas[j].valor
               IN  ~(/\ c \in DOMAIN Base \ {k} /\ Alcance(c, w) \cap Alcance(k, v) # {}
                     /\ ~Cabe(c, w) \/ ~Cabe(k, v))
      BY <2>1
    <3> HIDE DEF piezas
    <3>5. \A j \in 1..N : piezas[j].clave \in DOMAIN Base =>
            piezas[j].valor \in Seq(STRING \ {NUL}) /\ Len(piezas[j].valor) \in 1..LEIDO
      <4>1. "ninguna" \notin DOMAIN Base
        BY DEF Base
      <4>2. \A j \in 1..N : piezas[j] \in Piezas
        BY <3>1
      <4>3. \A p \in Piezas : p.clave \in DOMAIN Base => p.valor \in Valores
        BY <4>1 DEF Piezas, OTRO_TROZO, Asigna
      <4> QED BY <4>2, <4>3, ValoresAssumption
    <3>6. v \in Seq(STRING \ {NUL}) /\ Len(v) \in 0..LEIDO
      <4>1. CASE i = 0
        BY <3>3, <4>1, BytesIniciales
      <4>2. CASE i # 0
        <5>1. i \in 1..N /\ v = piezas[i].valor /\ piezas[i].clave \in DOMAIN Base
          BY <2>1, <3>1, <3>3, <4>2 DEF piezas
        <5> QED BY <3>5, <5>1
      <4> QED BY <4>1, <4>2
    <3>7. Alcance(k, v) \subseteq Bytes
      BY <3>6, Campos DEF Alcance
    <3>8. ASSUME NEW b \in Alcance(k, v), NEW j \in i + 1 .. N, j \in Escriben(piezas, b, N)
          PROVE  FALSE
      <4> DEFINE c == piezas[j].clave
                 w == piezas[j].valor
      <4>1. c \in DOMAIN Base /\ c # k /\ b \in Alcance(c, w) /\ j \in 1..N
        BY <3>4, <3>8 DEF Escriben
      <4>2. Cabe(c, w) /\ Cabe(k, v)
        BY <3>4, <4>1
      <4>3. Len(w) \in Nat /\ Len(v) \in Nat
        BY <3>5, <3>6, <4>1
      <4> HIDE DEF c, w
      <4>4. Alcance(k, v) \cap Alcance(c, w) = {}
        BY <4>1, <4>2, <4>3, SinPisarse
      <4> QED BY <4>1, <4>4
    <3>9. ASSUME NEW b \in Alcance(k, v) PROVE config[b] = Escrito(k, v, b)
      <4> DEFINE I == Escriben(piezas, b, N)
      <4>1. I \subseteq 1..N /\ i \in Int
        BY <2>1 DEF Escriben
      <4>2. \A j \in I : j <= i
        BY <3>1, <3>8, <4>1
      <4>3. config[b] = Queda(piezas, b, I)
        BY <3>2, <3>7
      <4>4. CASE i = 0
        <5>1. I = {}
          BY <4>1, <4>2, <4>4
        <5>2. Queda(piezas, b, I) = SinLeer[b]
          BY <5>1 DEF Queda
        <5>3. v = Inicial(k)
          BY <3>3, <4>4
        <5> QED BY <4>3, <5>2, <5>3, BytesIniciales
      <4>5. CASE i # 0
        <5>1. i \in 1..N /\ v = piezas[i].valor /\ piezas[i].clave = k
          BY <2>1, <3>1, <3>3, <4>5 DEF piezas
        <5>2. i \in I
          BY <5>1 DEF Escriben
        <5> HIDE DEF I
        <5>3. I \subseteq Int
          BY <4>1
        <5> QED BY <4>2, <4>3, <5>1, <5>2, <5>3, QuedaLaUltima
      <4> QED BY <4>4, <4>5
    <3> QED BY <3>6, <3>9, Leida
  <2> QED BY <2>1 DEF ConfigFiel
<1>2. Init => ConfigDeUnArchivo
  BY DEF Init, ConfigDeUnArchivo
<1>3. ConfigDeUnArchivo /\ [Next]_vars => ConfigDeUnArchivo'
  <2>1. [Next]_vars => UNCHANGED config
    BY DEF Next, Paso, Teclear, Cerrar, LeerUsuario, LeerPassword, LeerOpcion, Pausa,
         confirmarAccion, vars
  <2> QED BY <2>1 DEF ConfigDeUnArchivo
<1> QED BY <1>1, <1>2, <1>3, PTL DEF Spec

\* At the end of its input the console does not end: what it reads is no yes.
THEOREM CierreSiempreSinFin == Spec => CierreSinFin
<1>1. [Next]_vars => [(cerrada /\ ~Hay) => pc' # "fin"]_vars
  <2> SUFFICES ASSUME Next, cerrada, ~Hay PROVE pc' # "fin"
    OBVIOUS
  <2>1. ~Teclear /\ ~Cerrar
    BY DEF Teclear, Cerrar
  <2>2. CASE LeerUsuario
    BY <2>2 DEF LeerUsuario, Rechazar
  <2>3. CASE LeerPassword
    BY <2>3 DEF LeerPassword, Rechazar, Entrar
  <2>4. CASE LeerOpcion
    BY <2>4 DEF LeerOpcion, OpcionInvalida
  <2>5. CASE Pausa
    BY <2>5 DEF Pausa
  <2>6. CASE confirmarAccion
    BY <2>6 DEF confirmarAccion, Confirmado, VolverAlLogin
  <2> QED BY <2>1, <2>2, <2>3, <2>4, <2>5, <2>6 DEF Next, Paso
<1> QED BY <1>1, PTL DEF Spec, CierreSinFin

\* A line that was typed gets shorter with every read, until it is gone; while
\* it is there nothing else happens but the end of the input.  So the console
\* reads no more often than the line is long before it waits for its user.
LineaSeGasta ==
  [][ Hay => \/ ~Hay'
             \/ Len(entrada'.linea) < Len(entrada.linea)
             \/ ~cerrada /\ cerrada' /\ entrada' = entrada ]_vars

\* What a read of n bytes leaves is shorter.
LEMMA Consumida ==
  ASSUME TypeOK, Hay, NEW n \in Nat \ {0}, Consumir(n)
  PROVE  ~Hay' \/ Len(entrada'.linea) < Len(entrada.linea)
<1>1. entrada.linea \in Seq(STRING) /\ Len(entrada.linea) \in Nat
  BY TipoEntrada
<1>2. CASE Len(entrada.linea) >= n
  <2> DEFINE queda == SubSeq(entrada.linea, n + 1, Len(entrada.linea))
  <2>1. entrada \in [linea : Seq(STRING), para : Lecturas]
    BY DEF TypeOK, Hay
  <2>2. entrada'.linea = queda
    BY <1>2, <2>1 DEF Consumir
  <2>3. Len(queda) < Len(entrada.linea)
    BY <1>1, <1>2, SubSeqProperties
  <2> HIDE DEF queda
  <2> QED BY <2>2, <2>3
<1>3. CASE ~(Len(entrada.linea) >= n)
  BY <1>3 DEF Consumir, Hay, NADA
<1> QED BY <1>2, <1>3

\* Whatever was typed, the console is done with it.
THEOREM LineaSiempreSeGasta == Spec => LineaSeGasta
<1>1. ConsolaInv /\ [Next]_vars =>
        [ Hay => \/ ~Hay'
                 \/ Len(entrada'.linea) < Len(entrada.linea)
                 \/ ~cerrada /\ cerrada' /\ entrada' = entrada ]_vars
  <2> SUFFICES ASSUME ConsolaInv, Next, Hay
               PROVE  \/ ~Hay'
                      \/ Len(entrada'.linea) < Len(entrada.linea)
                      \/ ~cerrada /\ cerrada' /\ entrada' = entrada
    OBVIOUS
  <2>1. CASE Teclear
    BY <2>1 DEF Teclear, Hay
  <2>2. CASE Cerrar
    BY <2>2 DEF Cerrar
  <2>3. CASE LeerUsuario \/ LeerPassword
    <3>1. Consumir(TamCuenta - 1) /\ TamCuenta - 1 \in Nat \ {0}
      BY <2>3, TamAssumption DEF LeerUsuario, LeerPassword
    <3> QED BY <3>1, Consumida DEF ConsolaInv
  <2>4. CASE LeerOpcion
    <3>1. Consumir(TamOpcion - 1) /\ TamOpcion - 1 \in Nat \ {0}
      BY <2>4, TamAssumption DEF LeerOpcion, OpcionInvalida
    <3> QED BY <3>1, Consumida DEF ConsolaInv
  <2>5. CASE Pausa
    BY <2>5, Consumida DEF Pausa, ConsolaInv
  <2>6. CASE confirmarAccion
    <3>1. Consumir(3)
      BY <2>6 DEF confirmarAccion, TamRespuesta
    <3> QED BY <3>1, Consumida DEF ConsolaInv
  <2> QED BY <2>1, <2>2, <2>3, <2>4, <2>5, <2>6 DEF Next, Paso
<1> QED BY <1>1, ConsolaInicial, ConsolaPaso, PTL DEF Spec, LineaSeGasta
=============================================================================
