------------------------- MODULE ListaTexto_proofs -------------------------
(***************************************************************************)
(* Theorems about ListaTexto, for any buffers, rows and lengths.           *)
(***************************************************************************)
EXTENDS ListaTexto, TLAPS

\* Once a row was read the first one is in the text (the header leaves room
\* for any line), and the state of a finished text is that of its last row.
PrimeraDentro ==
  /\ (fase = "leyendo" /\ siguiente = 1) => largo = CABECERA
  /\ (fase = "leyendo" /\ siguiente > 1) => 1 \in mostradas
  /\ (fase = "leyendo") => respuesta = "ninguna"

Inv == TypeOK /\ PrimeraDentro /\ FaltanLasQueNoCaben /\ BusquedaContesta

\* A line takes less than its array.
LEMMA CortadaCabe ==
  ASSUME NEW n \in Nat PROVE Cortada(n) \in 0..(LINEA - 1)
BY ListaTextoAssumption DEF Cortada

LEMMA InitInv == Init => Inv
BY ListaTextoAssumption
  DEF Init, Inv, TypeOK, PrimeraDentro, FaltanLasQueNoCaben, BusquedaContesta

LEMMA EmpezarInv ==
  ASSUME NEW t \in {"listar", "buscar"}, NEW n \in 0..MaxFilas,
         NEW f \in [1..n -> Largos], Inv, Empezar(t, f)
  PROVE Inv'
<1>1. f \in Seq(Largos)
  BY ListaTextoAssumption
<1>2. TypeOK'
  BY <1>1, ListaTextoAssumption DEF Empezar, TypeOK
<1>3. PrimeraDentro'
  BY DEF Empezar, PrimeraDentro
<1>4. FaltanLasQueNoCaben'
  BY ListaTextoAssumption DEF Empezar, FaltanLasQueNoCaben
<1>5. BusquedaContesta'
  BY DEF Empezar, BusquedaContesta
<1> QED BY <1>2, <1>3, <1>4, <1>5 DEF Inv

LEMMA SinMemoriaInv ==
  ASSUME NEW t \in {"listar", "buscar"}, Inv, SinMemoria(t)
  PROVE Inv'
BY ListaTextoAssumption
  DEF SinMemoria, Inv, TypeOK, PrimeraDentro, FaltanLasQueNoCaben, BusquedaContesta

\* A row: the text only grows, so rows left out before still do not fit.
LEMMA FilaInv == ASSUME Inv, Fila PROVE Inv'
<1> DEFINE n == Cortada(filas[siguiente])
<1>1. /\ siguiente \in 1..Len(filas) /\ filas[siguiente] \in Nat
      /\ Len(filas) \in Nat
  <2>1. filas \in Seq(Largos) /\ siguiente \in 1..(Len(filas) + 1)
        /\ siguiente <= Len(filas)
    BY DEF Inv, TypeOK, Fila
  <2>2. Len(filas) \in Nat /\ siguiente \in 1..Len(filas)
    BY <2>1
  <2>3. filas[siguiente] \in Largos
    BY <2>1, <2>2
  <2> QED BY <2>2, <2>3, ListaTextoAssumption
<1>2. n \in 0..(LINEA - 1)
  BY <1>1, CortadaCabe
<1> HIDE DEF n
<1>3. /\ fase = "leyendo" /\ siguiente' = siguiente + 1
      /\ encontrados' = encontrados + 1
      /\ UNCHANGED <<fase, tipo, filas, respuesta>>
      /\ append_text(siguiente, n)
  BY DEF Fila, n
<1>4. /\ largo' \in 0..(BUFFER - 1) /\ largo' >= largo
      /\ mostradas' \subseteq 1..siguiente
      /\ mostradas \subseteq mostradas'
      /\ siguiente \in mostradas' \/ largo' + n > BUFFER - 2
      /\ largo' <= BUFFER - 2
  <2>1. largo \in 0..(BUFFER - 1) /\ largo <= BUFFER - 2 /\ mostradas \subseteq 1..(siguiente - 1)
    BY <1>3 DEF Inv, TypeOK, FaltanLasQueNoCaben
  <2>2. CASE Cabe(n)
    <3>1. largo' = largo + n /\ mostradas' = mostradas \cup {siguiente}
      BY <2>2, <1>3 DEF append_text
    <3>2. largo' \in 0..(BUFFER - 1) /\ largo' >= largo /\ largo' <= BUFFER - 2
      BY <3>1, <2>1, <2>2, <1>2, ListaTextoAssumption DEF Cabe
    <3>3. mostradas' \subseteq 1..siguiente
      BY <3>1, <2>1, <1>1
    <3> QED BY <3>1, <3>2, <3>3
  <2>3. CASE ~Cabe(n)
    <3>1. largo' = largo /\ mostradas' = mostradas
      BY <2>3, <1>3 DEF append_text
    <3>2. mostradas' \subseteq 1..siguiente
      BY <3>1, <2>1, <1>1
    <3>3. largo + n > BUFFER - 2
      BY <2>1, <2>3, <1>2, ListaTextoAssumption DEF Cabe
    <3>4. largo' >= largo
      BY <3>1, <2>1, ListaTextoAssumption
    <3> QED BY <2>1, <3>1, <3>2, <3>3, <3>4
  <2> QED BY <2>2, <2>3
<1>5. TypeOK'
  BY <1>1, <1>3, <1>4 DEF Inv, TypeOK
<1>6. 1 \in mostradas'
  <2>1. CASE siguiente = 1
    BY <2>1, <1>2, <1>3, ListaTextoAssumption
      DEF Inv, PrimeraDentro, append_text, Cabe
  <2>2. CASE siguiente # 1
    BY <2>2, <1>1, <1>3, <1>4 DEF Inv, PrimeraDentro
  <2> QED BY <2>1, <2>2
<1>7. PrimeraDentro'
  BY <1>1, <1>3, <1>6 DEF Inv, PrimeraDentro
<1>8. FaltanLasQueNoCaben'
  <2> SUFFICES ASSUME NEW k \in 1..siguiente
               PROVE k \in mostradas' \/ largo' + Cortada(filas[k]) > BUFFER - 2
    BY <1>1, <1>3, <1>4 DEF FaltanLasQueNoCaben
  <2>1. CASE k = siguiente
    BY <2>1, <1>4 DEF n
  <2>2. CASE k # siguiente
    <3>1. k \in 1..(siguiente - 1) /\ k \in 1..Len(filas)
      BY <2>2, <1>1
    <3>2. k \in mostradas \/ largo + Cortada(filas[k]) > BUFFER - 2
      BY <3>1, <1>3 DEF Inv, FaltanLasQueNoCaben
    <3>3. Cortada(filas[k]) \in Nat
      <4>1. filas[k] \in Nat
        <5>1. filas \in Seq(Largos)
          BY DEF Inv, TypeOK
        <5>2. filas[k] \in Largos
          BY <5>1, <3>1
        <5> QED BY <5>2, ListaTextoAssumption
      <4> QED BY <4>1, CortadaCabe, ListaTextoAssumption
    <3> QED BY <3>2, <3>3, <1>4, ListaTextoAssumption DEF Inv, TypeOK
  <2> QED BY <2>1, <2>2
<1>9. BusquedaContesta'
  BY <1>3 DEF BusquedaContesta
<1> QED BY <1>5, <1>7, <1>8, <1>9 DEF Inv

\* The end: an error is only written over a text without rows.
LEMMA TerminarInv == ASSUME Inv, Terminar PROVE Inv'
<1>1. TypeOK'
  BY ListaTextoAssumption DEF Inv, TypeOK, Terminar
<1>2. PrimeraDentro'
  BY DEF Terminar, PrimeraDentro
<1>3. FaltanLasQueNoCaben'
  BY DEF Inv, Terminar, FaltanLasQueNoCaben
<1>4. BusquedaContesta'
  BY DEF Inv, TypeOK, PrimeraDentro, Terminar, BusquedaContesta
<1> QED BY <1>1, <1>2, <1>3, <1>4 DEF Inv

LEMMA ServirInv == ASSUME Inv, Servir PROVE Inv'
BY DEF Servir, Inv, TypeOK, PrimeraDentro, FaltanLasQueNoCaben, BusquedaContesta

LEMMA ParadoInv == ASSUME Inv, UNCHANGED vars PROVE Inv'
BY DEF vars, Inv, TypeOK, PrimeraDentro, FaltanLasQueNoCaben, BusquedaContesta

LEMMA SiempreInv == Spec => []Inv
<1>1. Inv /\ [Next]_vars => Inv'
  BY EmpezarInv, SinMemoriaInv, FilaInv, TerminarInv, ServirInv, ParadoInv DEF Next
<1> QED BY <1>1, InitInv, PTL DEF Spec

\* resultado never overflows: for rows of any length and number, append_text
\* and the final strcpy of an error stay within what malloc gave.
THEOREM TextoEnSuBuffer == Spec => []TypeOK
<1>1. Inv => TypeOK
  BY DEF Inv
<1> QED BY <1>1, SiempreInv, PTL

\* No listing has more than BUFFER - 2 characters, and a row that was read is
\* left out only if with it the finished listing would.
THEOREM HuecosPorFaltaDeSitio == Spec => []FaltanLasQueNoCaben
<1>1. Inv => FaltanLasQueNoCaben
  BY DEF Inv
<1> QED BY <1>1, SiempreInv, PTL

\* A search that read a row shows one, and answers an error only without rows.
THEOREM BusquedaConFilas == Spec => []BusquedaContesta
<1>1. Inv => BusquedaContesta
  BY DEF Inv
<1> QED BY <1>1, SiempreInv, PTL
============================================================================
