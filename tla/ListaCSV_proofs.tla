-------------------------- MODULE ListaCSV_proofs --------------------------
(***************************************************************************)
(* Lemmas about the lists of the console and their files: induction on the *)
(* number of lines, what a search finds, and what creating, removing and   *)
(* dropping empty fields leave.                                            *)
(***************************************************************************)
EXTENDS ListaCSV, WellFoundedInduction, SequenceTheorems, TLAPS

----------------------------------------------------------------------------
(* Induction on how many lines were read *)

Menor == {p \in Nat \X Nat : p[1] < p[2]}

LEMMA MenorBienFundada == IsWellFoundedOn(Menor, Nat)
BY NatLessThanWellFounded, SMT DEF OpToRel, Menor

\* A set of numbers that is not empty has a least one.
LEMMA Minimo ==
  ASSUME NEW T, T \subseteq Nat, T # {}
  PROVE  \E m \in T : \A k \in T : m <= k
<1>1. PICK m \in T : \A k \in T : ~ (<<k, m>> \in Menor)
  BY MenorBienFundada, WFMin
<1>2. \A k \in T : ~ (k < m)
  BY <1>1 DEF Menor
<1> QED BY <1>2

\* Induction, for the set of the numbers up to N of which something holds.
LEMMA Induccion ==
  ASSUME NEW N \in Nat, NEW T, 0 \in T, \A n \in 0..N : (n \in T /\ n < N) => n + 1 \in T
  PROVE  0..N \subseteq T
<1> SUFFICES ASSUME (0..N) \ T # {} PROVE FALSE
  OBVIOUS
<1> DEFINE Fuera == (0..N) \ T
<1>0. Fuera \subseteq Nat /\ Fuera # {}
  OBVIOUS
<1>1. PICK m \in (0..N) \ T : \A k \in (0..N) \ T : m <= k
  <2> HIDE DEF Fuera
  <2>1. \E m \in Fuera : \A k \in Fuera : m <= k
    BY <1>0, Minimo
  <2> QED BY <2>1 DEF Fuera
<1>2. m # 0 /\ m - 1 \in 0..N /\ m - 1 < N
  BY <1>1
<1>3. m - 1 \in T
  BY <1>1, <1>2
<1> QED BY <1>1, <1>2, <1>3

----------------------------------------------------------------------------
(* Keys as their fields hold them *)

Guardadas == {Recorte[k] : k \in Claves}

LEMMA TipoGuardadas ==
  /\ Guardadas \subseteq Claves
  /\ \A k \in Claves : Recorte[k] \in Guardadas
  /\ \A k \in Guardadas : Recorte[k] = k
BY RecorteAssumption DEF Guardadas

----------------------------------------------------------------------------
(* Searching, creating and removing *)

LEMMA EsSecuencia ==
  ASSUME NEW S, NEW n \in Nat, NEW f \in [1..n -> S]
  PROVE  f \in Seq(S) /\ Len(f) = n
BY SeqDef

\* buscar finds the first entry with the key, if there is one.
LEMMA Buscado ==
  ASSUME NEW S, NEW l \in Seq(S), NEW k
  PROVE  /\ buscar(l, k) \in 0..Len(l)
         /\ buscar(l, k) # 0 => buscar(l, k) \in DOMAIN l /\ l[buscar(l, k)].clave = k
         /\ buscar(l, k) = 0 => \A i \in DOMAIN l : l[i].clave # k
<1> DEFINE I == {i \in 1..Len(l) : l[i].clave = k}
<1>1. buscar(l, k) = IF I # {} THEN Min(I) ELSE 0
  BY DEF buscar, SelectInSeq
<1>2. DOMAIN l = 1..Len(l) /\ Len(l) \in Nat
  BY LenProperties
<1>3. CASE I # {}
  <2>1. I \subseteq Nat
    BY <1>2
  <2>2. Min(I) \in I
    BY <1>3, <2>1, Minimo DEF Min
  <2> QED BY <1>1, <1>2, <1>3, <2>2
<1>4. CASE I = {}
  BY <1>1, <1>2, <1>4
<1> QED BY <1>3, <1>4

\* A list that fits in its array still does when an entry is created.
LEMMA Creado ==
  ASSUME NEW S, NEW l \in Seq(S), NEW maximo \in Nat, NEW clave, NEW e \in S, Len(l) <= maximo
  PROVE  /\ crear(l, maximo, clave, e) \in Seq(S)
         /\ Len(crear(l, maximo, clave, e)) <= maximo
         /\ \/ crear(l, maximo, clave, e) = l
            \/ /\ buscar(l, clave) = 0
               /\ crear(l, maximo, clave, e) = Append(l, e)
         /\ (Len(l) < maximo /\ buscar(l, clave) = 0) =>
              crear(l, maximo, clave, e) = Append(l, e)
<1>1. Len(l) \in Nat /\ Append(l, e) \in Seq(S) /\ Len(Append(l, e)) = Len(l) + 1
  BY LenProperties, AppendProperties
<1> QED BY <1>1 DEF crear

\* Removing leaves the others in their order: \E donde tells where each was.
LEMMA Quitado ==
  ASSUME NEW S, NEW l \in Seq(S), NEW j \in DOMAIN l
  PROVE  /\ RemoveAt(l, j) \in Seq(S)
         /\ Len(RemoveAt(l, j)) = Len(l) - 1
         /\ \A i \in DOMAIN RemoveAt(l, j) :
              RemoveAt(l, j)[i] = IF i < j THEN l[i] ELSE l[i + 1]
         /\ DOMAIN RemoveAt(l, j) = 1..Len(l) - 1
<1>1. j \in 1..Len(l) /\ Len(l) \in Nat
  BY LenProperties
<1>2. \A i \in 1..Len(l) : l[i] \in S
  BY ElementOfSeq
<1> DEFINE a == SubSeq(l, 1, j - 1)
           b == SubSeq(l, j + 1, Len(l))
<1>3. a \in Seq(S) /\ Len(a) = j - 1 /\ \A i \in 1..j - 1 : a[i] = l[i]
  BY <1>1, <1>2, SubSeqProperties
<1>4. b \in Seq(S) /\ Len(b) = Len(l) - j /\ \A i \in 1..Len(l) - j : b[i] = l[j + i]
  BY <1>1, <1>2, SubSeqProperties
<1>5. /\ a \o b \in Seq(S) /\ Len(a \o b) = Len(l) - 1
      /\ \A i \in 1..Len(l) - 1 : (a \o b)[i] = IF i < j THEN l[i] ELSE l[i + 1]
  <2> HIDE DEF a, b
  <2>1. /\ a \o b \in Seq(S) /\ Len(a \o b) = Len(a) + Len(b)
        /\ \A i \in 1..Len(a) + Len(b) :
             (a \o b)[i] = IF i <= Len(a) THEN a[i] ELSE b[i - Len(a)]
    BY <1>3, <1>4, ConcatProperties
  <2>2. ASSUME NEW i \in 1..Len(l) - 1, i < j PROVE (a \o b)[i] = l[i]
    <3>1. i \in 1..j - 1 /\ i \in 1..Len(a) + Len(b) /\ i <= Len(a)
      BY <1>1, <1>3, <1>4, <2>2
    <3>2. (a \o b)[i] = a[i]
      BY <2>1, <3>1
    <3> QED BY <1>3, <3>1, <3>2
  <2>3. ASSUME NEW i \in 1..Len(l) - 1, ~(i < j) PROVE (a \o b)[i] = l[i + 1]
    <3>1. i - (j - 1) \in 1..Len(l) - j /\ j + (i - (j - 1)) = i + 1
      BY <1>1, <2>3
    <3>2. i \in 1..Len(a) + Len(b) /\ ~(i <= Len(a)) /\ i - Len(a) = i - (j - 1)
      BY <1>1, <1>3, <1>4, <2>3
    <3>3. (a \o b)[i] = b[i - (j - 1)]
      BY <2>1, <3>2
    <3> QED BY <1>4, <3>1, <3>3
  <2>4. Len(a) + Len(b) = Len(l) - 1
    BY <1>1, <1>3, <1>4
  <2> QED BY <2>1, <2>2, <2>3, <2>4
<1>6. DOMAIN (a \o b) = 1..Len(l) - 1
  BY <1>5, LenProperties
<1>7. RemoveAt(l, j) = a \o b
  BY DEF RemoveAt
<1> HIDE DEF a, b
<1> QED BY <1>5, <1>6, <1>7

LEMMA Eliminado ==
  ASSUME NEW S, NEW l \in Seq(S), NEW clave
  PROVE  /\ eliminar(l, clave) \in Seq(S)
         /\ Len(eliminar(l, clave)) <= Len(l)
         /\ \A i \in DOMAIN eliminar(l, clave) : \E j \in DOMAIN l : eliminar(l, clave)[i] = l[j]
<1>1. DOMAIN l = 1..Len(l) /\ Len(l) \in Nat
  BY LenProperties
<1>2. CASE buscar(l, clave) = 0
  BY <1>1, <1>2 DEF eliminar
<1>3. CASE buscar(l, clave) # 0
  <2> DEFINE j == buscar(l, clave)
  <2>1. eliminar(l, clave) = RemoveAt(l, j) /\ j \in DOMAIN l
    BY <1>3, Buscado DEF eliminar
  <2> HIDE DEF j
  <2>2. /\ RemoveAt(l, j) \in Seq(S)
        /\ Len(RemoveAt(l, j)) = Len(l) - 1
        /\ \A i \in DOMAIN RemoveAt(l, j) :
             RemoveAt(l, j)[i] = IF i < j THEN l[i] ELSE l[i + 1]
        /\ DOMAIN RemoveAt(l, j) = 1..Len(l) - 1
    BY <2>1, Quitado
  <2>3. ASSUME NEW i \in 1..Len(l) - 1
        PROVE  \E k \in DOMAIN l : RemoveAt(l, j)[i] = l[k]
    <3>1. i \in DOMAIN l /\ i + 1 \in DOMAIN l
      BY <1>1
    <3> QED BY <2>2, <3>1
  <2> QED BY <1>1, <2>1, <2>2, <2>3
<1> QED BY <1>2, <1>3

----------------------------------------------------------------------------
(* Keys that are twice in a list were cut *)

\* A key that buscar does not find is there all the same only if it was cut.
LEMMA DistintasCrear ==
  ASSUME NEW S, NEW l \in Seq(S), NEW k \in Claves, NEW e \in S, e.clave = Recorte[k],
         ClavesDistintas(l), buscar(l, k) = 0
  PROVE  ClavesDistintas(Append(l, e))
<1> DEFINE m == Append(l, e)
<1>1. /\ DOMAIN l = 1..Len(l) /\ Len(l) \in Nat
      /\ m \in Seq(S) /\ Len(m) = Len(l) + 1
      /\ \A i \in 1..Len(l) : m[i] = l[i]
      /\ m[Len(l) + 1] = e
  BY LenProperties, AppendProperties
<1>2. DOMAIN m = 1..Len(l) + 1
  BY <1>1, LenProperties
<1>3. \A i \in 1..Len(l) : l[i].clave # k
  BY <1>1, Buscado
<1> HIDE DEF m
<1>4. ASSUME NEW i \in DOMAIN m, NEW j \in DOMAIN m, i # j, m[i].clave = m[j].clave
      PROVE  \E largo \in Largas : Recorte[largo] = m[i].clave
  <2>1. CASE i \in 1..Len(l) /\ j \in 1..Len(l)
    BY <1>1, <1>4, <2>1 DEF ClavesDistintas
  <2>2. CASE i = Len(l) + 1 \/ j = Len(l) + 1
    <3>1. m[i].clave = Recorte[k] /\ Recorte[k] # k
      BY <1>1, <1>2, <1>3, <1>4, <2>2
    <3> QED BY <3>1 DEF Largas
  <2> QED BY <1>1, <1>2, <2>1, <2>2
<1> QED BY <1>4 DEF ClavesDistintas, m

LEMMA DistintasEliminar ==
  ASSUME NEW S, NEW l \in Seq(S), NEW k, ClavesDistintas(l)
  PROVE  ClavesDistintas(eliminar(l, k))
<1>1. DOMAIN l = 1..Len(l) /\ Len(l) \in Nat
  BY LenProperties
<1>2. CASE buscar(l, k) = 0
  BY <1>2 DEF eliminar
<1>3. CASE buscar(l, k) # 0
  <2> DEFINE j == buscar(l, k)
             m == RemoveAt(l, j)
             antes(i) == IF i < j THEN i ELSE i + 1
  <2>1. eliminar(l, k) = m /\ j \in DOMAIN l
    BY <1>3, Buscado DEF eliminar
  <2> HIDE DEF j
  <2>2. DOMAIN m = 1..Len(l) - 1 /\ \A i \in DOMAIN m : m[i] = l[antes(i)]
    <3>1. \A i \in DOMAIN m : m[i] = IF i < j THEN l[i] ELSE l[i + 1]
      BY <2>1, Quitado
    <3> QED BY <2>1, <3>1, Quitado
  <2> HIDE DEF m
  <2>3. \A i \in DOMAIN m : antes(i) \in DOMAIN l
    BY <1>1, <2>1, <2>2
  <2>4. \A i, h \in DOMAIN m : i # h => antes(i) # antes(h)
    BY <1>1, <2>1, <2>2
  <2> HIDE DEF antes
  <2>5. ClavesDistintas(m)
    BY <2>2, <2>3, <2>4 DEF ClavesDistintas
  <2> QED BY <2>1, <2>5
<1> QED BY <1>2, <1>3

LEMMA DistintasCambiar ==
  ASSUME NEW S, NEW l \in Seq(S), NEW i \in DOMAIN l, NEW e \in S, e.clave = l[i].clave,
         ClavesDistintas(l)
  PROVE  ClavesDistintas([l EXCEPT ![i] = e])
<1> DEFINE m == [l EXCEPT ![i] = e]
<1>1. DOMAIN m = DOMAIN l /\ \A j \in DOMAIN l : m[j].clave = l[j].clave
  OBVIOUS
<1> HIDE DEF m
<1>2. ClavesDistintas(m)
  BY <1>1 DEF ClavesDistintas
<1> QED BY <1>2 DEF m

----------------------------------------------------------------------------
(* Sequences put one after another *)

\* FlattenSeq, one sequence at a time.
LEMMA Aplanado ==
  ASSUME NEW S, NEW ss \in Seq(Seq(S))
  PROVE  \E f \in [0..Len(ss) -> Seq(S)] :
           /\ f[0] = <<>>
           /\ \A n \in 1..Len(ss) : f[n] = f[n - 1] \o ss[n]
           /\ FlattenSeq(ss) = f[Len(ss)]
<1> DEFINE N == Len(ss)
           T == {n \in 0..N : \E f \in [0..n -> Seq(S)] :
                                f[0] = <<>> /\ \A i \in 1..n : f[i] = f[i - 1] \o ss[i]}
<1>1. N \in Nat /\ \A i \in 1..N : ss[i] \in Seq(S)
  BY LenProperties, ElementOfSeq
<1>2. 0 \in T
  <2> DEFINE g == [i \in 0..0 |-> <<>>]
  <2>1. g \in [0..0 -> Seq(S)]
    BY EmptySeq
  <2>2. g[0] = <<>> /\ \A i \in 1..0 : g[i] = g[i - 1] \o ss[i]
    OBVIOUS
  <2>3. 0 \in 0..N
    BY <1>1
  <2> HIDE DEF g, N
  <2>4. \E f \in [0..0 -> Seq(S)] : f[0] = <<>> /\ \A i \in 1..0 : f[i] = f[i - 1] \o ss[i]
    BY <2>1, <2>2
  <2> QED BY <2>3, <2>4
<1>3. ASSUME NEW n \in 0..N, n \in T, n < N PROVE n + 1 \in T
  <2>1. PICK f \in [0..n -> Seq(S)] :
          f[0] = <<>> /\ \A i \in 1..n : f[i] = f[i - 1] \o ss[i]
    BY <1>3
  <2> DEFINE g == [i \in 0..n + 1 |-> IF i <= n THEN f[i] ELSE f[n] \o ss[n + 1]]
  <2>2. f[n] \o ss[n + 1] \in Seq(S)
    BY <1>1, <2>1, <1>3, ConcatProperties
  <2>0. n \in Nat /\ n + 1 \in 0..N
    BY <1>1, <1>3
  <2>3. g \in [0..n + 1 -> Seq(S)]
    BY <2>0, <2>1, <2>2
  <2>4. g[0] = <<>>
    BY <2>0, <2>1
  <2>5. ASSUME NEW i \in 1..n + 1 PROVE g[i] = g[i - 1] \o ss[i]
    <3>1. i - 1 \in 0..n /\ i \in 0..n + 1 /\ (~(i <= n) => i = n + 1 /\ i - 1 = n)
      BY <2>0
    <3>2. g[i - 1] = f[i - 1] /\ g[i] = IF i <= n THEN f[i] ELSE f[n] \o ss[n + 1]
      BY <2>0, <3>1
    <3>3. CASE i <= n
      <4>1. i \in 1..n
        BY <2>0, <3>3
      <4> HIDE DEF g
      <4> QED BY <2>1, <3>2, <3>3, <4>1
    <3>4. CASE ~(i <= n)
      <4> HIDE DEF g
      <4> QED BY <3>1, <3>2, <3>4
    <3> QED BY <3>3, <3>4
  <2> HIDE DEF g
  <2> QED BY <2>0, <2>3, <2>4, <2>5
<1>4. N \in T
  <2>1. \A n \in 0..N : (n \in T /\ n < N) => n + 1 \in T
    BY <1>3
  <2> HIDE DEF T
  <2>2. 0..N \subseteq T
    BY <1>1, <1>2, <2>1, Induccion
  <2> QED BY <1>1, <2>2
<1>5. PICK f \in [0..N -> Seq(S)] :
        f[0] = <<>> /\ \A i \in 1..N : f[i] = f[i - 1] \o ss[i]
  BY <1>4
<1>6. CASE N = 0
  BY <1>5, <1>6, EmptySeq, SMT DEF FlattenSeq
<1>7. CASE N # 0
  <2> DEFINE h == [i \in 1..N |-> f[i]]
             Es(g) == g = [i \in 1..N |-> IF i = 1 THEN ss[i] ELSE g[i - 1] \o ss[i]]
  <2>1. f[1] = ss[1]
    <3>0. 1 \in 1..N
      BY <1>1, <1>7
    <3>1. f[1] = f[1 - 1] \o ss[1] /\ ss[1] \in Seq(S)
      BY <1>1, <1>5, <3>0
    <3>2. f[1 - 1] = <<>>
      BY <1>5
    <3> QED BY <3>1, <3>2, ConcatEmptySeq
  <2>2. Es(h)
    <3>1. ASSUME NEW i \in 1..N PROVE h[i] = IF i = 1 THEN ss[i] ELSE h[i - 1] \o ss[i]
      <4>1. h[i] = f[i] /\ (i # 1 => i - 1 \in 1..N /\ h[i - 1] = f[i - 1])
        BY <1>1
      <4> HIDE DEF h
      <4> QED BY <1>5, <2>1, <4>1
    <3> QED BY <3>1
  <2>3. ASSUME NEW g, Es(g) PROVE g[N] = f[N]
    <3> DEFINE U == {n \in 0..N : n = 0 \/ g[n] = f[n]}
    <3>1. 0 \in U
      BY <1>1
    <3>2. ASSUME NEW n \in 0..N, n \in U, n < N PROVE n + 1 \in U
      <4>1. n + 1 \in 1..N /\ n + 1 - 1 = n
        BY <1>1, <3>2
      <4> DEFINE m == n + 1
      <4>2. g[m] = IF m = 1 THEN ss[m] ELSE g[m - 1] \o ss[m]
        <5> HIDE DEF m
        <5> QED BY <2>3, <4>1 DEF m
      <4>3. f[m] = f[m - 1] \o ss[m]
        <5> HIDE DEF m
        <5> QED BY <1>5, <4>1 DEF m
      <4>4. CASE n = 0
        BY <2>1, <1>1, <4>2, <4>4
      <4>5. CASE n # 0
        <5>1. m - 1 = n /\ m # 1 /\ m \in 0..N
          BY <1>1, <4>1, <4>5
        <5>2. g[n] = f[n]
          BY <3>2, <4>5
        <5> HIDE DEF m
        <5>3. g[m] = f[m]
          BY <4>2, <4>3, <5>1, <5>2
        <5> QED BY <5>1, <5>3 DEF m
      <4> QED BY <4>4, <4>5
    <3>3. N \in U
      <4>1. \A n \in 0..N : (n \in U /\ n < N) => n + 1 \in U
        BY <3>2
      <4> HIDE DEF U
      <4>2. 0..N \subseteq U
        BY <1>1, <3>1, <4>1, Induccion
      <4> QED BY <1>1, <4>2
    <3> QED BY <1>7, <3>3
  <2>4. FlattenSeq(ss) = (CHOOSE g : Es(g))[N]
    BY <1>7 DEF FlattenSeq
  <2>5. Es(CHOOSE g : Es(g))
    <3> HIDE DEF Es
    <3> QED BY <2>2
  <2>6. FlattenSeq(ss) = f[N]
    <3> HIDE DEF Es
    <3> QED BY <2>3, <2>4, <2>5
  <2> QED BY <1>5, <2>6
<1> QED BY <1>6, <1>7

\* What one field leaves of itself.
Trozo(x) == IF x.lleno THEN <<x>> ELSE <<>>

LEMMA TipoTrozo ==
  ASSUME NEW S, NEW x \in S
  PROVE  Trozo(x) \in Seq(S) /\ Len(Trozo(x)) = IF x.lleno THEN 1 ELSE 0
<1>1. <<x>> \in Seq(S) /\ Len(<<x>>) = 1 /\ <<>> \in Seq(S) /\ Len(<<>>) = 0
  OBVIOUS
<1> QED BY <1>1 DEF Trozo

LEMMA LlenosDeDos ==
  ASSUME NEW S, NEW c \in [1..2 -> S]
  PROVE  Llenos(c) = Trozo(c[1]) \o Trozo(c[2])
<1> DEFINE ss == [i \in 1..2 |-> Trozo(c[i])]
<1>1. ss \in Seq(Seq(S)) /\ Len(ss) = 2
  <2>1. \A i \in 1..2 : Trozo(c[i]) \in Seq(S)
    BY TipoTrozo
  <2>2. ss \in [1..2 -> Seq(S)]
    BY <2>1
  <2> HIDE DEF ss
  <2> QED BY <2>2, EsSecuencia
<1>2. Llenos(c) = FlattenSeq(ss)
  BY DEF Llenos, Trozo
<1>3. ss[1] = Trozo(c[1]) /\ ss[2] = Trozo(c[2])
  OBVIOUS
<1> HIDE DEF ss
<1>4. PICK f \in [0..Len(ss) -> Seq(S)] :
        /\ f[0] = <<>>
        /\ \A n \in 1..Len(ss) : f[n] = f[n - 1] \o ss[n]
        /\ FlattenSeq(ss) = f[Len(ss)]
  BY <1>1, Aplanado
<1>5. f[1] = f[0] \o ss[1] /\ f[2] = f[1] \o ss[2] /\ FlattenSeq(ss) = f[2]
  <2>1. 1 \in 1..Len(ss) /\ 2 \in 1..Len(ss) /\ 1 - 1 = 0 /\ 2 - 1 = 1
    BY <1>1
  <2> QED BY <1>1, <1>4, <2>1
<1>6. <<>> \o Trozo(c[1]) = Trozo(c[1])
  <2>1. Trozo(c[1]) \in Seq(S)
    BY TipoTrozo
  <2> QED BY <2>1, ConcatEmptySeq
<1> QED BY <1>2, <1>3, <1>4, <1>5, <1>6

LEMMA LlenosDeTres ==
  ASSUME NEW S, NEW c \in [1..3 -> S]
  PROVE  Llenos(c) = (Trozo(c[1]) \o Trozo(c[2])) \o Trozo(c[3])
<1> DEFINE ss == [i \in 1..3 |-> Trozo(c[i])]
<1>1. ss \in Seq(Seq(S)) /\ Len(ss) = 3
  <2>1. \A i \in 1..3 : Trozo(c[i]) \in Seq(S)
    BY TipoTrozo
  <2>2. ss \in [1..3 -> Seq(S)]
    BY <2>1
  <2> HIDE DEF ss
  <2> QED BY <2>2, EsSecuencia
<1>2. Llenos(c) = FlattenSeq(ss)
  BY DEF Llenos, Trozo
<1>3. ss[1] = Trozo(c[1]) /\ ss[2] = Trozo(c[2]) /\ ss[3] = Trozo(c[3])
  OBVIOUS
<1> HIDE DEF ss
<1>4. PICK f \in [0..Len(ss) -> Seq(S)] :
        /\ f[0] = <<>>
        /\ \A n \in 1..Len(ss) : f[n] = f[n - 1] \o ss[n]
        /\ FlattenSeq(ss) = f[Len(ss)]
  BY <1>1, Aplanado
<1>5. /\ f[1] = f[0] \o ss[1] /\ f[2] = f[1] \o ss[2] /\ f[3] = f[2] \o ss[3]
      /\ FlattenSeq(ss) = f[3]
  <2>1. 1 \in 1..Len(ss) /\ 2 \in 1..Len(ss) /\ 3 \in 1..Len(ss)
    BY <1>1
  <2>2. 1 - 1 = 0 /\ 2 - 1 = 1 /\ 3 - 1 = 2
    OBVIOUS
  <2> QED BY <1>1, <1>4, <2>1, <2>2
<1>6. <<>> \o Trozo(c[1]) = Trozo(c[1])
  <2>1. Trozo(c[1]) \in Seq(S)
    BY TipoTrozo
  <2> QED BY <2>1, ConcatEmptySeq
<1> QED BY <1>2, <1>3, <1>4, <1>5, <1>6

LEMMA LlenosDeLinea ==
  ASSUME NEW S, NEW c \in [1..3 -> S]
  PROVE  /\ Llenos(c) \in Seq(S)
         /\ Len(Llenos(c)) = Len(Trozo(c[1])) + Len(Trozo(c[2])) + Len(Trozo(c[3]))
         /\ (c[1].lleno /\ c[2].lleno) => Llenos(c) = <<c[1], c[2]>> \o Trozo(c[3])
         /\ (c[1].lleno /\ ~c[2].lleno /\ c[3].lleno) => Llenos(c) = <<c[1], c[3]>>
         /\ (~c[1].lleno /\ c[2].lleno /\ c[3].lleno) => Llenos(c) = <<c[2], c[3]>>
<1>1. c[1] \in S /\ c[2] \in S /\ c[3] \in S
  OBVIOUS
<1>2. Llenos(c) = (Trozo(c[1]) \o Trozo(c[2])) \o Trozo(c[3])
  BY LlenosDeTres
<1>3. Trozo(c[1]) \in Seq(S) /\ Trozo(c[2]) \in Seq(S) /\ Trozo(c[3]) \in Seq(S)
  BY <1>1, TipoTrozo
<1>4. /\ Trozo(c[1]) \o Trozo(c[2]) \in Seq(S)
      /\ Len(Trozo(c[1]) \o Trozo(c[2])) = Len(Trozo(c[1])) + Len(Trozo(c[2]))
  BY <1>3, ConcatProperties
<1>5. /\ Llenos(c) \in Seq(S)
      /\ Len(Llenos(c)) = Len(Trozo(c[1])) + Len(Trozo(c[2])) + Len(Trozo(c[3]))
  BY <1>2, <1>3, <1>4, ConcatProperties
<1>6. \A x, y \in S : <<x>> \o <<y>> = <<x, y>> /\ <<>> \o <<x>> = <<x>> /\ <<x>> \o <<>> = <<x>>
  <2>1. ASSUME NEW x \in S, NEW y \in S PROVE <<x>> \o <<y>> = <<x, y>>
    <3>1. /\ <<x>> \in Seq(S) /\ <<y>> \in Seq(S) /\ <<x, y>> \in Seq(S)
          /\ Len(<<x>>) = 1 /\ Len(<<y>>) = 1 /\ Len(<<x, y>>) = 2
          /\ <<x>>[1] = x /\ <<y>>[1] = y /\ <<x, y>>[1] = x /\ <<x, y>>[2] = y
      OBVIOUS
    <3> DEFINE a == <<x>>
               b == <<y>>
    <3> HIDE DEF a, b
    <3>2. /\ a \o b \in Seq(S) /\ Len(a \o b) = Len(a) + Len(b)
          /\ \A i \in 1..Len(a) + Len(b) :
               (a \o b)[i] = IF i <= Len(a) THEN a[i] ELSE b[i - Len(a)]
      BY <3>1, ConcatProperties DEF a, b
    <3>3. Len(a) = 1 /\ Len(b) = 1 /\ a[1] = x /\ b[1] = y
      BY <3>1 DEF a, b
    <3>4. Len(a \o b) = 2 /\ (a \o b)[1] = x /\ (a \o b)[2] = y
      BY <3>2, <3>3
    <3>5. \A i \in 1..2 : (a \o b)[i] = <<x, y>>[i]
      BY <3>1, <3>4
    <3>6. a \o b = <<x, y>>
      BY <3>1, <3>2, <3>4, <3>5, SeqEqual
    <3> QED BY <3>6 DEF a, b
  <2>2. ASSUME NEW x \in S PROVE <<>> \o <<x>> = <<x>> /\ <<x>> \o <<>> = <<x>>
    <3>1. <<x>> \in Seq(S)
      OBVIOUS
    <3> QED BY <3>1, ConcatEmptySeq
  <2> QED BY <2>1, <2>2
<1>7. ASSUME c[1].lleno, c[2].lleno PROVE Llenos(c) = <<c[1], c[2]>> \o Trozo(c[3])
  BY <1>1, <1>2, <1>6, <1>7 DEF Trozo
<1>8. ASSUME c[1].lleno, ~c[2].lleno, c[3].lleno PROVE Llenos(c) = <<c[1], c[3]>>
  <2>1. Llenos(c) = (<<c[1]>> \o <<>>) \o <<c[3]>>
    BY <1>2, <1>8 DEF Trozo
  <2> QED BY <1>1, <1>6, <2>1
<1>9. ASSUME ~c[1].lleno, c[2].lleno, c[3].lleno PROVE Llenos(c) = <<c[2], c[3]>>
  <2>1. Llenos(c) = (<<>> \o <<c[2]>>) \o <<c[3]>>
    BY <1>2, <1>9 DEF Trozo
  <2> QED BY <1>1, <1>6, <2>1
<1> QED BY <1>5, <1>7, <1>8, <1>9
=============================================================================
