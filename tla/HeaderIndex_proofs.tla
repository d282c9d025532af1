------------------------- MODULE HeaderIndex_proofs -------------------------
(* Proofs about HeaderIndex: the order of the two mutexes, and the index.  *)
EXTENDS HeaderIndex, FiniteSetTheorems, TLAPS

\* A set of positions that is not empty has a last one.
LEMMA MaximoExiste ==
    ASSUME NEW n \in Nat, NEW T \in SUBSET (1..n), T # {}
    PROVE  \E x \in T : \A y \in T : y <= x
<1> DEFINE Mayores(x) == {y \in T : y > x}
           F == {Mayores(x) : x \in T}
<1>1. F \subseteq FiniteSubsetsOf(1..n)
  <2>1. F \subseteq SUBSET (1..n)
    OBVIOUS
  <2>2. IsFiniteSet(1..n)
    BY FS_Interval
  <2> QED BY <2>1, <2>2, FS_FiniteSubsetsOfFinite
<1>2. PICK M \in F : \A N \in F : <<N, M>> \notin StrictSubsetOrdering(1..n)
  <2>1. IsWellFoundedOn(StrictSubsetOrdering(1..n), FiniteSubsetsOf(1..n))
    BY FS_StrictSubsetOrderingWellFounded
  <2>2. F # {}
    OBVIOUS
  <2> HIDE DEF F
  <2> QED BY <2>1, <2>2, <1>1, WFMin
<1>3. PICK x \in T : M = Mayores(x)
  BY <1>2
<1>4. ASSUME NEW y \in T PROVE y <= x
  <2>1. SUFFICES ASSUME y > x PROVE FALSE
    OBVIOUS
  <2>2. /\ Mayores(y) \subseteq Mayores(x) /\ Mayores(x) \subseteq 1..n
        /\ y \in Mayores(x) /\ y \notin Mayores(y)
    <3>1. x \in Nat /\ y \in Nat /\ T \subseteq Nat
      OBVIOUS
    <3>2. \A z \in T : z > y => z > x
      BY <2>1, <3>1
    <3>3. ~(y > y)
      BY <3>1
    <3> QED BY <2>1, <3>2, <3>3
  <2>3. Mayores(y) \in F /\ Mayores(x) \in F
    OBVIOUS
  <2> HIDE DEF Mayores, F
  <2>4. <<Mayores(y), Mayores(x)>> \in StrictSubsetOrdering(1..n)
    BY <2>2 DEF StrictSubsetOrdering
  <2> QED BY <1>2, <1>3, <2>3, <2>4
<1> QED BY <1>4

\* UltimaAltura is one less than the last position of a header in the vector.
LEMMA UltimaAlturaEsLaUltima ==
    ASSUME NEW S, NEW s \in Seq(S), NEW b \in Rango(s)
    PROVE  /\ UltimaAltura(s, b) \in 0..Len(s) - 1
           /\ s[UltimaAltura(s, b) + 1] = b
           /\ \A j \in 1..Len(s) : s[j] = b => j <= UltimaAltura(s, b) + 1
<1> DEFINE T == {i \in 1..Len(s) : s[i] = b}
           P(i) == i \in DOMAIN s /\ s[i] = b /\ \A j \in DOMAIN s : s[j] = b => j <= i
<1>1. DOMAIN s = 1..Len(s) /\ Len(s) \in Nat
  OBVIOUS
<1>2. T # {}
  BY <1>1 DEF Rango
<1>3. \E i \in T : \A j \in T : j <= i
  <2>1. T \in SUBSET (1..Len(s))
    OBVIOUS
  <2> HIDE DEF T
  <2> QED BY <1>1, <1>2, <2>1, MaximoExiste
<1>4. PICK i \in DOMAIN s : s[i] = b /\ \A j \in DOMAIN s : s[j] = b => j <= i
  BY <1>1, <1>3
<1> DEFINE u == CHOOSE k \in DOMAIN s : s[k] = b /\ \A j \in DOMAIN s : s[j] = b => j <= k
<1>5. u \in DOMAIN s /\ s[u] = b /\ \A j \in DOMAIN s : s[j] = b => j <= u
  BY <1>4
<1>6. UltimaAltura(s, b) = u - 1
  BY DEF UltimaAltura
<1> HIDE DEF u
<1>7. u \in 1..Len(s) /\ (u - 1) + 1 = u /\ u - 1 \in 0..Len(s) - 1
  BY <1>1, <1>5
<1> QED BY <1>1, <1>5, <1>6, <1>7

\* A prefix of a sequence has no more distinct members than its length.
LEMMA PrefijoAcotado ==
    ASSUME NEW S, NEW s \in Seq(S), NEW p \in 1..Len(s)
    PROVE  Cardinality({s[i] : i \in 1..p}) \in 0..p
<1> DEFINE V == {s[i] : i \in 1..p}
           f == [i \in 1..p |-> s[i]]
<1>1. f \in Surjection(1..p, V)
  BY DEF Surjection
<1>2. IsFiniteSet(1..p) /\ Cardinality(1..p) = p
  BY FS_Interval
<1> HIDE DEF f, V
<1>3. IsFiniteSet(V) /\ Cardinality(V) <= p
  BY <1>1, <1>2, FS_Surjection
<1>4. Cardinality(V) \in Nat
  BY <1>3, FS_CardinalityType
<1>5. Cardinality(V) \in 0..p
  BY <1>3, <1>4
<1> QED BY <1>5 DEF V

\* A set of positions that is not empty has a first one.
LEMMA MinimoExiste ==
    ASSUME NEW n \in Nat, NEW T \in SUBSET (1..n), T # {}
    PROVE  \E x \in T : \A y \in T : x <= y
<1> DEFINE R == {n + 1 - x : x \in T}
<1>1. R \in SUBSET (1..n) /\ R # {}
  <2>1. \A x \in 1..n : n + 1 - x \in 1..n
    OBVIOUS
  <2> QED BY <2>1
<1>2. PICK z \in R : \A y \in R : y <= z
  <2> HIDE DEF R
  <2> QED BY <1>1, MaximoExiste
<1>3. PICK x \in T : z = n + 1 - x
  BY <1>2
<1>4. \A y \in T : n + 1 - y <= n + 1 - x
  BY <1>2, <1>3
<1>5. T \subseteq Nat
  OBVIOUS
<1>6. \A y \in T : x <= y
  BY <1>3, <1>4, <1>5
<1> QED BY <1>6
-----------------------------------------------------------------------------
(* The index. *)

\* The initial map is right for the whole vector.
LEMMA IndiceInicial ==
    ASSUME NEW S, NEW s \in Seq(S)
    PROVE  Indice([b \in Rango(s) |-> UltimaAltura(s, b)], s, Len(s))
<1> DEFINE m == [b \in Rango(s) |-> UltimaAltura(s, b)]
<1>1. DOMAIN s = 1..Len(s) /\ Len(s) \in Nat
  OBVIOUS
<1>2. DOMAIN m = {s[i] : i \in 1..Len(s)}
  BY <1>1 DEF Rango
<1>3. ASSUME NEW b \in DOMAIN m
      PROVE  /\ m[b] \in Nat /\ m[b] < Len(s) /\ s[m[b] + 1] = b
             /\ \A i \in 1..Len(s) : s[i] = b => i <= m[b] + 1
  <2>1. b \in Rango(s) /\ m[b] = UltimaAltura(s, b)
    OBVIOUS
  <2>2. /\ m[b] \in 0..Len(s) - 1 /\ s[m[b] + 1] = b
        /\ \A i \in 1..Len(s) : s[i] = b => i <= m[b] + 1
    BY <2>1, UltimaAlturaEsLaUltima
  <2> HIDE DEF m
  <2> QED BY <1>1, <2>2
<1> HIDE DEF m
<1>4. Indice(m, s, Len(s))
  BY <1>2, <1>3 DEF Indice
<1> QED BY <1>4 DEF m

\* An update makes a map that was right for a prefix right for the whole vector.
\* The map has at most as many entries as the prefix has headers, so that the
\* headers it has never seen are all in the slice that starts at its size.
LEMMA IndexarCompleta ==
    ASSUME NEW S, NEW s \in Seq(S), NEW p \in 1..Len(s), NEW m, Indice(m, s, p)
    PROVE  Indice(Indexar(m, s), s, Len(s))
<1> DEFINE largo == Cardinality(DOMAIN m)
           nuevos == {i \in DOMAIN s : i >= largo}
           nueva == [b \in DOMAIN m \cup {s[i] : i \in nuevos} |->
                        IF \E i \in nuevos : s[i] = b THEN UltimaAltura(s, b) ELSE m[b]]
<1>1. DOMAIN s = 1..Len(s) /\ Len(s) \in Nat /\ p \in Nat /\ p <= Len(s)
  OBVIOUS
<1>2. largo \in 0..p
  BY PrefijoAcotado DEF Indice
<1>3. CASE Len(s) <= largo
  <2>1. Indexar(m, s) = m
    <3>1. ~(Len(s) > largo)
      BY <1>1, <1>2, <1>3
    <3> QED BY <3>1 DEF Indexar
  <2>2. p = Len(s)
    <3> HIDE DEF largo, nuevos, nueva
    <3>1. largo \in Nat /\ largo <= p /\ p <= Len(s) /\ p \in Nat /\ Len(s) \in Nat
      BY <1>1, <1>2
    <3> QED BY <3>1, <1>3
  <2> QED BY <2>1, <2>2
<1>4. CASE Len(s) > largo
  <2>1. Indexar(m, s) = nueva
    BY <1>4 DEF Indexar
  <2>2. DOMAIN nueva = {s[i] : i \in 1..Len(s)}
    <3>1. DOMAIN nueva = {s[i] : i \in 1..p} \cup {s[i] : i \in nuevos}
      BY DEF Indice
    <3>2. 1..Len(s) = 1..p \cup nuevos
      <4> HIDE DEF largo
      <4> QED BY <1>1, <1>2
    <3> HIDE DEF nueva, nuevos
    <3> QED BY <3>1, <3>2
  <2>3. ASSUME NEW b \in DOMAIN nueva
        PROVE  /\ nueva[b] \in Nat /\ nueva[b] < Len(s) /\ s[nueva[b] + 1] = b
               /\ \A i \in 1..Len(s) : s[i] = b => i <= nueva[b] + 1
    <3>1. CASE \E i \in nuevos : s[i] = b
      <4>1. nueva[b] = UltimaAltura(s, b) /\ b \in Rango(s)
        BY <3>1 DEF Rango
      <4>2. /\ nueva[b] \in 0..Len(s) - 1 /\ s[nueva[b] + 1] = b
            /\ \A j \in 1..Len(s) : s[j] = b => j <= nueva[b] + 1
        BY <4>1, UltimaAlturaEsLaUltima
      <4> HIDE DEF nueva, nuevos, largo
      <4> QED BY <1>1, <4>2
    <3>2. CASE ~ \E i \in nuevos : s[i] = b
      <4>1. b \in DOMAIN m /\ nueva[b] = m[b]
        BY <3>2
      <4>2. /\ m[b] \in Nat /\ m[b] < p /\ s[m[b] + 1] = b
            /\ \A i \in 1..p : s[i] = b => i <= m[b] + 1
        BY <4>1 DEF Indice
      <4>3. \A i \in 1..Len(s) : s[i] = b => i \in 1..p
        <5> HIDE DEF largo, nueva
        <5> QED BY <1>1, <1>2, <3>2
      <4> HIDE DEF nueva, nuevos, largo
      <4> QED BY <1>1, <4>1, <4>2, <4>3
    <3> QED BY <3>1, <3>2
  <2> HIDE DEF nueva
  <2> QED BY <2>1, <2>2, <2>3 DEF Indice
<1>5. Len(s) <= largo \/ Len(s) > largo
  <2> HIDE DEF largo
  <2> QED BY <1>1, <1>2
<1> QED BY <1>3, <1>4, <1>5
-----------------------------------------------------------------------------
(* The answer. *)

\* With a map that is right for the first p headers, the answer is the one due.
LEMMA RespuestaDebida ==
    ASSUME NEW S, NEW s \in Seq(S), NEW p \in 1..Len(s), NEW m, Indice(m, s, p),
           NEW q, Len(q.desde) \in Nat, DOMAIN q.desde = 1..Len(q.desde)
    PROVE  Respuesta(q, m, s) \in Seq(S) /\ Debida(q, Respuesta(q, m, s), s, p)
<1> DEFINE conocidos == {i \in DOMAIN q.desde : q.desde[i] \in DOMAIN m}
           i0 == CHOOSE i \in conocidos : \A j \in conocidos : i <= j
           k == m[q.desde[i0]] + 1
           tope == {n \in 0..MaxHeaders :
                       /\ k + n <= Len(s)
                       /\ n > 0 => q.desde[i0] # q.hasta
                       /\ \A l \in 1..n - 1 : s[k + l] # q.hasta}
           t == CHOOSE n \in tope : \A l \in tope : l <= n
           r == Respuesta(q, m, s)
<1>1. /\ DOMAIN s = 1..Len(s) /\ Len(s) \in Nat /\ p \in Nat /\ p <= Len(s)
      /\ MaxHeaders \in Nat
  BY HeaderIndexAssumption
<1>2. DOMAIN m = {s[i] : i \in 1..p}
  BY DEF Indice
<1>3. CASE conocidos = {}
  <2>1. r = << >>
    BY <1>3 DEF Respuesta
  <2>2. \A i \in DOMAIN q.desde : q.desde[i] \notin {s[j] : j \in 1..p}
    BY <1>2, <1>3
  <2> HIDE DEF r
  <2>3. r \in Seq(S)
    BY <2>1
  <2> QED BY <2>1, <2>2, <2>3 DEF Debida, r
<1>4. CASE conocidos # {}
  <2>1. r = SubSeq(s, k + 1, k + t)
    BY <1>4 DEF Respuesta
  <2>2. i0 \in conocidos /\ \A j \in conocidos : i0 <= j
    <3>1. conocidos \in SUBSET (1..Len(q.desde))
      OBVIOUS
    <3> HIDE DEF conocidos
    <3>2. \E i \in conocidos : \A j \in conocidos : i <= j
      BY <1>4, <3>1, MinimoExiste
    <3> QED BY <3>2
  <2>3. k \in 1..p /\ s[k] = q.desde[i0]
    <3>1. q.desde[i0] \in DOMAIN m
      BY <2>2
    <3> DEFINE a == m[q.desde[i0]]
    <3>2. a \in Nat /\ a < p /\ s[a + 1] = q.desde[i0]
      BY <3>1 DEF Indice
    <3>3. k = a + 1
      OBVIOUS
    <3> HIDE DEF a, k, i0
    <3> QED BY <1>1, <3>2, <3>3
  <2>4. \A j \in 1..i0 - 1 : q.desde[j] \notin DOMAIN m
    <3>1. i0 \in 1..Len(q.desde)
      BY <2>2
    <3>2. \A j \in 1..i0 - 1 : j \in DOMAIN q.desde /\ ~(i0 <= j)
      <4> HIDE DEF i0
      <4> QED BY <3>1
    <3> QED BY <2>2, <3>2
  <2>5. t \in tope /\ \A n \in tope : n <= t
    <3> HIDE DEF k, i0
    <3>1. 0 \in tope
      BY <1>1, <2>3
    <3>2. \E n \in tope : \A l \in tope : l <= n
      <4> DEFINE U == {n + 1 : n \in tope}
      <4>1. U \in SUBSET (1..MaxHeaders + 1) /\ U # {}
        BY <1>1, <3>1
      <4>2. PICK z \in U : \A y \in U : y <= z
        <5> HIDE DEF U
        <5>1. MaxHeaders + 1 \in Nat
          BY <1>1
        <5> QED BY <4>1, <5>1, MaximoExiste
      <4>3. PICK n \in tope : z = n + 1
        BY <4>2
      <4>4. \A l \in tope : l + 1 <= n + 1
        BY <4>2, <4>3
      <4>5. tope \subseteq Nat
        BY <1>1
      <4>6. \A l \in tope : l <= n
        <5> HIDE DEF tope
        <5> QED BY <4>4, <4>5
      <4> QED BY <4>6
    <3> HIDE DEF tope
    <3> QED BY <3>2
  <2> HIDE DEF i0, k, t, r
  <2>6. /\ t \in 0..MaxHeaders /\ k + t <= Len(s)
        /\ t > 0 => q.desde[i0] # q.hasta
        /\ \A l \in 1..t - 1 : s[k + l] # q.hasta
    BY <2>5
  <2>7. k \in Nat /\ t \in Nat /\ k + t \in 1..Len(s) /\ k + 1 \in 1..Len(s) + 1
    BY <1>1, <2>3, <2>6
  <2>8. r \in Seq(S) /\ Len(r) = t
    <3>1. k + 1 \in 1..Len(s) + 1 /\ k + t \in (k + 1) - 1..Len(s)
      BY <1>1, <2>7
    <3>2. /\ SubSeq(s, k + 1, k + t) \in Seq(S)
          /\ Len(SubSeq(s, k + 1, k + t)) = (k + t) - (k + 1) + 1
      BY <3>1
    <3>3. (k + t) - (k + 1) + 1 = t
      BY <2>7
    <3> QED BY <2>1, <3>2, <3>3
  <2>9. \A n \in k..k + t - 1 : s[n] # q.hasta
    <3> SUFFICES ASSUME NEW n \in k..k + t - 1 PROVE s[n] # q.hasta
      OBVIOUS
    <3>1. CASE n = k
      BY <2>3, <2>6, <2>7, <3>1
    <3>2. CASE n # k
      <4>1. n - k \in 1..t - 1 /\ k + (n - k) = n
        BY <2>7, <3>2
      <4> QED BY <2>6, <4>1
    <3> QED BY <3>1, <3>2
  <2>10. t = MaxHeaders \/ k + t = Len(s) \/ s[k + t] = q.hasta
    <3> SUFFICES ASSUME t # MaxHeaders, k + t # Len(s), s[k + t] # q.hasta
                 PROVE  FALSE
      OBVIOUS
    <3>1. t + 1 \in 0..MaxHeaders /\ k + (t + 1) <= Len(s)
      <4>1. t \in Nat /\ k \in Nat /\ MaxHeaders \in Nat /\ Len(s) \in Nat
        BY <1>1, <2>7
      <4>2. t <= MaxHeaders /\ k + t <= Len(s)
        BY <2>6
      <4> QED BY <4>1, <4>2
    <3>2. q.desde[i0] # q.hasta
      BY <2>3, <2>6, <2>7
    <3>3. \A l \in 1..(t + 1) - 1 : s[k + l] # q.hasta
      <4> SUFFICES ASSUME NEW l \in 1..(t + 1) - 1 PROVE s[k + l] # q.hasta
        OBVIOUS
      <4>1. l = t \/ l \in 1..t - 1
        BY <2>7
      <4> QED BY <2>6, <4>1
    <3>4. t + 1 \in tope
      BY <3>1, <3>2, <3>3
    <3>5. t + 1 <= t
      <4> HIDE DEF tope
      <4> QED BY <2>5, <3>4
    <3> QED BY <2>7, <3>5
  <2>11. i0 \in DOMAIN q.desde
    BY <2>2
  <2>12. Debida(q, r, s, p)
    <3> HIDE DEF conocidos, tope
    <3> QED BY <1>2, <2>1, <2>3, <2>4, <2>8, <2>9, <2>10, <2>11 DEF Debida
  <2> QED BY <2>8, <2>12 DEF r
<1> QED BY <1>3, <1>4
-----------------------------------------------------------------------------
(* The inductive invariant. *)

EnUso == {"act_mapa", "actualizar", "resp_mapa", "responder", "enviar"}
EnUsoMapa == {"actualizar", "responder", "enviar"}

PedidoVacio == [desde |-> << >>, hasta |-> Nadie]

\* TypeOK, the type of the requests, and their presence while they are served.
TipoInv ==
    /\ TypeOK
    /\ pedido \in [Handlers -> Pedidos \cup {PedidoVacio}]
    /\ DOMAIN respuesta = Handlers
    /\ \A h \in Handlers : pc[h] \notin {"leer", "fin"} => pedido[h] \in Pedidos

IInv == TipoInv /\ CandadosEnOrden /\ IndiceCorrecto /\ RespuestaCompleta

LEMMA InitIInv == Init => IInv
<1> SUFFICES ASSUME Init PROVE IInv
  OBVIOUS
<1> USE DEF Init
<1>1. headers \in Seq(Bloques) /\ Len(headers) \in Nat /\ Len(headers) # 0
  BY HeaderIndexAssumption
<1>2. procesados \in 1..Len(headers)
  BY <1>1
<1>3. IndiceCorrecto
  BY <1>1, IndiceInicial DEF IndiceCorrecto
<1>4. DOMAIN alturas \subseteq Bloques /\ \A b \in DOMAIN alturas : alturas[b] \in Nat
  <2>1. DOMAIN alturas \subseteq Bloques
    BY <1>1 DEF Rango
  <2> QED BY <1>3, <2>1 DEF IndiceCorrecto, Indice
<1>5. TipoInv
  <2>1. TypeOK
    BY <1>1, <1>2, <1>4, HeaderIndexAssumption DEF TypeOK, PasosHandler
  <2> QED BY <2>1 DEF TipoInv, PedidoVacio
<1>6. CandadosEnOrden
  BY HeaderIndexAssumption DEF CandadosEnOrden
<1>7. RespuestaCompleta
  BY DEF RespuestaCompleta
<1> QED BY <1>3, <1>5, <1>6, <1>7 DEF IInv

\* A push leaves the part the map has seen as it was.
LEMMA IndiceTrasPush ==
    ASSUME TypeOK, IndiceCorrecto, NEW b \in Bloques
    PROVE  Indice(alturas, Append(headers, b), procesados)
<1> DEFINE s == Append(headers, b)
<1>1. /\ Len(headers) \in Nat /\ procesados \in Nat
      /\ procesados >= 1 /\ procesados <= Len(headers)
  BY DEF TypeOK
<1>2. \A i \in 1..procesados : s[i] = headers[i]
  <2>1. \A i \in 1..Len(headers) : s[i] = headers[i]
    BY DEF TypeOK
  <2>2. 1..procesados \subseteq 1..Len(headers)
    BY <1>1
  <2> HIDE DEF s
  <2> QED BY <2>1, <2>2
<1> HIDE DEF s
<1>3. {s[i] : i \in 1..procesados} = {headers[i] : i \in 1..procesados}
  BY <1>2
<1>4. ASSUME NEW c \in DOMAIN alturas
      PROVE  /\ alturas[c] \in Nat /\ alturas[c] < procesados /\ s[alturas[c] + 1] = c
             /\ \A i \in 1..procesados : s[i] = c => i <= alturas[c] + 1
  <2>1. /\ alturas[c] \in Nat /\ alturas[c] < procesados /\ headers[alturas[c] + 1] = c
        /\ \A i \in 1..procesados : headers[i] = c => i <= alturas[c] + 1
    BY DEF IndiceCorrecto, Indice
  <2>2. alturas[c] + 1 \in 1..procesados
    BY <1>1, <2>1
  <2> QED BY <1>2, <2>1, <2>2
<1>5. Indice(alturas, s, procesados)
  BY <1>3, <1>4 DEF IndiceCorrecto, Indice
<1> QED BY <1>5 DEF s
-----------------------------------------------------------------------------
(* Each action keeps the invariant. *)

LEMMA AgregarHeaderIInv == IInv /\ AgregarHeader => IInv'
<1> SUFFICES ASSUME IInv, AgregarHeader PROVE IInv'
  OBVIOUS
<1> USE DEF AgregarHeader, candados, handler
<1>1. PICK b \in Bloques : headers' = Append(headers, b)
  OBVIOUS
<1>2. TypeOK
  BY DEF IInv, TipoInv
<1>3. headers' \in Seq(Bloques) /\ Len(headers') = Len(headers) + 1 /\ Len(headers) \in Nat
  BY <1>1, <1>2 DEF TypeOK
<1>4. procesados' \in 1..Len(headers')
  BY <1>2, <1>3 DEF TypeOK
<1>5. TipoInv'
  BY <1>3, <1>4 DEF IInv, TipoInv, TypeOK
<1>6. CandadosEnOrden'
  BY DEF IInv, CandadosEnOrden
<1>7. IndiceCorrecto'
  BY <1>1, <1>2, IndiceTrasPush DEF IInv, IndiceCorrecto
<1>8. RespuestaCompleta'
  <2>1. \A h \in Handlers : pc[h] # "enviar"
    BY HeaderIndexAssumption DEF IInv, CandadosEnOrden
  <2> QED BY <2>1 DEF RespuestaCompleta
<1> QED BY <1>5, <1>6, <1>7, <1>8 DEF IInv

\* Steps that leave the vector, the map and the mutexes alone: a handler reads
\* a request, or finds that its client is gone.
LEMMA LeerIInv ==
    ASSUME IInv, NEW h \in Handlers, LeerPedido(h) \/ ClienteSeVa(h)
    PROVE  IInv'
<1> USE DEF LeerPedido, ClienteSeVa, Avanzar, candados
<1>1. /\ pc[h] = "leer" /\ pc' = [pc EXCEPT ![h] = pc'[h]]
      /\ pc'[h] \in {"act_headers", "fin"}
  BY DEF IInv, TipoInv, TypeOK
<1>2. TypeOK'
  <2>1. hechos' \in [Handlers -> 0..MaxPedidos]
    <3>1. hechos \in [Handlers -> 0..MaxPedidos] /\ MaxPedidos \in Nat
      BY HeaderIndexAssumption DEF IInv, TipoInv, TypeOK
    <3>2. hechos[h] < MaxPedidos => hechos[h] + 1 \in 0..MaxPedidos
      BY <3>1
    <3> QED BY <3>1, <3>2
  <2> QED BY <1>1, <2>1 DEF IInv, TipoInv, TypeOK, PasosHandler
<1>3. TipoInv'
  <2>1. pedido' \in [Handlers -> Pedidos \cup {PedidoVacio}]
    BY DEF IInv, TipoInv
  <2>2. \A g \in Handlers : pc'[g] \notin {"leer", "fin"} => pedido'[g] \in Pedidos
    BY <1>1 DEF IInv, TipoInv, TypeOK
  <2> QED BY <1>2, <2>1, <2>2 DEF IInv, TipoInv
<1>4. CandadosEnOrden'
  BY <1>1 DEF IInv, TipoInv, TypeOK, CandadosEnOrden
<1>5. IndiceCorrecto'
  BY DEF IInv, IndiceCorrecto
<1>6. RespuestaCompleta'
  <2>1. \A g \in Handlers : pc'[g] = "enviar" =>
           pc[g] = "enviar" /\ pedido'[g] = pedido[g] /\ respuesta'[g] = respuesta[g]
    BY <1>1 DEF IInv, TipoInv, TypeOK
  <2> QED BY <2>1 DEF IInv, RespuestaCompleta
<1> QED BY <1>3, <1>4, <1>5, <1>6 DEF IInv

LEMMA TomarIInv ==
    ASSUME IInv, NEW h \in Handlers, TomarHeaders(h) \/ TomarMapa(h)
    PROVE  IInv'
<1> USE DEF TomarHeaders, TomarMapa, Avanzar
<1>1. /\ pc' = [pc EXCEPT ![h] = pc'[h]] /\ pc \in [Handlers -> PasosHandler]
      /\ pc[h] \notin {"leer", "fin"}
      /\ pc'[h] \in {"act_mapa", "resp_mapa", "actualizar", "responder"}
  BY DEF IInv, TipoInv, TypeOK
<1>2. TypeOK'
  BY <1>1 DEF IInv, TipoInv, TypeOK, PasosHandler
<1>3. TipoInv'
  BY <1>1, <1>2 DEF IInv, TipoInv
<1>4. CandadosEnOrden'
  <2>1. CASE TomarHeaders(h)
    BY <1>1, <2>1, HeaderIndexAssumption DEF IInv, CandadosEnOrden
  <2>2. CASE TomarMapa(h)
    BY <1>1, <2>2, HeaderIndexAssumption DEF IInv, CandadosEnOrden
  <2> QED BY <2>1, <2>2
<1>5. IndiceCorrecto'
  BY DEF IInv, IndiceCorrecto
<1>6. RespuestaCompleta'
  <2>1. \A g \in Handlers : pc'[g] = "enviar" => pc[g] = "enviar"
    BY <1>1
  <2> QED BY <2>1 DEF IInv, RespuestaCompleta
<1> QED BY <1>3, <1>4, <1>5, <1>6 DEF IInv

\* A handler with both mutexes is the only one past taking either.
LEMMA UnoConCandados ==
    ASSUME CandadosEnOrden, NEW h \in Handlers, pc[h] \in EnUsoMapa
    PROVE  \A g \in Handlers : pc[g] \in EnUso => g = h
  BY DEF CandadosEnOrden, EnUso, EnUsoMapa

LEMMA ActualizarIInv ==
    ASSUME IInv, NEW h \in Handlers, Actualizar(h)
    PROVE  IInv'
<1> USE DEF Actualizar, Avanzar, SoltarCandados
<1>1. /\ pc' = [pc EXCEPT ![h] = "resp_headers"] /\ pc \in [Handlers -> PasosHandler]
      /\ pc[h] = "actualizar" /\ CandadosEnOrden
  BY DEF IInv, TipoInv, TypeOK
<1>2. \A g \in Handlers : pc[g] \in EnUso => g = h
  BY <1>1, UnoConCandados DEF EnUsoMapa
<1>3. IndiceCorrecto' /\ procesados' \in 1..Len(headers')
  <2>1. /\ headers \in Seq(Bloques) /\ procesados \in 1..Len(headers)
        /\ Indice(alturas, headers, procesados)
    BY DEF IInv, TipoInv, TypeOK, IndiceCorrecto
  <2>2. Indice(Indexar(alturas, headers), headers, Len(headers))
    BY <2>1, IndexarCompleta
  <2>3. Len(headers) \in 1..Len(headers)
    BY <2>1
  <2> QED BY <2>2, <2>3 DEF IndiceCorrecto
<1>4. DOMAIN alturas' \subseteq Bloques /\ \A b \in DOMAIN alturas' : alturas'[b] \in Nat
  <2>1. /\ headers' \in Seq(Bloques) /\ procesados' \in 1..Len(headers')
        /\ Indice(alturas', headers', procesados')
    BY <1>3 DEF IInv, TipoInv, TypeOK, IndiceCorrecto
  <2>2. \A i \in 1..procesados' : headers'[i] \in Bloques
    BY <2>1
  <2> QED BY <2>1, <2>2 DEF Indice
<1>5. TypeOK'
  BY <1>1, <1>3, <1>4 DEF IInv, TipoInv, TypeOK, PasosHandler
<1>6. TipoInv'
  BY <1>1, <1>5 DEF IInv, TipoInv
<1>7. CandadosEnOrden'
  BY <1>1, <1>2, HeaderIndexAssumption DEF CandadosEnOrden, EnUso
<1>8. RespuestaCompleta'
  <2>1. \A g \in Handlers : pc'[g] # "enviar"
    BY <1>1, <1>2 DEF EnUso
  <2> QED BY <2>1 DEF RespuestaCompleta
<1> QED BY <1>3, <1>6, <1>7, <1>8 DEF IInv

LEMMA ResponderIInv ==
    ASSUME IInv, NEW h \in Handlers, Responder(h)
    PROVE  IInv'
<1> USE DEF Responder, Avanzar, candados
<1> DEFINE r == Respuesta(pedido[h], alturas, headers)
<1>1. /\ pc' = [pc EXCEPT ![h] = "enviar"] /\ pc \in [Handlers -> PasosHandler]
      /\ pc[h] = "responder" /\ CandadosEnOrden
      /\ respuesta' = [respuesta EXCEPT ![h] = r] /\ DOMAIN respuesta = Handlers
  BY DEF IInv, TipoInv, TypeOK
<1>2. r \in Seq(Bloques) /\ Debida(pedido[h], r, headers, procesados)
  <2>1. /\ headers \in Seq(Bloques) /\ procesados \in 1..Len(headers)
        /\ Indice(alturas, headers, procesados) /\ pedido[h] \in Pedidos
    BY <1>1 DEF IInv, TipoInv, TypeOK, IndiceCorrecto
  <2>2. Len(pedido[h].desde) \in Nat /\ DOMAIN pedido[h].desde = 1..Len(pedido[h].desde)
    BY <2>1, HeaderIndexAssumption
  <2> QED BY <2>1, <2>2, RespuestaDebida
<1> HIDE DEF r
<1>3. \A g \in Handlers : pc[g] \in EnUso => g = h
  BY <1>1, UnoConCandados DEF EnUsoMapa
<1>4. \A g \in Handlers : respuesta'[g] \in Seq(Bloques)
  BY <1>1, <1>2 DEF IInv, TipoInv, TypeOK
<1>5. TypeOK'
  BY <1>1, <1>4 DEF IInv, TipoInv, TypeOK, PasosHandler
<1>6. TipoInv'
  BY <1>1, <1>5 DEF IInv, TipoInv
<1>7. CandadosEnOrden'
  BY <1>1 DEF CandadosEnOrden
<1>8. IndiceCorrecto'
  BY DEF IInv, IndiceCorrecto
<1>9. RespuestaCompleta'
  <2>1. \A g \in Handlers : pc'[g] = "enviar" => g = h
    BY <1>1, <1>3 DEF EnUso
  <2>2. respuesta'[h] = r
    BY <1>1
  <2> QED BY <1>2, <2>1, <2>2 DEF RespuestaCompleta
<1> QED BY <1>6, <1>7, <1>8, <1>9 DEF IInv

LEMMA EnviarIInv ==
    ASSUME IInv, NEW h \in Handlers, Enviar(h)
    PROVE  IInv'
<1> USE DEF Enviar, Avanzar, SoltarCandados
<1>1. /\ pc' = [pc EXCEPT ![h] = pc'[h]] /\ pc \in [Handlers -> PasosHandler]
      /\ pc[h] = "enviar" /\ pc'[h] \in {"leer", "fin"} /\ CandadosEnOrden
      /\ respuesta' = [respuesta EXCEPT ![h] = << >>]
  BY DEF IInv, TipoInv, TypeOK
<1>2. \A g \in Handlers : pc[g] \in EnUso => g = h
  BY <1>1, UnoConCandados DEF EnUsoMapa
<1>3. TypeOK'
  <2>1. pc' \in [Handlers -> PasosHandler]
    BY <1>1 DEF PasosHandler
  <2>2. \A g \in Handlers : respuesta'[g] \in Seq(Bloques)
    <3>1. << >> \in Seq(Bloques)
      OBVIOUS
    <3> QED BY <1>1, <3>1 DEF IInv, TipoInv, TypeOK
  <2> QED BY <2>1, <2>2 DEF IInv, TipoInv, TypeOK
<1>4. TipoInv'
  BY <1>1, <1>3 DEF IInv, TipoInv
<1>5. CandadosEnOrden'
  BY <1>1, <1>2, HeaderIndexAssumption DEF CandadosEnOrden, EnUso
<1>6. IndiceCorrecto'
  BY DEF IInv, IndiceCorrecto
<1>7. RespuestaCompleta'
  <2>1. \A g \in Handlers : pc'[g] # "enviar"
    BY <1>1, <1>2 DEF EnUso
  <2> QED BY <2>1 DEF RespuestaCompleta
<1> QED BY <1>4, <1>5, <1>6, <1>7 DEF IInv

LEMMA StutterIInv == IInv /\ UNCHANGED vars => IInv'
  BY DEF IInv, TipoInv, TypeOK, CandadosEnOrden, IndiceCorrecto, RespuestaCompleta,
         vars, candados, handler

LEMMA NextIInv == IInv /\ [Next]_vars => IInv'
<1> SUFFICES ASSUME IInv, [Next]_vars PROVE IInv'
  OBVIOUS
<1>1. CASE AgregarHeader
  BY <1>1, AgregarHeaderIInv
<1>2. ASSUME NEW h \in Handlers, PasoHandler(h) PROVE IInv'
  BY <1>2, TomarIInv, ActualizarIInv, ResponderIInv, EnviarIInv DEF PasoHandler
<1>3. ASSUME NEW h \in Handlers, LeerPedido(h) \/ ClienteSeVa(h) PROVE IInv'
  BY <1>3, LeerIInv
<1>4. CASE UNCHANGED vars
  BY <1>4, StutterIInv
<1> QED BY <1>1, <1>2, <1>3, <1>4 DEF Next
-----------------------------------------------------------------------------
(* The theorems. *)

\* The inductive invariant holds in every state of the specification.
THEOREM Invariante == Spec => []IInv
<1>1. Init => IInv
  BY InitIInv
<1>2. IInv /\ [Next]_vars => IInv'
  BY NextIInv
<1> QED BY <1>1, <1>2, PTL DEF Spec

\* Every variable keeps its type, the answers included, whatever is asked.
THEOREM Tipos == Spec => []TypeOK
<1>1. IInv => TypeOK
  BY DEF IInv, TipoInv
<1> QED BY <1>1, Invariante, PTL

\* A mutex is held by the handler that uses it, and the map's only by the one
\* that holds the vector's (recibir_getheaders, actualizar_headers_hash_height).
THEOREM CandadosSiempreEnOrden == Spec => []CandadosEnOrden
<1>1. IInv => CandadosEnOrden
  BY DEF IInv
<1> QED BY <1>1, Invariante, PTL

\* The map holds what the vector had at the last update, although updates start
\* at the size of the map (actualizar_headers_hash_height).
THEOREM IndiceSiempreCorrecto == Spec => []IndiceCorrecto
<1>1. IInv => IndiceCorrecto
  BY DEF IInv
<1> QED BY <1>1, Invariante, PTL

\* Every answer is the one the doc of recibir_getheaders promises.
THEOREM RespuestaSiempreCompleta == Spec => []RespuestaCompleta
<1>1. IInv => RespuestaCompleta
  BY DEF IInv
<1> QED BY <1>1, Invariante, PTL
=============================================================================
