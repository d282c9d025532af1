---------------------------- MODULE Ventana_proofs ----------------------------
(***************************************************************************)
(* Theorems about Ventana, for any accounts, labels, transactions and      *)
(* blocks, any number of events, and any deaths of the process.            *)
(*                                                                         *)
(* ArchivoSeLee is the round trip of the file: Leida(L, texto, M) says     *)
(* that the reader goes from L to M through the lines of texto, and texts  *)
(* that are read one after the other are read together, so that a section, *)
(* an account and the file follow from their lines.  IInv then says that   *)
(* every account in memory, on its way to the window or in the file is one *)
(* that can be read back and whose sent entries have their block on disk;  *)
(* that the lists of the last copy for the window are those of the wallet; *)
(* and that an account that is selected has been asked for.  SaldosInv     *)
(* says that the balance of that copy takes into account the first blocks  *)
(* of those that the wallet has applied, all but some at the end that pay  *)
(* nothing to the account.                                                 *)
(***************************************************************************)
EXTENDS Ventana, FiniteSetTheorems, WellFoundedInduction, TLAPS

(* Induction over the naturals, as a fact about sets. *)

\* A set of numbers has a least one.
LEMMA Minimo ==
    ASSUME NEW T \in SUBSET Nat, T # {}
    PROVE  \E x \in T : \A y \in T : x <= y
<1>1. PICK x \in T : \A y \in T : ~(<<y, x>> \in OpToRel(<, Nat))
  BY NatLessThanWellFounded, WFMin
<1>2. ASSUME NEW y \in T, y < x PROVE FALSE
  <2>1. <<y, x>> \in OpToRel(<, Nat)
    BY <1>2 DEF OpToRel
  <2> QED BY <1>1, <2>1
<1> QED BY <1>2

\* A set of numbers with 0, and with n + 1 if it has n, has them all.
LEMMA Induccion ==
    ASSUME NEW T \in SUBSET Nat, 0 \in T, \A n \in T : n + 1 \in T
    PROVE  T = Nat
<1> SUFFICES ASSUME T # Nat PROVE FALSE
  OBVIOUS
<1>1. PICK x \in Nat \ T : \A y \in Nat \ T : x <= y
  BY Minimo
<1>2. x - 1 \in Nat /\ x - 1 \notin Nat \ T
  BY <1>1
<1> QED BY <1>1, <1>2

\* A sequence, of whatever.
EsSecuencia(s) == \E S : s \in Seq(S)

\* What a sequence is, without its set.
LEMMA Secuencia ==
    ASSUME NEW s, EsSecuencia(s)
    PROVE  Len(s) \in Nat /\ DOMAIN s = 1..Len(s) /\ s = [i \in 1..Len(s) |-> s[i]]
<1>1. PICK S : s \in Seq(S)
  BY DEF EsSecuencia
<1> QED BY <1>1

\* A function over 1..n is a sequence.
LEMMA SecuenciaDe ==
    ASSUME NEW s, NEW n \in Nat, DOMAIN s = 1..n, s = [i \in 1..n |-> s[i]]
    PROVE  EsSecuencia(s) /\ Len(s) = n
<1> DEFINE S == {s[i] : i \in 1..n}
<1>1. s \in [1..n -> S]
  OBVIOUS
<1> HIDE DEF S
<1>2. s \in Seq(S)
  BY <1>1
<1> QED BY <1>2 DEF EsSecuencia

\* A sequence with one more at its end.
LEMMA SecuenciaCrece ==
    ASSUME NEW s, EsSecuencia(s), NEW x
    PROVE  /\ EsSecuencia(Append(s, x)) /\ Len(Append(s, x)) = Len(s) + 1
           /\ Append(s, x)[Len(s) + 1] = x
           /\ \A i \in 1..Len(s) : Append(s, x)[i] = s[i]
<1>1. PICK S : s \in Seq(S)
  BY DEF EsSecuencia
<1> DEFINE U == S \cup {x}
<1>2. s \in Seq(U) /\ x \in U
  BY <1>1
<1> HIDE DEF U
<1>3. Append(s, x) \in Seq(U)
  BY <1>2
<1> QED BY <1>2, <1>3 DEF EsSecuencia

\* The empty list is a sequence.
LEMMA SecuenciaVacia == EsSecuencia(<< >>)
<1>1. << >> \in Seq({})
  OBVIOUS
<1> QED BY <1>1 DEF EsSecuencia

\* The last of a sequence.
LEMMA UltimoDe ==
    ASSUME NEW s, EsSecuencia(s)
    PROVE  Last(s) = s[Len(s)]
  BY DEF Last

\* Two sequences, one after the other.
LEMMA SecuenciaUnida ==
    ASSUME NEW a, EsSecuencia(a), NEW b, EsSecuencia(b)
    PROVE  /\ EsSecuencia(a \o b) /\ Len(a \o b) = Len(a) + Len(b)
           /\ \A i \in 1..Len(a) : (a \o b)[i] = a[i]
           /\ \A i \in 1..Len(b) : (a \o b)[Len(a) + i] = b[i]
<1>1. PICK S : a \in Seq(S)
  BY DEF EsSecuencia
<1>2. PICK T : b \in Seq(T)
  BY DEF EsSecuencia
<1> DEFINE U == S \cup T
<1>3. a \in Seq(U) /\ b \in Seq(U)
  BY <1>1, <1>2
<1> HIDE DEF U
<1>4. a \o b \in Seq(U)
  BY <1>3
<1> QED BY <1>3, <1>4 DEF EsSecuencia

\* The elements of the first, and those of the second.
LEMMA UnidaPrimera ==
    ASSUME NEW a, EsSecuencia(a), NEW b, EsSecuencia(b), NEW i \in 1..Len(a)
    PROVE  (a \o b)[i] = a[i]
  BY SecuenciaUnida

\* What is in the second of two sequences.
LEMMA UnidaSegunda ==
    ASSUME NEW a, EsSecuencia(a), NEW b, EsSecuencia(b), NEW i \in 1..Len(b)
    PROVE  (a \o b)[Len(a) + i] = b[i]
  BY SecuenciaUnida

\* A sequence of one.
LEMMA DeUna == ASSUME NEW x PROVE EsSecuencia(<<x>>) /\ Len(<<x>>) = 1 /\ <<x>>[1] = x
<1>1. <<x>> \in Seq({x}) /\ Len(<<x>>) = 1 /\ <<x>>[1] = x
  OBVIOUS
<1> QED BY <1>1 DEF EsSecuencia

\* A sequence without its first.
LEMMA SinElPrimero ==
    ASSUME NEW s, EsSecuencia(s), s # << >>
    PROVE  /\ EsSecuencia(Tail(s)) /\ Len(Tail(s)) = Len(s) - 1 /\ Len(s) \in Nat \ {0}
           /\ Head(s) = s[1] /\ \A i \in 1..Len(s) - 1 : Tail(s)[i] = s[i + 1]
<1>1. PICK S : s \in Seq(S)
  BY DEF EsSecuencia
<1>2. Tail(s) \in Seq(S)
  BY <1>1
<1>3. /\ Len(Tail(s)) = Len(s) - 1 /\ Len(s) \in Nat \ {0}
      /\ Head(s) = s[1] /\ \A i \in 1..Len(s) - 1 : Tail(s)[i] = s[i + 1]
  BY <1>1
<1> QED BY <1>2, <1>3 DEF EsSecuencia

\* The first of a sequence.
LEMMA Primeros ==
    ASSUME NEW s, EsSecuencia(s), NEW n \in 0..Len(s)
    PROVE  /\ EsSecuencia(SubSeq(s, 1, n)) /\ Len(SubSeq(s, 1, n)) = n
           /\ \A i \in 1..n : SubSeq(s, 1, n)[i] = s[i]
<1>1. PICK S : s \in Seq(S)
  BY DEF EsSecuencia
<1>2. SubSeq(s, 1, n) \in Seq(S)
  BY <1>1
<1>3. Len(SubSeq(s, 1, n)) = n /\ \A i \in 1..n : SubSeq(s, 1, n)[i] = s[i]
  BY <1>1
<1> QED BY <1>2, <1>3 DEF EsSecuencia

\* Sequences with the same elements are the same.
LEMMA SecuenciasIguales ==
    ASSUME NEW a, EsSecuencia(a), NEW b, EsSecuencia(b), Len(a) = Len(b),
           \A i \in 1..Len(a) : a[i] = b[i]
    PROVE  a = b
<1>1. /\ Len(a) \in Nat /\ a = [i \in 1..Len(a) |-> a[i]]
      /\ b = [i \in 1..Len(b) |-> b[i]]
  BY Secuencia
<1>2. [i \in 1..Len(a) |-> a[i]] = [i \in 1..Len(b) |-> b[i]]
  OBVIOUS
<1> QED BY <1>1, <1>2

\* The list whose last is taken off and put back.
LEMMA PrimerosCrecen ==
    ASSUME NEW s, EsSecuencia(s), NEW n \in 1..Len(s)
    PROVE  Append(SubSeq(s, 1, n - 1), s[n]) = SubSeq(s, 1, n)
<1> DEFINE a == SubSeq(s, 1, n - 1)
           b == SubSeq(s, 1, n)
           c == Append(a, s[n])
<1>1. Len(s) \in Nat /\ n - 1 \in 0..Len(s) /\ n \in 0..Len(s)
  BY Secuencia
<1>2. EsSecuencia(a) /\ Len(a) = n - 1 /\ \A i \in 1..n - 1 : a[i] = s[i]
  BY <1>1, Primeros
<1>3. EsSecuencia(b) /\ Len(b) = n /\ \A i \in 1..n : b[i] = s[i]
  BY <1>1, Primeros
<1> HIDE DEF a, b
<1>4. EsSecuencia(c) /\ Len(c) = Len(a) + 1 /\ c[Len(a) + 1] = s[n] /\ \A i \in 1..Len(a) : c[i] = a[i]
  BY <1>2, SecuenciaCrece
<1> HIDE DEF c
<1>5. Len(c) = n /\ c[n] = s[n]
  BY <1>1, <1>2, <1>4
<1>6. ASSUME NEW i \in 1..n PROVE c[i] = b[i]
  <2>1. CASE i = n
    BY <1>3, <1>5, <2>1
  <2>2. CASE i # n
    <3>1. i \in 1..n - 1
      BY <1>1, <2>2
    <3> QED BY <1>2, <1>3, <1>4, <3>1
  <2> QED BY <2>1, <2>2
<1>7. c = b
  BY <1>3, <1>4, <1>5, <1>6, SecuenciasIguales
<1> QED BY <1>7 DEF a, b, c
-----------------------------------------------------------------------------
(* What FlattenSeq gives. *)

\* f has what the first i of ss are, one after the other.
Uniones(f, ss, n) == f = [i \in 1..n |-> IF i = 1 THEN ss[1] ELSE f[i - 1] \o ss[i]]

\* There is such a function for any number of them.
LEMMA UnionesExisten ==
    ASSUME NEW ss, NEW n \in Nat
    PROVE  \E f : Uniones(f, ss, n)
<1> DEFINE T == {m \in Nat : \E f : Uniones(f, ss, m)}
<1>1. 0 \in T
  <2>1. Uniones([i \in 1..0 |-> << >>], ss, 0)
    BY DEF Uniones
  <2> QED BY <2>1
<1>2. ASSUME NEW m \in T PROVE m + 1 \in T
  <2>1. PICK f : Uniones(f, ss, m)
    OBVIOUS
  <2> DEFINE x == IF m + 1 = 1 THEN ss[1] ELSE f[m] \o ss[m + 1]
             w == [i \in 1..m + 1 |-> IF i = m + 1 THEN x ELSE f[i]]
  <2>2. ASSUME NEW i \in 1..m + 1 PROVE w[i] = IF i = 1 THEN ss[1] ELSE w[i - 1] \o ss[i]
    <3>1. CASE i = m + 1
      <4> HIDE DEF x
      <4>1. w[i] = x /\ (i # 1 => w[i - 1] = f[m])
        BY <3>1
      <4> HIDE DEF w
      <4> QED BY <3>1, <4>1 DEF x
    <3>2. CASE i # m + 1
      <4> HIDE DEF x
      <4>1. i \in 1..m /\ w[i] = f[i] /\ (i # 1 => w[i - 1] = f[i - 1])
        BY <3>2
      <4>2. f[i] = IF i = 1 THEN ss[1] ELSE f[i - 1] \o ss[i]
        BY <2>1, <4>1 DEF Uniones
      <4> HIDE DEF w
      <4> QED BY <4>1, <4>2
    <3> QED BY <3>1, <3>2
  <2>3. w = [i \in 1..m + 1 |-> w[i]]
    OBVIOUS
  <2> HIDE DEF w, x
  <2>4. Uniones(w, ss, m + 1)
    BY <2>2, <2>3 DEF Uniones
  <2> QED BY <2>4
<1> HIDE DEF T
<1>3. T = Nat
  <2>1. T \in SUBSET Nat
    BY DEF T
  <2> QED BY <1>1, <1>2, <2>1, Induccion
<1> QED BY <1>3 DEF T

\* What it is of a list that is not empty.
LEMMA AplanarDe ==
    ASSUME NEW ss, Len(ss) \in Nat \ {0}
    PROVE  \E f : Uniones(f, ss, Len(ss)) /\ FlattenSeq(ss) = f[Len(ss)]
<1> DEFINE n == Len(ss)
           paso(h) == [i \in 1..Len(ss) |-> IF i = 1 THEN ss[i] ELSE h[i - 1] \o ss[i]]
           flatten == CHOOSE h : h = paso(h)
<1>1. FlattenSeq(ss) = flatten[n]
  BY DEF FlattenSeq
<1>2. ASSUME NEW h PROVE Uniones(h, ss, n) <=> h = paso(h)
  BY DEF Uniones
<1> HIDE DEF paso
<1>3. \E f : Uniones(f, ss, n)
  BY UnionesExisten
<1>4. \E h : h = paso(h)
  BY <1>2, <1>3
<1>5. flatten = paso(flatten)
  BY <1>4
<1> HIDE DEF flatten
<1> QED BY <1>1, <1>2, <1>5

\* Every element of s is of one of the sequences.
ElementosDe(s, ss) == \A k \in 1..Len(s) : \E i \in 1..Len(ss) : \E j \in 1..Len(ss[i]) : s[k] = ss[i][j]

\* Two sequences of those elements make another one.
LEMMA ElementosUnidos ==
    ASSUME NEW ss, NEW a, EsSecuencia(a), NEW b, EsSecuencia(b), ElementosDe(a, ss), ElementosDe(b, ss)
    PROVE  EsSecuencia(a \o b) /\ ElementosDe(a \o b, ss)
<1> DEFINE c == a \o b
<1>1. /\ EsSecuencia(c) /\ Len(c) = Len(a) + Len(b)
      /\ \A i \in 1..Len(a) : c[i] = a[i]
      /\ \A i \in 1..Len(b) : c[Len(a) + i] = b[i]
  BY SecuenciaUnida
<1>2. Len(a) \in Nat /\ Len(b) \in Nat
  BY Secuencia
<1> HIDE DEF c
<1>3. ASSUME NEW k \in 1..Len(c)
      PROVE  \E i \in 1..Len(ss) : \E j \in 1..Len(ss[i]) : c[k] = ss[i][j]
  <2>1. CASE k <= Len(a)
    <3>1. k \in 1..Len(a) /\ c[k] = a[k]
      BY <1>1, <1>2, <2>1
    <3>2. \E i \in 1..Len(ss) : \E j \in 1..Len(ss[i]) : a[k] = ss[i][j]
      BY <3>1 DEF ElementosDe
    <3> QED BY <3>1, <3>2
  <2>2. CASE ~(k <= Len(a))
    <3> DEFINE r == k - Len(a)
    <3>1. r \in 1..Len(b) /\ Len(a) + r = k
      BY <1>1, <1>2, <2>2
    <3> HIDE DEF r
    <3>2. c[k] = b[r]
      BY <1>1, <3>1
    <3>3. \E i \in 1..Len(ss) : \E j \in 1..Len(ss[i]) : b[r] = ss[i][j]
      BY <3>1 DEF ElementosDe
    <3> QED BY <3>2, <3>3
  <2> QED BY <2>1, <2>2
<1> QED BY <1>1, <1>3 DEF c, ElementosDe

\* The elements of what FlattenSeq gives are those of the parts.
LEMMA Aplanada ==
    ASSUME NEW ss, EsSecuencia(ss), \A i \in 1..Len(ss) : EsSecuencia(ss[i])
    PROVE  EsSecuencia(FlattenSeq(ss)) /\ ElementosDe(FlattenSeq(ss), ss)
<1> DEFINE n == Len(ss)
<1>1. n \in Nat
  BY Secuencia
<1>2. CASE n = 0
  <2>1. FlattenSeq(ss) = ss
    BY <1>2 DEF FlattenSeq
  <2> QED BY <1>2, <2>1 DEF ElementosDe
<1>3. CASE n # 0
  <2>1. PICK f : Uniones(f, ss, n) /\ FlattenSeq(ss) = f[n]
    BY <1>1, <1>3, AplanarDe
  <2> DEFINE Bien(m) == m \in 1..n => EsSecuencia(f[m]) /\ ElementosDe(f[m], ss)
             T == {m \in Nat : Bien(m)}
  <2>2. Bien(0)
    OBVIOUS
  <2>3. ASSUME NEW m \in Nat, Bien(m) PROVE Bien(m + 1)
    <3> SUFFICES ASSUME m + 1 \in 1..n PROVE EsSecuencia(f[m + 1]) /\ ElementosDe(f[m + 1], ss)
      OBVIOUS
    <3>1. f[m + 1] = IF m + 1 = 1 THEN ss[1] ELSE f[(m + 1) - 1] \o ss[m + 1]
      BY <2>1 DEF Uniones
    <3>2. EsSecuencia(ss[m + 1]) /\ ElementosDe(ss[m + 1], ss)
      BY DEF ElementosDe
    <3>3. CASE m = 0
      BY <3>1, <3>2, <3>3
    <3>4. CASE m # 0
      <4>1. m \in 1..n /\ (m + 1) - 1 = m /\ m + 1 # 1
        BY <1>1, <3>4
      <4>2. EsSecuencia(f[m]) /\ ElementosDe(f[m], ss)
        BY <2>3, <4>1
      <4>3. f[m + 1] = f[m] \o ss[m + 1]
        BY <3>1, <4>1
      <4> QED BY <3>2, <4>2, <4>3, ElementosUnidos
    <3> QED BY <3>3, <3>4
  <2> HIDE DEF Bien
  <2>4. T = Nat
    <3>1. T \in SUBSET Nat /\ 0 \in T
      BY <2>2
    <3>2. \A m \in T : m + 1 \in T
      BY <2>3
    <3> HIDE DEF T
    <3> QED BY <3>1, <3>2, Induccion
  <2>5. Bien(n)
    BY <1>1, <2>4
  <2>6. n \in 1..n
    BY <1>1, <1>3
  <2> QED BY <2>1, <2>5, <2>6 DEF Bien
<1> QED BY <1>2, <1>3

\* The first m sequences are in s.
TieneLas(s, ss, m) == \A i \in 1..m : \A j \in 1..Len(ss[i]) : \E k \in 1..Len(s) : s[k] = ss[i][j]

\* One sequence more.
LEMMA TieneUnaMas ==
    ASSUME NEW ss, NEW m \in Nat, NEW a, EsSecuencia(a), TieneLas(a, ss, m), EsSecuencia(ss[m + 1])
    PROVE  EsSecuencia(a \o ss[m + 1]) /\ TieneLas(a \o ss[m + 1], ss, m + 1)
<1> DEFINE b == ss[m + 1]
           c == a \o b
<1>1. /\ EsSecuencia(c) /\ Len(c) = Len(a) + Len(b) /\ \A i \in 1..Len(a) : c[i] = a[i]
      /\ \A i \in 1..Len(b) : c[Len(a) + i] = b[i]
  BY SecuenciaUnida
<1>2. Len(a) \in Nat /\ Len(b) \in Nat
  BY Secuencia
<1> HIDE DEF c
<1>3. ASSUME NEW i \in 1..m + 1, NEW j \in 1..Len(ss[i])
      PROVE  \E k \in 1..Len(c) : c[k] = ss[i][j]
  <2>1. CASE i = m + 1
    <3>1. j \in 1..Len(b) /\ ss[i][j] = b[j]
      BY <2>1
    <3> HIDE DEF b
    <3>2. Len(a) + j \in 1..Len(c) /\ c[Len(a) + j] = b[j]
      BY <1>1, <1>2, <3>1
    <3> QED BY <3>1, <3>2
  <2>2. CASE i # m + 1
    <3>1. i \in 1..m
      BY <2>2
    <3>2. PICK k \in 1..Len(a) : a[k] = ss[i][j]
      BY <3>1 DEF TieneLas
    <3> HIDE DEF b
    <3>3. k \in 1..Len(c) /\ c[k] = a[k]
      BY <1>1, <1>2
    <3> QED BY <3>2, <3>3
  <2> QED BY <2>1, <2>2
<1> QED BY <1>1, <1>3 DEF c, TieneLas

\* What FlattenSeq gives has every element of the parts.
LEMMA AplanadaTiene ==
    ASSUME NEW ss, EsSecuencia(ss), \A i \in 1..Len(ss) : EsSecuencia(ss[i])
    PROVE  TieneLas(FlattenSeq(ss), ss, Len(ss))
<1> DEFINE n == Len(ss)
<1>1. n \in Nat
  BY Secuencia
<1>2. CASE n = 0
  BY <1>2 DEF TieneLas
<1>3. CASE n # 0
  <2>1. PICK f : Uniones(f, ss, n) /\ FlattenSeq(ss) = f[n]
    BY <1>1, <1>3, AplanarDe
  <2> DEFINE Bien(m) == m \in 1..n => EsSecuencia(f[m]) /\ TieneLas(f[m], ss, m)
             T == {m \in Nat : Bien(m)}
  <2>2. Bien(0)
    OBVIOUS
  <2>3. ASSUME NEW m \in Nat, Bien(m) PROVE Bien(m + 1)
    <3> SUFFICES ASSUME m + 1 \in 1..n PROVE EsSecuencia(f[m + 1]) /\ TieneLas(f[m + 1], ss, m + 1)
      OBVIOUS
    <3>1. f[m + 1] = IF m + 1 = 1 THEN ss[1] ELSE f[(m + 1) - 1] \o ss[m + 1]
      BY <2>1 DEF Uniones
    <3>2. EsSecuencia(ss[m + 1])
      OBVIOUS
    <3>3. CASE m = 0
      <4>1. f[m + 1] = ss[1] /\ EsSecuencia(ss[1])
        BY <3>1, <3>2, <3>3
      <4>2. \A i \in 1..m + 1 : i = 1
        BY <3>3
      <4> QED BY <4>1, <4>2 DEF TieneLas
    <3>4. CASE m # 0
      <4>1. m \in 1..n /\ (m + 1) - 1 = m /\ m + 1 # 1
        BY <1>1, <3>4
      <4>2. EsSecuencia(f[m]) /\ TieneLas(f[m], ss, m)
        BY <2>3, <4>1
      <4>3. f[m + 1] = f[m] \o ss[m + 1]
        BY <3>1, <4>1
      <4> QED BY <3>2, <4>2, <4>3, TieneUnaMas
    <3> QED BY <3>3, <3>4
  <2> HIDE DEF Bien
  <2>4. T = Nat
    <3>1. T \in SUBSET Nat /\ 0 \in T
      BY <2>2
    <3>2. \A m \in T : m + 1 \in T
      BY <2>3
    <3> HIDE DEF T
    <3> QED BY <3>1, <3>2, Induccion
  <2>5. Bien(n)
    BY <1>1, <2>4
  <2>6. n \in 1..n
    BY <1>1, <1>3
  <2> QED BY <2>1, <2>5, <2>6 DEF Bien
<1> QED BY <1>2, <1>3

-----------------------------------------------------------------------------
(* Reading. *)

\* f are the states of reading texto from L.
Lecturas(f, L, texto) ==
    f = [i \in 0..Len(texto) |-> IF i = 0 THEN L ELSE AnalizarLinea(f[i - 1], texto[i])]

\* Reading texto from L gives M.
Leida(L, texto, M) == \E f : Lecturas(f, L, texto) /\ M = f[Len(texto)]

\* Nothing is read from no line.
LEMMA LeidaVacia ==
    ASSUME NEW L, NEW texto, Len(texto) = 0
    PROVE  Leida(L, texto, L)
<1>1. PICK f : f = [i \in 0..0 |-> L]
  OBVIOUS
<1>2. Lecturas(f, L, texto) /\ L = f[Len(texto)]
  BY <1>1 DEF Lecturas
<1> QED BY <1>2 DEF Leida

\* A line.
LEMMA LeidaUna ==
    ASSUME NEW L, NEW linea
    PROVE  Leida(L, <<linea>>, AnalizarLinea(L, linea))
<1> DEFINE M == AnalizarLinea(L, linea)
<1>1. PICK f : f = [i \in 0..1 |-> IF i = 0 THEN L ELSE M]
  OBVIOUS
<1>2. Len(<<linea>>) = 1 /\ <<linea>>[1] = linea
  BY DeUna
<1>3. f[0] = L /\ f[1] = M
  BY <1>1
<1> DEFINE w == [i \in 0..Len(<<linea>>) |-> IF i = 0 THEN L ELSE AnalizarLinea(f[i - 1], <<linea>>[i])]
<1>4. w = [i \in 0..1 |-> IF i = 0 THEN L ELSE AnalizarLinea(f[i - 1], <<linea>>[i])]
  BY <1>2
<1>5. ASSUME NEW i \in 0..1 PROVE f[i] = w[i]
  <2>1. CASE i = 0
    BY <1>3, <1>4, <2>1
  <2>2. CASE i = 1
    <3>1. w[1] = AnalizarLinea(f[0], <<linea>>[1])
      BY <1>4
    <3> QED BY <1>2, <1>3, <2>2, <3>1
  <2> QED BY <2>1, <2>2
<1> HIDE DEF w, M
<1>6. f = w
  <2>1. f = [i \in 0..1 |-> f[i]] /\ w = [i \in 0..1 |-> w[i]]
    BY <1>1, <1>4
  <2> HIDE <1>1, <1>4
  <2>2. [i \in 0..1 |-> f[i]] = [i \in 0..1 |-> w[i]]
    BY <1>5
  <2> QED BY <2>1, <2>2
<1> QED BY <1>2, <1>3, <1>6 DEF Leida, Lecturas, w, M

\* A text after another.
LEMMA LeidaUnida ==
    ASSUME NEW A, NEW s, EsSecuencia(s), NEW B, NEW t, EsSecuencia(t), NEW C,
           Leida(A, s, B), Leida(B, t, C)
    PROVE  Leida(A, s \o t, C)
<1> DEFINE m == Len(s)
           n == Len(t)
           u == s \o t
<1>1. m \in Nat /\ n \in Nat
  BY Secuencia
<1>2. /\ EsSecuencia(u) /\ Len(u) = m + n /\ \A i \in 1..m : u[i] = s[i]
      /\ \A i \in 1..n : u[m + i] = t[i]
  BY SecuenciaUnida
<1>3. PICK f : Lecturas(f, A, s) /\ B = f[m]
  BY DEF Leida
<1>4. PICK g : Lecturas(g, B, t) /\ C = g[n]
  BY DEF Leida
<1>5. /\ f[0] = A /\ \A i \in 1..m : f[i] = AnalizarLinea(f[i - 1], s[i])
      /\ g[0] = B /\ \A i \in 1..n : g[i] = AnalizarLinea(g[i - 1], t[i])
  <2> HIDE DEF u
  <2>1. ASSUME NEW i \in 0..m PROVE f[i] = IF i = 0 THEN A ELSE AnalizarLinea(f[i - 1], s[i])
    BY <1>3 DEF Lecturas
  <2>2. ASSUME NEW i \in 0..n PROVE g[i] = IF i = 0 THEN B ELSE AnalizarLinea(g[i - 1], t[i])
    BY <1>4 DEF Lecturas
  <2> HIDE DEF m, n
  <2>3. f[0] = A /\ g[0] = B
    BY <1>1, <2>1, <2>2
  <2>4. ASSUME NEW i \in 1..m PROVE f[i] = AnalizarLinea(f[i - 1], s[i])
    BY <1>1, <2>1
  <2>5. ASSUME NEW i \in 1..n PROVE g[i] = AnalizarLinea(g[i - 1], t[i])
    BY <1>1, <2>2
  <2> QED BY <2>3, <2>4, <2>5
<1> HIDE DEF m, n, u
<1>6. PICK h : h = [i \in 0..m + n |-> IF i <= m THEN f[i] ELSE g[i - m]]
  OBVIOUS
<1>7. h[m + n] = C
  <2>1. CASE n = 0
    <3>1. h[m + n] = f[m] /\ g[n] = B
      BY <1>1, <1>5, <1>6, <2>1
    <3> QED BY <1>3, <1>4, <3>1 DEF m, n
  <2>2. CASE n # 0
    <3>1. h[m + n] = g[(m + n) - m] /\ (m + n) - m = n
      BY <1>1, <1>6, <2>2
    <3> QED BY <1>4, <3>1 DEF n
  <2> QED BY <2>1, <2>2
<1>8. ASSUME NEW i \in 1..m + n PROVE h[i] = AnalizarLinea(h[i - 1], u[i])
  <2>1. CASE i <= m
    <3>1. i \in 1..m /\ h[i] = f[i] /\ h[i - 1] = f[i - 1]
      BY <1>1, <1>6, <2>1
    <3> QED BY <1>2, <1>5, <3>1
  <2>2. CASE ~(i <= m)
    <3> DEFINE j == i - m
    <3>1. j \in 1..n /\ i = m + j /\ h[i] = g[j]
      BY <1>1, <1>6, <2>2
    <3>2. h[i - 1] = g[j - 1]
      <4>1. CASE i - 1 = m
        <5>1. h[i - 1] = f[m] /\ j - 1 = 0
          BY <1>1, <1>6, <4>1
        <5> QED BY <1>3, <1>5, <5>1 DEF m
      <4>2. CASE i - 1 # m
        BY <1>1, <1>6, <2>2, <4>2
      <4> QED BY <4>1, <4>2
    <3> HIDE DEF j
    <3>3. u[i] = t[j] /\ g[j] = AnalizarLinea(g[j - 1], t[j])
      BY <1>2, <1>5, <3>1
    <3> QED BY <3>1, <3>2, <3>3
  <2> QED BY <2>1, <2>2
<1>9. h[0] = A
  BY <1>1, <1>5, <1>6
<1>10. Lecturas(h, A, u)
  <2> DEFINE w(i) == IF i = 0 THEN A ELSE AnalizarLinea(h[i - 1], u[i])
  <2>1. ASSUME NEW i \in 0..m + n PROVE h[i] = w(i)
    <3>1. CASE i = 0
      BY <1>9, <3>1
    <3>2. CASE i # 0
      <4>1. i \in 1..m + n
        BY <1>1, <3>2
      <4> QED BY <1>8, <3>2, <4>1
    <3> QED BY <3>1, <3>2
  <2>2. h = [i \in 0..m + n |-> h[i]]
    BY <1>6
  <2> HIDE DEF w
  <2>3. h = [i \in 0..m + n |-> w(i)]
    BY <2>1, <2>2
  <2> QED BY <1>2, <2>3 DEF Lecturas, w
<1> QED BY <1>2, <1>7, <1>10 DEF Leida, u

\* Reading gives one state.
LEMMA LeidaEsUna ==
    ASSUME NEW L, NEW texto, EsSecuencia(texto), NEW f, Lecturas(f, L, texto), NEW g, Lecturas(g, L, texto)
    PROVE  f[Len(texto)] = g[Len(texto)]
<1> DEFINE n == Len(texto)
           T == {k \in Nat : k \in 0..n => f[k] = g[k]}
<1>1. n \in Nat
  BY Secuencia
<1>2. ASSUME NEW i \in 0..n
      PROVE  /\ f[i] = IF i = 0 THEN L ELSE AnalizarLinea(f[i - 1], texto[i])
             /\ g[i] = IF i = 0 THEN L ELSE AnalizarLinea(g[i - 1], texto[i])
  BY DEF Lecturas
<1> HIDE DEF n
<1>3. 0 \in T
  BY <1>1, <1>2
<1>4. ASSUME NEW k \in T PROVE k + 1 \in T
  <2> SUFFICES ASSUME k + 1 \in 0..n PROVE f[k + 1] = g[k + 1]
    OBVIOUS
  <2>1. k \in 0..n /\ k + 1 # 0 /\ (k + 1) - 1 = k
    BY <1>1
  <2>2. f[k] = g[k]
    BY <2>1
  <2>3. /\ f[k + 1] = AnalizarLinea(f[(k + 1) - 1], texto[k + 1])
        /\ g[k + 1] = AnalizarLinea(g[(k + 1) - 1], texto[k + 1])
    BY <1>2, <2>1
  <2> QED BY <2>1, <2>2, <2>3
<1>5. T = Nat
  <2>1. T \in SUBSET Nat
    OBVIOUS
  <2> HIDE DEF T
  <2> QED BY <1>3, <1>4, <2>1, Induccion
<1>6. n \in T /\ n \in 0..n
  BY <1>1, <1>5
<1> QED BY <1>6 DEF n

\* What load gives, from how the text is read.
LEMMA CargarDe ==
    ASSUME NEW texto, EsSecuencia(texto), NEW M, Leida(LecturaVacia, texto, M)
    PROVE  Cargar(texto) = M
<1> DEFINE paso(h) == [i \in 0..Len(texto) |->
                          IF i = 0 THEN LecturaVacia ELSE AnalizarLinea(h[i - 1], texto[i])]
           lectura == CHOOSE h : h = paso(h)
<1>1. Cargar(texto) = lectura[Len(texto)]
  BY DEF Cargar
<1>2. ASSUME NEW h PROVE Lecturas(h, LecturaVacia, texto) <=> h = paso(h)
  BY DEF Lecturas
<1> HIDE DEF paso
<1>3. PICK f : Lecturas(f, LecturaVacia, texto) /\ M = f[Len(texto)]
  BY DEF Leida
<1>4. lectura = paso(lectura)
  BY <1>2, <1>3
<1> HIDE DEF lectura
<1>5. Lecturas(lectura, LecturaVacia, texto)
  BY <1>2, <1>4
<1>6. lectura[Len(texto)] = f[Len(texto)]
  BY <1>3, <1>5, LeidaEsUna
<1> QED BY <1>1, <1>3, <1>6

\* What reads in parts reads flattened.
LEMMA LeidaAplanada ==
    ASSUME NEW ss, EsSecuencia(ss), \A i \in 1..Len(ss) : EsSecuencia(ss[i]),
           NEW g, \A i \in 1..Len(ss) : Leida(g[i - 1], ss[i], g[i])
    PROVE  Leida(g[0], FlattenSeq(ss), g[Len(ss)])
<1> DEFINE n == Len(ss)
<1>1. n \in Nat
  BY Secuencia
<1>2. CASE n = 0
  <2>1. FlattenSeq(ss) = ss
    BY <1>2 DEF FlattenSeq
  <2> QED BY <1>2, <2>1, LeidaVacia
<1>3. CASE n # 0
  <2>1. PICK f : Uniones(f, ss, n) /\ FlattenSeq(ss) = f[n]
    BY <1>1, <1>3, AplanarDe
  <2> DEFINE Bien(m) == m \in 1..n => EsSecuencia(f[m]) /\ Leida(g[0], f[m], g[m])
             T == {m \in Nat : Bien(m)}
  <2>2. Bien(0)
    OBVIOUS
  <2>3. ASSUME NEW m \in Nat, Bien(m) PROVE Bien(m + 1)
    <3> SUFFICES ASSUME m + 1 \in 1..n PROVE EsSecuencia(f[m + 1]) /\ Leida(g[0], f[m + 1], g[m + 1])
      OBVIOUS
    <3>1. f[m + 1] = IF m + 1 = 1 THEN ss[1] ELSE f[(m + 1) - 1] \o ss[m + 1]
      BY <2>1 DEF Uniones
    <3>2. EsSecuencia(ss[m + 1]) /\ Leida(g[(m + 1) - 1], ss[m + 1], g[m + 1]) /\ (m + 1) - 1 = m
      OBVIOUS
    <3>3. CASE m = 0
      BY <3>1, <3>2, <3>3
    <3>4. CASE m # 0
      <4>1. m \in 1..n /\ m + 1 # 1
        BY <1>1, <3>4
      <4>2. EsSecuencia(f[m]) /\ Leida(g[0], f[m], g[m])
        BY <2>3, <4>1
      <4>3. f[m + 1] = f[m] \o ss[m + 1]
        BY <3>1, <3>2, <4>1
      <4>4. EsSecuencia(f[m + 1])
        BY <3>2, <4>2, <4>3, SecuenciaUnida
      <4>5. Leida(g[0], f[m + 1], g[m + 1])
        BY <3>2, <4>2, <4>3, LeidaUnida
      <4> QED BY <4>4, <4>5
    <3> QED BY <3>3, <3>4
  <2> HIDE DEF Bien
  <2>4. T = Nat
    <3>1. T \in SUBSET Nat /\ 0 \in T
      BY <2>2
    <3>2. \A m \in T : m + 1 \in T
      BY <2>3
    <3> HIDE DEF T
    <3> QED BY <3>1, <3>2, Induccion
  <2>5. Bien(n)
    BY <1>1, <2>4
  <2>6. n \in 1..n
    BY <1>1, <1>3
  <2> QED BY <2>1, <2>5, <2>6 DEF Bien
<1> QED BY <1>2, <1>3
-----------------------------------------------------------------------------
(* The lines of the file. *)

\* A reading that has not failed.
Estado(alias, seccion, cs) == [alias |-> alias, seccion |-> seccion, cuentas |-> cs, entera |-> TRUE]

\* An entry that reads back: words in which no keyword appears.
EntradaLegible(e) ==
    /\ \E w : e.label = <<w>> /\ Limpia(w)
    /\ \E w : e.dir = <<w>> /\ Limpia(w)
    /\ e = [txn |-> e.txn, label |-> e.label, monto |-> e.monto, dir |-> e.dir, bloque |-> e.bloque]
    /\ Limpia(e.txn) /\ Limpia(e.monto) /\ Limpia(e.bloque)
    /\ e.monto \in Montos

\* An entry more.
LEMMA ConDe ==
    ASSUME NEW cs, NEW alias, NEW cuenta
    PROVE  /\ DOMAIN Con(cs, alias, cuenta) = {alias} \cup DOMAIN cs
           /\ Con(cs, alias, cuenta)[alias] = cuenta
           /\ \A c \in DOMAIN cs : c # alias => Con(cs, alias, cuenta)[c] = cs[c]
           /\ Con(cs, alias, cuenta) = [c \in {alias} \cup DOMAIN cs |-> Con(cs, alias, cuenta)[c]]
  BY DEF Con

\* The value of an entry that is there changes.
LEMMA ConOtra ==
    ASSUME NEW cs, NEW alias, NEW a, NEW b
    PROVE  [Con(cs, alias, a) EXCEPT ![alias] = b] = Con(cs, alias, b)
  BY DEF Con

\* The first five keywords.
LEMMA ClavesDe ==
    /\ DOMAIN Claves = 1..5 /\ Claves[1] = "WALLET" /\ Claves[2] = "SENDING" /\ Claves[3] = "SENT"
    /\ Claves[4] = "RECEIVING" /\ Claves[5] = "RECEIVED"
  BY DEF Claves, Secciones

\* The sections, which are keywords.
LEMMA SeccionesDe ==
    /\ DOMAIN Secciones = 1..4 /\ Secciones[1] = "SENDING" /\ Secciones[2] = "SENT"
    /\ Secciones[3] = "RECEIVING" /\ Secciones[4] = "RECEIVED"
    /\ Range(Secciones) = {"SENDING", "SENT", "RECEIVING", "RECEIVED"}
    /\ Range(Claves) = {"WALLET"} \cup Range(Secciones)
<1>1. /\ DOMAIN Secciones = 1..4 /\ Secciones[1] = "SENDING" /\ Secciones[2] = "SENT"
      /\ Secciones[3] = "RECEIVING" /\ Secciones[4] = "RECEIVED"
  BY DEF Secciones
<1>2. 1..4 = {1, 2, 3, 4} /\ 1..5 = {1, 2, 3, 4, 5}
  OBVIOUS
<1>3. Range(Secciones) = {"SENDING", "SENT", "RECEIVING", "RECEIVED"}
  BY <1>1, <1>2 DEF Range
<1>4. Range(Claves) = {"WALLET"} \cup Range(Secciones)
  BY <1>2, <1>3, ClavesDe DEF Range
<1> QED BY <1>1, <1>3, <1>4

\* What the header is, from what the line has.
LEMMA MinimoDe ==
    ASSUME NEW T \in SUBSET Nat, NEW x \in T, \A y \in T : x <= y
    PROVE  Min(T) = x
<1>1. \A z \in T : (\A y \in T : z <= y) => z = x
  OBVIOUS
<1> QED BY <1>1 DEF Min

\* A line that begins with WALLET is one of an account, whatever else it has.
LEMMA EncabezadoDeCuenta ==
    ASSUME NEW linea, 1 \in DOMAIN linea, linea[1] = Palabra("WALLET")
    PROVE  Encabezado(linea) = "WALLET"
<1> DEFINE contenidas == {i \in DOMAIN Claves : Contiene(linea, Claves[i])}
<1>1. Contiene(linea, "WALLET")
  <2>1. Palabra("WALLET")[1] = "WALLET" /\ 1 \in DOMAIN Palabra("WALLET")
    BY DEF Palabra
  <2>2. "WALLET" \in Range(linea[1])
    BY <2>1 DEF Range
  <2> QED BY <2>2 DEF Contiene
<1>2. contenidas \in SUBSET Nat /\ 1 \in contenidas /\ \A y \in contenidas : 1 <= y
  BY <1>1, ClavesDe
<1> HIDE DEF contenidas
<1>3. Min(contenidas) = 1
  BY <1>2, MinimoDe
<1> QED BY <1>2, <1>3, ClavesDe DEF Encabezado, contenidas

\* The line of a section is not taken for one of an account or of another section.
LEMMA EncabezadoDeSeccion ==
    ASSUME NEW s \in Range(Secciones)
    PROVE  Encabezado(<<Palabra(s)>>) = s
<1> DEFINE linea == <<Palabra(s)>>
           contenidas == {i \in DOMAIN Claves : Contiene(linea, Claves[i])}
<1>1. ASSUME NEW k PROVE Contiene(linea, k) <=> k = s
  <2>1. Palabra(s) = <<s>> /\ DOMAIN linea = {1} /\ linea[1] = <<s>>
    BY DEF Palabra
  <2>2. Range(<<s>>) = {s}
    <3>1. <<s>>[1] = s /\ DOMAIN <<s>> = {1}
      OBVIOUS
    <3> QED BY <3>1 DEF Range
  <2> HIDE DEF linea
  <2> QED BY <2>1, <2>2 DEF Contiene
<1> HIDE DEF linea
<1>2. PICK k \in 2..5 : s = Claves[k]
  BY SeccionesDe, ClavesDe
<1>3. contenidas = {k}
  BY <1>1, <1>2, ClavesDe
<1> HIDE DEF contenidas
<1>4. Min(contenidas) = k
  <2>1. contenidas \in SUBSET Nat /\ k \in contenidas /\ \A y \in contenidas : k <= y
    BY <1>3
  <2> QED BY <2>1, MinimoDe
<1> QED BY <1>2, <1>3, <1>4 DEF Encabezado, contenidas, linea

\* A line without keywords is one of an entry.
LEMMA EncabezadoDeEntrada ==
    ASSUME NEW linea, \A i \in DOMAIN linea : Limpia(linea[i])
    PROVE  Encabezado(linea) = "entrada"
<1>1. ASSUME NEW i \in DOMAIN Claves PROVE ~Contiene(linea, Claves[i])
  <2>1. Claves[i] \in Range(Claves)
    BY DEF Range
  <2> QED BY <2>1 DEF Contiene, Limpia
<1> QED BY <1>1 DEF Encabezado

-----------------------------------------------------------------------------
(* Sections, accounts and files that are read back. *)

\* An account and its entries that read back.
CuentaLegible(c) ==
    /\ c = [dir |-> c.dir, privada |-> c.privada, listas |-> c.listas]
    /\ DOMAIN c.listas = Range(Secciones) /\ c.listas = [s \in Range(Secciones) |-> c.listas[s]]
    /\ \A s \in Range(Secciones) :
          EsSecuencia(c.listas[s]) /\ \A i \in 1..Len(c.listas[s]) : EntradaLegible(c.listas[s][i])

\* A sequence with a sequence of one element after it.
LEMMA ConUna ==
    ASSUME NEW s, EsSecuencia(s), NEW v, EsSecuencia(v), Len(v) = 1
    PROVE  /\ EsSecuencia(s \o v) /\ Len(s \o v) = Len(s) + 1 /\ (s \o v)[Len(s) + 1] = v[1]
           /\ \A i \in 1..Len(s) : (s \o v)[i] = s[i]
<1> DEFINE r == s \o v
<1>1. EsSecuencia(r) /\ Len(r) = Len(s) + Len(v)
  BY SecuenciaUnida
<1>2. \A i \in 1..Len(s) : r[i] = s[i]
  BY UnidaPrimera
<1>3. \A i \in 1..Len(v) : r[Len(s) + i] = v[i]
  BY UnidaSegunda
<1> HIDE DEF r
<1>4. Len(s) \in Nat /\ 1 \in 1..Len(v)
  BY Secuencia
<1>5. Len(r) = Len(s) + 1 /\ r[Len(s) + 1] = v[1]
  BY <1>1, <1>3, <1>4
<1> QED BY <1>1, <1>2, <1>5 DEF r

\* The line of an entry has five words, and none has a keyword.
LEMMA LineaEntradaDe ==
    ASSUME NEW e, EntradaLegible(e)
    PROVE  /\ Len(LineaEntrada(e)) = 5 /\ DOMAIN LineaEntrada(e) = 1..5
           /\ LineaEntrada(e)[1] = e.txn /\ e.label = <<LineaEntrada(e)[2]>>
           /\ LineaEntrada(e)[3] = e.monto /\ e.dir = <<LineaEntrada(e)[4]>>
           /\ LineaEntrada(e)[5] = e.bloque
           /\ \A i \in 1..5 : Limpia(LineaEntrada(e)[i])
<1>1. /\ (\E w : e.label = <<w>> /\ Limpia(w)) /\ (\E w : e.dir = <<w>> /\ Limpia(w))
      /\ Limpia(e.txn) /\ Limpia(e.monto) /\ Limpia(e.bloque)
  BY DEF EntradaLegible
<1>2. PICK w : e.label = <<w>> /\ Limpia(w)
  BY <1>1
<1>3. PICK u : e.dir = <<u>> /\ Limpia(u)
  BY <1>1
<1> DEFINE a == <<e.txn>>
           p2 == <<w>>
           p3 == <<e.monto>>
           p4 == <<u>>
           p5 == <<e.bloque>>
           b == a \o p2
           c == b \o p3
           d == c \o p4
           l == d \o p5
<1>4. LineaEntrada(e) = l
  BY <1>2, <1>3 DEF LineaEntrada
<1>5. /\ EsSecuencia(a) /\ Len(a) = 1 /\ a[1] = e.txn
      /\ EsSecuencia(p2) /\ Len(p2) = 1 /\ p2[1] = w
      /\ EsSecuencia(p3) /\ Len(p3) = 1 /\ p3[1] = e.monto
      /\ EsSecuencia(p4) /\ Len(p4) = 1 /\ p4[1] = u
      /\ EsSecuencia(p5) /\ Len(p5) = 1 /\ p5[1] = e.bloque
  BY DeUna
<1> HIDE DEF a, p2, p3, p4, p5
<1>6. EsSecuencia(b) /\ Len(b) = 2 /\ b[1] = e.txn /\ b[2] = w
  <2>1. /\ EsSecuencia(b) /\ Len(b) = Len(a) + 1 /\ b[Len(a) + 1] = w
        /\ \A i \in 1..Len(a) : b[i] = a[i]
    BY <1>5, ConUna
  <2> HIDE DEF b
  <2>2. Len(a) + 1 = 2 /\ 1 \in 1..Len(a)
    BY <1>5
  <2>3. Len(b) = 2 /\ b[1] = a[1]
    BY <2>1, <2>2
  <2> QED BY <1>5, <2>1, <2>2, <2>3
<1> HIDE DEF b
<1>7. EsSecuencia(c) /\ Len(c) = 3 /\ c[1] = e.txn /\ c[2] = w /\ c[3] = e.monto
  <2>0. EsSecuencia(b)
    BY <1>6
  <2>1. /\ EsSecuencia(c) /\ Len(c) = Len(b) + 1 /\ c[Len(b) + 1] = e.monto
        /\ \A i \in 1..Len(b) : c[i] = b[i]
    BY <1>5, <2>0, ConUna
  <2> HIDE DEF c
  <2>2. Len(b) + 1 = 3 /\ 1 \in 1..Len(b) /\ 2 \in 1..Len(b)
    BY <1>6
  <2>3. Len(c) = 3 /\ c[1] = b[1] /\ c[2] = b[2]
    BY <2>1, <2>2
  <2> QED BY <1>6, <2>1, <2>2, <2>3
<1> HIDE DEF c
<1>8. EsSecuencia(d) /\ Len(d) = 4 /\ d[1] = e.txn /\ d[2] = w /\ d[3] = e.monto /\ d[4] = u
  <2>0. EsSecuencia(c)
    BY <1>7
  <2>1. /\ EsSecuencia(d) /\ Len(d) = Len(c) + 1 /\ d[Len(c) + 1] = u
        /\ \A i \in 1..Len(c) : d[i] = c[i]
    BY <1>5, <2>0, ConUna
  <2> HIDE DEF d
  <2>2. Len(c) + 1 = 4 /\ 1 \in 1..Len(c) /\ 2 \in 1..Len(c) /\ 3 \in 1..Len(c)
    BY <1>7
  <2>3. Len(d) = 4 /\ d[1] = c[1] /\ d[2] = c[2] /\ d[3] = c[3]
    BY <2>1, <2>2
  <2> QED BY <1>7, <2>1, <2>2, <2>3
<1> HIDE DEF d
<1>9. /\ EsSecuencia(l) /\ Len(l) = 5 /\ l[1] = e.txn /\ l[2] = w /\ l[3] = e.monto /\ l[4] = u
      /\ l[5] = e.bloque
  <2>0. EsSecuencia(d)
    BY <1>8
  <2>1. /\ EsSecuencia(l) /\ Len(l) = Len(d) + 1 /\ l[Len(d) + 1] = e.bloque
        /\ \A i \in 1..Len(d) : l[i] = d[i]
    BY <1>5, <2>0, ConUna
  <2> HIDE DEF l
  <2>2. Len(d) + 1 = 5 /\ 1 \in 1..Len(d) /\ 2 \in 1..Len(d) /\ 3 \in 1..Len(d) /\ 4 \in 1..Len(d)
    BY <1>8
  <2>3. Len(l) = 5 /\ l[1] = d[1] /\ l[2] = d[2] /\ l[3] = d[3] /\ l[4] = d[4]
    BY <2>1, <2>2
  <2> QED BY <1>8, <2>1, <2>2, <2>3
<1> HIDE DEF l
<1>10. DOMAIN l = 1..5
  BY <1>9, Secuencia
<1>11. ASSUME NEW i \in 1..5 PROVE Limpia(l[i])
  <2>1. i = 1 \/ i = 2 \/ i = 3 \/ i = 4 \/ i = 5
    OBVIOUS
  <2> QED BY <1>1, <1>2, <1>3, <1>9, <2>1
<1>12. e.label = <<l[2]>> /\ e.dir = <<l[4]>>
  BY <1>2, <1>3, <1>9
<1> QED BY <1>4, <1>9, <1>10, <1>11, <1>12

\* What the reading sets of its state.
LEMMA EstadoCambia ==
    ASSUME NEW alias, NEW s, NEW cs, NEW x
    PROVE  /\ [Estado(alias, s, cs) EXCEPT !.seccion = x] = Estado(alias, x, cs)
           /\ [Estado(alias, s, cs) EXCEPT !.cuentas = x] = Estado(alias, s, x)
<1>1. PICK e : e = TRUE
  OBVIOUS
<1> DEFINE estado(a, t, c) == [alias |-> a, seccion |-> t, cuentas |-> c, entera |-> e]
<1>2. \A a, t, c : Estado(a, t, c) = estado(a, t, c)
  BY <1>1 DEF Estado
<1>3. [estado(alias, s, cs) EXCEPT !.seccion = x] = estado(alias, x, cs)
  BY SMT
<1>4. [estado(alias, s, cs) EXCEPT !.cuentas = x] = estado(alias, s, x)
  BY SMT
<1> HIDE DEF estado
<1> QED BY <1>2, <1>3, <1>4

\* The line of an entry reads back as the entry, in the section and the account where the reading is.
LEMMA EntradaSeLee ==
    ASSUME NEW alias, NEW s \in Range(Secciones), NEW cs, NEW c, NEW e, EntradaLegible(e)
    PROVE  AnalizarLinea(Estado(alias, s, Con(cs, alias, c)), LineaEntrada(e))
             = Estado(alias, s, Con(cs, alias, ConEntrada(c, s, e)))
<1> DEFINE L == Estado(alias, s, Con(cs, alias, c))
           linea == LineaEntrada(e)
           e2 == [txn |-> linea[1], label |-> <<linea[2]>>, monto |-> Numero(linea[3]),
                  dir |-> <<linea[4]>>, bloque |-> linea[5]]
           cs2 == Con(cs, alias, c)
<1>1. /\ Len(linea) = 5 /\ DOMAIN linea = 1..5
      /\ linea[1] = e.txn /\ e.label = <<linea[2]>>
      /\ linea[3] = e.monto /\ e.dir = <<linea[4]>> /\ linea[5] = e.bloque
      /\ \A i \in 1..5 : Limpia(linea[i])
  BY LineaEntradaDe
<1> HIDE DEF linea
<1>2. e2 = e
  <2>1. /\ e.monto \in Montos
        /\ e = [txn |-> e.txn, label |-> e.label, monto |-> e.monto, dir |-> e.dir, bloque |-> e.bloque]
    BY DEF EntradaLegible
  <2>2. Numero(linea[3]) = e.monto
    BY <1>1, <2>1 DEF Numero
  <2> QED BY <1>1, <2>1, <2>2
<1>3. Encabezado(linea) = "entrada"
  BY <1>1, EncabezadoDeEntrada
<1>4. alias \in DOMAIN cs2 /\ cs2[alias] = c
  BY DEF Con
<1> HIDE DEF cs2, e2
<1>5. /\ L.entera = TRUE /\ L.seccion = s /\ L.alias = alias /\ L.cuentas = cs2
      /\ L = [alias |-> alias, seccion |-> s, cuentas |-> cs2, entera |-> TRUE]
  BY DEF Estado, cs2
<1> HIDE DEF L
<1>6. AnalizarLinea(L, linea) = LeerEntrada(L, linea)
  BY <1>3, <1>5 DEF AnalizarLinea
<1>7. LeerEntrada(L, linea) = [L EXCEPT !.cuentas[alias] = ConEntrada(@, s, e2)]
  BY <1>1, <1>4, <1>5 DEF LeerEntrada, ConPalabras, e2
<1> DEFINE c2 == ConEntrada(c, s, e2)
<1>8. [L EXCEPT !.cuentas[alias] = ConEntrada(@, s, e2)]
        = [alias |-> alias, seccion |-> s, cuentas |-> [cs2 EXCEPT ![alias] = c2], entera |-> TRUE]
  <2>1. [L EXCEPT !.cuentas[alias] = ConEntrada(@, s, e2)] = [L EXCEPT !.cuentas = [cs2 EXCEPT ![alias] = c2]]
    BY <1>4, <1>5
  <2> HIDE DEF c2
  <2>2. L = Estado(alias, s, cs2)
    BY <1>5 DEF Estado
  <2> DEFINE x == [cs2 EXCEPT ![alias] = c2]
  <2>3. [L EXCEPT !.cuentas = x] = Estado(alias, s, x)
    BY <2>2, EstadoCambia
  <2> HIDE DEF L
  <2> QED BY <2>1, <2>3 DEF Estado
<1> HIDE DEF c2
<1>9. [cs2 EXCEPT ![alias] = c2] = Con(cs, alias, c2)
  BY ConOtra DEF cs2
<1>10. AnalizarLinea(L, linea)
         = [alias |-> alias, seccion |-> s, cuentas |-> Con(cs, alias, c2), entera |-> TRUE]
  BY <1>6, <1>7, <1>8, <1>9
<1> QED BY <1>2, <1>10 DEF Estado, L, linea, c2, cs2

\* The account with a list in a section.
ConLista(c, s, lista) == [c EXCEPT !.listas[s] = lista]

\* The name of a section and its entries are read.
LEMMA SeccionSeLee ==
    ASSUME NEW alias, NEW s0, NEW s \in Range(Secciones), NEW cs, NEW c,
           c.listas[s] = << >>,
           c = [dir |-> c.dir, privada |-> c.privada, listas |-> c.listas],
           c.listas = [k \in Range(Secciones) |-> c.listas[k]],
           NEW es, EsSecuencia(es), \A i \in 1..Len(es) : EntradaLegible(es[i])
    PROVE  /\ Leida(Estado(alias, s0, Con(cs, alias, c)), Seccion(s, es),
                    Estado(alias, s, Con(cs, alias, ConLista(c, s, es))))
           /\ EsSecuencia(Seccion(s, es))
<1> DEFINE A == Estado(alias, s0, Con(cs, alias, c))
           f(i) == Estado(alias, s, Con(cs, alias, ConLista(c, s, SubSeq(es, 1, i))))
           titulo == <<<<Palabra(s)>>>>
           lineas == [i \in DOMAIN es |-> LineaEntrada(es[i])]
           n == Len(es)
<1>1. n \in Nat /\ DOMAIN es = 1..n
  BY Secuencia
<1>2. EsSecuencia(titulo)
  BY DeUna
<1>3. EsSecuencia(lineas) /\ Len(lineas) = n /\ \A i \in 1..n : lineas[i] = LineaEntrada(es[i])
  <2>1. DOMAIN lineas = 1..n /\ lineas = [i \in 1..n |-> lineas[i]]
    BY <1>1
  <2>2. \A i \in 1..n : lineas[i] = LineaEntrada(es[i])
    BY <1>1
  <2> HIDE DEF lineas, n
  <2> QED BY <1>1, <2>1, <2>2, SecuenciaDe
<1>4. f(0) = Estado(alias, s, Con(cs, alias, c))
  <2>1. SubSeq(es, 1, 0) = << >>
    <3>1. EsSecuencia(SubSeq(es, 1, 0)) /\ Len(SubSeq(es, 1, 0)) = 0
      BY <1>1, Primeros
    <3> DEFINE u == SubSeq(es, 1, 0)
    <3> HIDE DEF u
    <3>2. Len(<< >>) = 0
      OBVIOUS
    <3>3. u = << >>
      BY <3>1, <3>2, SecuenciaVacia, SecuenciasIguales DEF u
    <3> QED BY <3>3 DEF u
  <2>2. ConLista(c, s, << >>) = c
    <3> DEFINE l == c.listas
    <3>1. l = [k \in Range(Secciones) |-> l[k]] /\ l[s] = << >>
      OBVIOUS
    <3> HIDE DEF l
    <3>2. [l EXCEPT ![s] = << >>] = l
      BY <3>1
    <3>3. ConLista(c, s, << >>) = [c EXCEPT !.listas = [c.listas EXCEPT ![s] = << >>]]
      BY DEF ConLista
    <3>4. [c EXCEPT !.listas = l] = c
      BY DEF l
    <3> QED BY <3>2, <3>3, <3>4 DEF l
  <2> QED BY <2>1, <2>2
<1>5. AnalizarLinea(A, <<Palabra(s)>>) = f(0)
  <2>1. Encabezado(<<Palabra(s)>>) = s /\ s # "WALLET" /\ s # "entrada"
    BY EncabezadoDeSeccion, SeccionesDe
  <2> DEFINE x == Con(cs, alias, c)
  <2> HIDE DEF x
  <2>2. A.entera = TRUE /\ [A EXCEPT !.seccion = s] = Estado(alias, s, x)
    <3>1. A = Estado(alias, s0, x)
      BY DEF x
    <3> HIDE DEF A
    <3>2. [A EXCEPT !.seccion = s] = Estado(alias, s, x)
      BY <3>1, EstadoCambia
    <3> QED BY <3>1, <3>2 DEF Estado
  <2> HIDE DEF A, f
  <2>3. AnalizarLinea(A, <<Palabra(s)>>) = [A EXCEPT !.seccion = s]
    BY <2>1, <2>2 DEF AnalizarLinea
  <2> QED BY <1>4, <2>2, <2>3 DEF x
<1>6. Leida(A, titulo, f(0))
  <2> HIDE DEF A, f
  <2>1. Leida(A, <<<<Palabra(s)>>>>, AnalizarLinea(A, <<Palabra(s)>>))
    BY LeidaUna
  <2> QED BY <1>5, <2>1
<1>7. ASSUME NEW i \in 1..n PROVE f(i) = AnalizarLinea(f(i - 1), lineas[i])
  <2> DEFINE u == SubSeq(es, 1, i - 1)
             v == SubSeq(es, 1, i)
             e == es[i]
             p == ConLista(c, s, u)
  <2>1. EntradaLegible(e)
    OBVIOUS
  <2>2. v = Append(u, e)
    BY PrimerosCrecen
  <2>3. ConEntrada(p, s, e) = ConLista(c, s, v)
    <3> HIDE DEF u, v, e
    <3>1. p.listas[s] = u
      BY DEF ConLista
    <3> QED BY <2>2, <3>1 DEF ConEntrada, ConLista
  <2>4. f(i - 1) = Estado(alias, s, Con(cs, alias, p)) /\ f(i) = Estado(alias, s, Con(cs, alias, ConLista(c, s, v)))
    OBVIOUS
  <2>5. lineas[i] = LineaEntrada(e)
    BY <1>3
  <2> HIDE DEF u, v, e, p, f, lineas
  <2>6. AnalizarLinea(Estado(alias, s, Con(cs, alias, p)), LineaEntrada(e))
          = Estado(alias, s, Con(cs, alias, ConEntrada(p, s, e)))
    BY <2>1, EntradaSeLee
  <2> QED BY <2>3, <2>4, <2>5, <2>6
<1>8. f(n) = Estado(alias, s, Con(cs, alias, ConLista(c, s, es)))
  <2>1. SubSeq(es, 1, n) = es
    <3> DEFINE u == SubSeq(es, 1, n)
    <3>1. EsSecuencia(u) /\ Len(u) = n /\ \A i \in 1..n : u[i] = es[i]
      BY <1>1, Primeros
    <3> HIDE DEF u
    <3>2. u = es
      BY <3>1, SecuenciasIguales
    <3> QED BY <3>2 DEF u
  <2> QED BY <2>1
<1>9. Leida(f(0), lineas, f(n))
  <2> HIDE DEF f, lineas
  <2>1. PICK h : h = [i \in 0..n |-> f(i)]
    OBVIOUS
  <2> HIDE DEF n
  <2> DEFINE w(i) == IF i = 0 THEN f(0) ELSE AnalizarLinea(h[i - 1], lineas[i])
  <2>2. ASSUME NEW i \in 0..n PROVE f(i) = w(i)
    <3>1. CASE i = 0
      BY <3>1
    <3>2. CASE i # 0
      <4>1. i \in 1..n /\ i - 1 \in 0..n
        BY <1>1, <3>2
      <4>2. h[i - 1] = f(i - 1)
        BY <2>1, <4>1
      <4> QED BY <1>7, <3>2, <4>1, <4>2
    <3> QED BY <3>1, <3>2
  <2> HIDE DEF w
  <2>3. h = [i \in 0..n |-> w(i)]
    BY <2>1, <2>2
  <2>4. Lecturas(h, f(0), lineas)
    BY <1>3, <2>3 DEF Lecturas, w
  <2>5. h[n] = f(n)
    BY <1>1, <2>1
  <2> QED BY <1>3, <2>4, <2>5 DEF Leida
<1>10. Seccion(s, es) = titulo \o lineas
  BY DEF Seccion
<1> HIDE DEF A, f, titulo, lineas, n
<1>11. Leida(A, titulo \o lineas, f(n))
  BY <1>2, <1>3, <1>6, <1>9, LeidaUnida
<1>12. EsSecuencia(titulo \o lineas)
  BY <1>2, <1>3, SecuenciaUnida
<1> QED BY <1>8, <1>10, <1>11, <1>12 DEF A

\* The account with what its first i sections have.
Parcial(c, i) ==
    [dir |-> c.dir, privada |-> c.privada,
     listas |-> [s \in Range(Secciones) |-> IF \E j \in 1..i : Secciones[j] = s THEN c.listas[s] ELSE << >>]]

\* One section more has been read.
LEMMA ParcialCrece ==
    ASSUME NEW c, NEW i \in 1..4
    PROVE  Parcial(c, i) = ConLista(Parcial(c, i - 1), Secciones[i], c.listas[Secciones[i]])
<1> DEFINE a == [s \in Range(Secciones) |-> IF \E j \in 1..i - 1 : Secciones[j] = s THEN c.listas[s] ELSE << >>]
           b == [s \in Range(Secciones) |-> IF \E j \in 1..i : Secciones[j] = s THEN c.listas[s] ELSE << >>]
           x == c.listas[Secciones[i]]
<1>1. b = [a EXCEPT ![Secciones[i]] = x]
  <2>1. ASSUME NEW s \in Range(Secciones) PROVE b[s] = IF s = Secciones[i] THEN x ELSE a[s]
    <3>1. CASE s = Secciones[i]
      BY <3>1
    <3>2. CASE s # Secciones[i]
      <4>1. (\E j \in 1..i : Secciones[j] = s) <=> \E j \in 1..i - 1 : Secciones[j] = s
        BY <3>2
      <4> QED BY <3>2, <4>1
    <3> QED BY <3>1, <3>2
  <2>2. b = [s \in Range(Secciones) |-> b[s]] /\ a = [s \in Range(Secciones) |-> a[s]]
    OBVIOUS
  <2> HIDE DEF a, b, x
  <2> DEFINE d == [a EXCEPT ![Secciones[i]] = x]
  <2>3. \A s \in Range(Secciones) : d[s] = IF s = Secciones[i] THEN x ELSE a[s]
    BY <2>2
  <2>4. d = [s \in Range(Secciones) |-> d[s]]
    BY <2>2
  <2> HIDE DEF d
  <2>5. [s \in Range(Secciones) |-> b[s]] = [s \in Range(Secciones) |-> d[s]]
    BY <2>1, <2>3
  <2>6. b = d
    BY <2>2, <2>4, <2>5
  <2> QED BY <2>6 DEF d
<1>2. Parcial(c, i - 1).listas = a /\ Parcial(c, i - 1) = [dir |-> c.dir, privada |-> c.privada, listas |-> a]
  BY DEF Parcial
<1>3. Parcial(c, i) = [dir |-> c.dir, privada |-> c.privada, listas |-> b]
  BY DEF Parcial
<1> DEFINE y == [a EXCEPT ![Secciones[i]] = x]
<1>4. ConLista(Parcial(c, i - 1), Secciones[i], x) = [Parcial(c, i - 1) EXCEPT !.listas = y]
  BY <1>2 DEF ConLista
<1> HIDE DEF a, b, x, y
<1>5. [Parcial(c, i - 1) EXCEPT !.listas = y] = [dir |-> c.dir, privada |-> c.privada, listas |-> y]
  BY <1>2
<1> QED BY <1>1, <1>3, <1>4, <1>5 DEF y, x

\* An account is read, after any others.
LEMMA CuentaSeLee ==
    ASSUME NEW w, NEW alias, alias = <<w>>, NEW c, CuentaLegible(c), NEW a0, NEW s0, NEW cs
    PROVE  /\ Leida(Estado(a0, s0, cs), LineasCuenta(alias, c),
                    Estado(alias, "RECEIVED", Con(cs, alias, c)))
           /\ EsSecuencia(LineasCuenta(alias, c))
<1> DEFINE linea == (<<Palabra("WALLET")>> \o alias) \o <<c.dir, c.privada>>
           nueva == CuentaNueva(c.dir, c.privada)
           ss == [i \in DOMAIN Secciones |-> Seccion(Secciones[i], c.listas[Secciones[i]])]
           g(i) == Estado(alias, IF i = 0 THEN s0 ELSE Secciones[i], Con(cs, alias, Parcial(c, i)))
           A == Estado(a0, s0, cs)
<1>1. LineasCuenta(alias, c) = <<linea>> \o FlattenSeq(ss)
  BY DEF LineasCuenta
<1>2. /\ c = [dir |-> c.dir, privada |-> c.privada, listas |-> c.listas]
      /\ c.listas = [s \in Range(Secciones) |-> c.listas[s]]
      /\ \A s \in Range(Secciones) :
            EsSecuencia(c.listas[s]) /\ \A i \in 1..Len(c.listas[s]) : EntradaLegible(c.listas[s][i])
  BY DEF CuentaLegible
<1>3. /\ Len(linea) = 4 /\ 1 \in DOMAIN linea /\ linea[1] = Palabra("WALLET")
      /\ <<linea[2]>> = alias /\ linea[3] = c.dir /\ linea[4] = c.privada
  BY DEF Palabra
<1>4. Parcial(c, 0) = nueva
  BY DEF Parcial, CuentaNueva
<1>5. AnalizarLinea(A, linea) = g(0)
  <2> HIDE DEF linea, nueva
  <2>1. Encabezado(linea) = "WALLET"
    BY <1>3, EncabezadoDeCuenta
  <2> DEFINE cs2 == Con(cs, alias, nueva)
  <2> HIDE DEF cs2
  <2>2. A.entera = TRUE /\ A.cuentas = cs /\ A.seccion = s0
    BY DEF Estado
  <2> HIDE DEF A
  <2>3. AnalizarLinea(A, linea) = LeerCuenta(A, linea)
    BY <2>1, <2>2 DEF AnalizarLinea
  <2>4. LeerCuenta(A, linea) = Estado(alias, s0, cs2)
    <3>1. ~(Len(linea) < 4)
      BY <1>3
    <3>2. LeerCuenta(A, linea) = Estado(<<linea[2]>>, A.seccion,
              Con(A.cuentas, <<linea[2]>>, CuentaNueva(linea[3], linea[4])))
      BY <3>1, Zenon DEF LeerCuenta, ConPalabras, Estado
    <3> QED BY <1>3, <2>2, <3>2, Zenon DEF cs2, nueva
  <2>5. g(0) = Estado(alias, s0, cs2)
    BY <1>4 DEF cs2
  <2> HIDE DEF g
  <2> QED BY <2>3, <2>4, <2>5
<1>6. Leida(A, <<linea>>, g(0))
  <2> HIDE DEF A, linea, g
  <2>1. Leida(A, <<linea>>, AnalizarLinea(A, linea))
    BY LeidaUna
  <2> QED BY <1>5, <2>1
<1>7. /\ EsSecuencia(ss) /\ Len(ss) = 4
      /\ \A i \in 1..4 : ss[i] = Seccion(Secciones[i], c.listas[Secciones[i]])
  <2>1. /\ DOMAIN ss = 1..4 /\ ss = [i \in 1..4 |-> ss[i]]
        /\ \A i \in 1..4 : ss[i] = Seccion(Secciones[i], c.listas[Secciones[i]])
    BY SeccionesDe
  <2> HIDE DEF ss
  <2> QED BY <2>1, SecuenciaDe
<1>8. ASSUME NEW i \in 1..4 PROVE Leida(g(i - 1), ss[i], g(i)) /\ EsSecuencia(ss[i])
  <2> DEFINE s == Secciones[i]
             p == Parcial(c, i - 1)
             es == c.listas[s]
             s1 == IF i - 1 = 0 THEN s0 ELSE Secciones[i - 1]
  <2>1. s \in Range(Secciones)
    BY SeccionesDe DEF Range
  <2>2. EsSecuencia(es) /\ \A k \in 1..Len(es) : EntradaLegible(es[k])
    BY <1>2, <2>1
  <2>3. /\ p = [dir |-> p.dir, privada |-> p.privada, listas |-> p.listas]
        /\ p.listas = [k \in Range(Secciones) |-> p.listas[k]]
    BY DEF Parcial
  <2>4. p.listas[s] = << >>
    <3>1. ASSUME NEW j \in 1..i - 1 PROVE Secciones[j] # Secciones[i]
      <4>1. i \in {1, 2, 3, 4} /\ j \in {1, 2, 3, 4} /\ j # i
        OBVIOUS
      <4> QED BY <4>1, SeccionesDe
    <3>2. p.listas = [k \in Range(Secciones) |->
                         IF \E j \in 1..i - 1 : Secciones[j] = k THEN c.listas[k] ELSE << >>]
      BY DEF Parcial
    <3> QED BY <2>1, <3>1, <3>2
  <2>5. Parcial(c, i) = ConLista(p, s, es)
    BY ParcialCrece
  <2>6. g(i - 1) = Estado(alias, s1, Con(cs, alias, p)) /\ g(i) = Estado(alias, s, Con(cs, alias, Parcial(c, i)))
    OBVIOUS
  <2>7. ss[i] = Seccion(s, es)
    BY <1>7
  <2> HIDE DEF s, p, es, s1, g, ss
  <2>8. /\ Leida(Estado(alias, s1, Con(cs, alias, p)), Seccion(s, es),
                 Estado(alias, s, Con(cs, alias, ConLista(p, s, es))))
        /\ EsSecuencia(Seccion(s, es))
    BY <2>1, <2>2, <2>3, <2>4, SeccionSeLee
  <2> QED BY <2>5, <2>6, <2>7, <2>8
<1>9. g(4) = Estado(alias, "RECEIVED", Con(cs, alias, c))
  <2>1. Parcial(c, 4) = c
    <3>1. ASSUME NEW s \in Range(Secciones) PROVE \E j \in 1..4 : Secciones[j] = s
      BY SeccionesDe DEF Range
    <3>2. [s \in Range(Secciones) |-> IF \E j \in 1..4 : Secciones[j] = s THEN c.listas[s] ELSE << >>]
            = c.listas
      BY <1>2, <3>1
    <3> QED BY <1>2, <3>2 DEF Parcial
  <2>2. Secciones[4] = "RECEIVED"
    BY SeccionesDe
  <2> QED BY <2>1, <2>2
<1>10. EsSecuencia(FlattenSeq(ss))
  <2> HIDE DEF ss, g
  <2> QED BY <1>7, <1>8, Aplanada
<1>11. Leida(g(0), FlattenSeq(ss), g(4))
  <2> HIDE DEF ss, g
  <2>1. PICK h : h = [i \in 0..4 |-> g(i)]
    OBVIOUS
  <2>2. h[0] = g(0) /\ h[4] = g(4)
    BY <2>1
  <2>3. ASSUME NEW i \in 1..4 PROVE Leida(h[i - 1], ss[i], h[i])
    <3>1. h[i - 1] = g(i - 1) /\ h[i] = g(i)
      BY <2>1
    <3> QED BY <1>8, <3>1
  <2>4. \A i \in 1..Len(ss) : Leida(h[i - 1], ss[i], h[i]) /\ EsSecuencia(ss[i])
    BY <1>7, <1>8, <2>3
  <2>5. Leida(h[0], FlattenSeq(ss), h[Len(ss)])
    BY <1>7, <2>4, LeidaAplanada
  <2> QED BY <1>7, <2>2, <2>5
<1> HIDE DEF linea, ss, g, A, nueva
<1>12. EsSecuencia(<<linea>>)
  BY DeUna
<1>13. Leida(A, <<linea>> \o FlattenSeq(ss), g(4))
  BY <1>6, <1>10, <1>11, <1>12, LeidaUnida
<1>14. EsSecuencia(<<linea>> \o FlattenSeq(ss))
  BY <1>10, <1>12, SecuenciaUnida
<1> QED BY <1>1, <1>9, <1>13, <1>14 DEF A

\* An order of a finite set is a sequence of all of it.
LEMMA OrdenDe ==
    ASSUME NEW S, IsFiniteSet(S), NEW orden \in SetToSeqs(S)
    PROVE  /\ EsSecuencia(orden) /\ orden \in Seq(S)
           /\ {orden[i] : i \in 1..Len(orden)} = S
<1> DEFINE n == Cardinality(S)
<1>1. n \in Nat
  BY FS_CardinalityType
<1>2. orden \in [1..n -> S] /\ \A i, j \in 1..n : i # j => orden[i] # orden[j]
  BY DEF SetToSeqs
<1> HIDE DEF n
<1>3. orden \in Seq(S) /\ Len(orden) = n
  BY <1>1, <1>2
<1>4. orden \in Injection(1..n, S)
  BY <1>2 DEF Injection, IsInjective
<1>5. IsFiniteSet(1..n) /\ Cardinality(1..n) = n
  BY <1>1, FS_Interval
<1>6. orden \in Surjection(1..n, S)
  BY <1>4, <1>5, FS_Injection DEF n
<1>7. {orden[i] : i \in 1..n} = S
  BY <1>2, <1>6 DEF Surjection
<1> QED BY <1>3, <1>7 DEF EsSecuencia

\* What load needs to read an account under its alias.
Legibles(cs) ==
    /\ IsFiniteSet(DOMAIN cs) /\ cs = [c \in DOMAIN cs |-> cs[c]]
    /\ \A c \in DOMAIN cs : (\E w : c = <<w>>) /\ CuentaLegible(cs[c])

\* What save writes, load reads back.
LEMMA ArchivoSeLee ==
    ASSUME NEW cs, Legibles(cs), NEW orden \in SetToSeqs(DOMAIN cs)
    PROVE  Cargar(Guardar(cs, orden)).entera /\ Cargar(Guardar(cs, orden)).cuentas = cs
<1> DEFINE n == Len(orden)
           ss == [i \in DOMAIN orden |-> LineasCuenta(orden[i], cs[orden[i]])]
           vistas(i) == {orden[j] : j \in 1..i}
           hasta(i) == [c \in vistas(i) |-> cs[c]]
           g(i) == Estado(IF i = 0 THEN << >> ELSE orden[i], IF i = 0 THEN "Undefined" ELSE "RECEIVED", hasta(i))
<1>1. /\ EsSecuencia(orden) /\ vistas(n) = DOMAIN cs /\ n \in Nat /\ DOMAIN orden = 1..n
      /\ \A i \in 1..n : orden[i] \in DOMAIN cs
  <2>1. IsFiniteSet(DOMAIN cs)
    BY DEF Legibles
  <2>2. EsSecuencia(orden) /\ vistas(n) = DOMAIN cs
    BY <2>1, OrdenDe
  <2>3. n \in Nat /\ DOMAIN orden = 1..n
    BY <2>2, Secuencia
  <2> QED BY <2>2, <2>3
<1>2. /\ EsSecuencia(ss) /\ Len(ss) = n
      /\ \A i \in 1..n : ss[i] = LineasCuenta(orden[i], cs[orden[i]])
  <2>1. /\ DOMAIN ss = 1..n /\ ss = [i \in 1..n |-> ss[i]]
        /\ \A i \in 1..n : ss[i] = LineasCuenta(orden[i], cs[orden[i]])
    BY <1>1
  <2> HIDE DEF ss, n
  <2> QED BY <1>1, <2>1, SecuenciaDe
<1>3. hasta(n) = cs
  BY <1>1 DEF Legibles
<1>4. ASSUME NEW i \in 1..n PROVE Con(hasta(i - 1), orden[i], cs[orden[i]]) = hasta(i)
  <2> DEFINE a == hasta(i - 1)
             x == orden[i]
  <2>1. vistas(i) = vistas(i - 1) \cup {x}
    <3>1. 1..i = (1..i - 1) \cup {i}
      BY <1>1
    <3> QED BY <3>1
  <2>2. DOMAIN a = vistas(i - 1) /\ \A c \in vistas(i - 1) : a[c] = cs[c]
    OBVIOUS
  <2> HIDE DEF a, x, vistas
  <2>3. Con(a, x, cs[x]) = [c \in vistas(i - 1) \cup {x} |-> cs[c]]
    BY <2>2 DEF Con
  <2>4. hasta(i) = [c \in vistas(i) |-> cs[c]]
    OBVIOUS
  <2> HIDE DEF hasta
  <2> QED BY <2>1, <2>3, <2>4 DEF a, x
<1>5. ASSUME NEW i \in 1..n PROVE Leida(g(i - 1), ss[i], g(i)) /\ EsSecuencia(ss[i])
  <2> DEFINE c == cs[orden[i]]
             a0 == IF i - 1 = 0 THEN << >> ELSE orden[i - 1]
             s0 == IF i - 1 = 0 THEN "Undefined" ELSE "RECEIVED"
             h == hasta(i - 1)
  <2>1. PICK w : orden[i] = <<w>>
    BY <1>1 DEF Legibles
  <2>2. CuentaLegible(c)
    BY <1>1 DEF Legibles
  <2>3. g(i - 1) = Estado(a0, s0, h)
    OBVIOUS
  <2>4. g(i) = Estado(orden[i], "RECEIVED", Con(h, orden[i], c))
    <3>1. i # 0
      BY <1>1
    <3>2. g(i) = Estado(orden[i], "RECEIVED", hasta(i))
      BY <3>1
    <3> HIDE DEF g, hasta
    <3> QED BY <1>4, <3>2
  <2>5. ss[i] = LineasCuenta(orden[i], c)
    BY <1>2
  <2> HIDE DEF g, h, a0, s0, c, ss
  <2>6. /\ Leida(Estado(a0, s0, h), LineasCuenta(orden[i], c),
                 Estado(orden[i], "RECEIVED", Con(h, orden[i], c)))
        /\ EsSecuencia(LineasCuenta(orden[i], c))
    BY <2>1, <2>2, CuentaSeLee
  <2> QED BY <2>3, <2>4, <2>5, <2>6
<1>6. g(0) = LecturaVacia
  <2>1. hasta(0) = << >>
    OBVIOUS
  <2> QED BY <2>1 DEF LecturaVacia, Estado
<1>7. EsSecuencia(FlattenSeq(ss)) /\ Leida(g(0), FlattenSeq(ss), g(n))
  <2> HIDE DEF ss, g, n
  <2>1. PICK f : f = [i \in 0..n |-> g(i)]
    OBVIOUS
  <2>2. f[0] = g(0) /\ f[n] = g(n)
    BY <1>1, <2>1
  <2>3. ASSUME NEW i \in 1..n PROVE Leida(f[i - 1], ss[i], f[i])
    <3>1. f[i - 1] = g(i - 1) /\ f[i] = g(i)
      BY <1>1, <2>1
    <3> QED BY <1>5, <3>1
  <2>4. \A i \in 1..Len(ss) : Leida(f[i - 1], ss[i], f[i]) /\ EsSecuencia(ss[i])
    BY <1>2, <1>5, <2>3
  <2>5. Leida(f[0], FlattenSeq(ss), f[Len(ss)])
    BY <1>2, <2>4, LeidaAplanada
  <2>6. EsSecuencia(FlattenSeq(ss))
    BY <1>2, <2>4, Aplanada
  <2> QED BY <1>2, <2>2, <2>5, <2>6
<1>8. Guardar(cs, orden) = FlattenSeq(ss)
  BY DEF Guardar
<1>9. g(n).entera = TRUE /\ g(n).cuentas = cs
  <2>1. g(n).entera = TRUE /\ g(n).cuentas = hasta(n)
    BY DEF Estado
  <2> QED BY <1>3, <2>1
<1> HIDE DEF ss, g, n
<1>10. Cargar(FlattenSeq(ss)) = g(n)
  BY <1>6, <1>7, CargarDe
<1> QED BY <1>8, <1>9, <1>10

-----------------------------------------------------------------------------
(* The inductive invariant. *)

\* The transaction of an entry is of the network, and only an entry sent has a
\* block, that is on disk and has its transaction.
EntradaBuena(tx, dr, s, e) ==
    /\ EntradaLegible(e) /\ \E t \in DOMAIN tx : e.txn = Palabra(t)
    /\ s # "SENT" => e.bloque = Nada
    /\ s = "SENT" => \E n \in 1..Len(dr) :
                        e.bloque = NombresBloques[n] /\ \E k \in 1..Len(dr[n]) : e.txn = Palabra(dr[n][k])

\* A list of an account.
ListaBuena(tx, dr, s, lista) ==
    EsSecuencia(lista) /\ \A i \in 1..Len(lista) : EntradaBuena(tx, dr, s, lista[i])

\* An account: its address, and four lists.
CuentaBuena(tx, dr, c) ==
    /\ c = [dir |-> c.dir, privada |-> c.privada, listas |-> c.listas] /\ c.dir \in Direcciones
    /\ c.listas = [s \in Range(Secciones) |-> c.listas[s]]
    /\ \A s \in Range(Secciones) : ListaBuena(tx, dr, s, c.listas[s])

\* The accounts of a wallet.
CuentasBuenas(tx, dr, cs) ==
    /\ IsFiniteSet(DOMAIN cs) /\ cs = [c \in DOMAIN cs |-> cs[c]] /\ DOMAIN cs \subseteq Aliases
    /\ \A c \in DOMAIN cs : CuentaBuena(tx, dr, cs[c])

\* The network only adds transactions and blocks.
Crece(tx, dr, tx2, dr2) ==
    /\ DOMAIN tx \subseteq DOMAIN tx2 /\ Len(dr) \in Nat /\ Len(dr2) \in Nat /\ Len(dr) <= Len(dr2)
    /\ \A n \in 1..Len(dr) : dr2[n] = dr[n]

\* An entry is still good when the network grows.
LEMMA EntradaSigue ==
    ASSUME NEW tx, NEW dr, NEW tx2, NEW dr2, Crece(tx, dr, tx2, dr2), NEW s, NEW e,
           EntradaBuena(tx, dr, s, e)
    PROVE  EntradaBuena(tx2, dr2, s, e)
<1>1. EntradaLegible(e) /\ (s # "SENT" => e.bloque = Nada)
  BY DEF EntradaBuena
<1>2. \E t \in DOMAIN tx2 : e.txn = Palabra(t)
  BY DEF EntradaBuena, Crece
<1>3. ASSUME s = "SENT"
      PROVE  \E n \in 1..Len(dr2) :
                e.bloque = NombresBloques[n] /\ \E k \in 1..Len(dr2[n]) : e.txn = Palabra(dr2[n][k])
  <2>1. PICK n \in 1..Len(dr) :
           e.bloque = NombresBloques[n] /\ \E k \in 1..Len(dr[n]) : e.txn = Palabra(dr[n][k])
    BY <1>3 DEF EntradaBuena
  <2>2. n \in 1..Len(dr2) /\ dr2[n] = dr[n]
    BY DEF Crece
  <2> QED BY <2>1, <2>2
<1> QED BY <1>1, <1>2, <1>3 DEF EntradaBuena

\* An account is still good when the network grows.
LEMMA CuentaSigue ==
    ASSUME NEW tx, NEW dr, NEW tx2, NEW dr2, Crece(tx, dr, tx2, dr2), NEW c, CuentaBuena(tx, dr, c)
    PROVE  CuentaBuena(tx2, dr2, c)
<1>1. ASSUME NEW s \in Range(Secciones) PROVE ListaBuena(tx2, dr2, s, c.listas[s])
  <2>1. ListaBuena(tx, dr, s, c.listas[s])
    BY DEF CuentaBuena
  <2> QED BY <2>1, EntradaSigue DEF ListaBuena
<1> QED BY <1>1 DEF CuentaBuena

\* The accounts are still good when the network grows.
LEMMA CuentasSiguen ==
    ASSUME NEW tx, NEW dr, NEW tx2, NEW dr2, Crece(tx, dr, tx2, dr2), NEW cs, CuentasBuenas(tx, dr, cs)
    PROVE  CuentasBuenas(tx2, dr2, cs)
<1>1. \A c \in DOMAIN cs : CuentaBuena(tx2, dr2, cs[c])
  BY CuentaSigue DEF CuentasBuenas
<1> QED BY <1>1 DEF CuentasBuenas

\* Good accounts can be read back.
LEMMA BuenasLegibles ==
    ASSUME Legible, NEW tx, NEW dr, NEW cs, CuentasBuenas(tx, dr, cs)
    PROVE  Legibles(cs)
<1>1. ASSUME NEW c \in DOMAIN cs PROVE \E w : c = <<w>>
  <2>1. c \in Aliases
    BY DEF CuentasBuenas
  <2>2. c \in Seq(Range(c)) /\ Len(c) = 1
    BY <2>1, VentanaAssumption DEF Legible, EsTexto
  <2>3. c = <<c[1]>>
    BY <2>2
  <2> QED BY <2>3
<1>2. ASSUME NEW c \in DOMAIN cs PROVE CuentaLegible(cs[c])
  <2>1. CuentaBuena(tx, dr, cs[c])
    BY DEF CuentasBuenas
  <2> DEFINE x == cs[c]
  <2> HIDE DEF x
  <2>2. CuentaBuena(tx, dr, x)
    BY <2>1 DEF x
  <2>3. DOMAIN x.listas = Range(Secciones)
    BY <2>2 DEF CuentaBuena
  <2>4. CuentaLegible(x)
    BY <2>2, <2>3 DEF CuentaBuena, ListaBuena, EntradaBuena, CuentaLegible
  <2> QED BY <2>4 DEF x
<1> QED BY <1>1, <1>2 DEF CuentasBuenas, Legibles

\* An account without transactions.
LEMMA NuevaBuena ==
    ASSUME NEW tx, NEW dr, NEW dir \in Direcciones, NEW privada
    PROVE  CuentaBuena(tx, dr, CuentaNueva(dir, privada))
<1> DEFINE c == CuentaNueva(dir, privada)
<1>1. /\ c = [dir |-> c.dir, privada |-> c.privada, listas |-> c.listas] /\ c.dir = dir
      /\ c.listas = [s \in Range(Secciones) |-> << >>]
  BY DEF CuentaNueva
<1> HIDE DEF c
<1>2. \A s \in Range(Secciones) : c.listas[s] = << >>
  BY <1>1
<1>3. \A s : ListaBuena(tx, dr, s, << >>)
  BY SecuenciaVacia DEF ListaBuena
<1>4. c.listas = [s \in Range(Secciones) |-> c.listas[s]]
  BY <1>1
<1>5. CuentaBuena(tx, dr, c)
  BY <1>1, <1>2, <1>3, <1>4 DEF CuentaBuena
<1> QED BY <1>5 DEF c

\* An entry is added to a section.
LEMMA ConEntradaBuena ==
    ASSUME NEW tx, NEW dr, NEW c, CuentaBuena(tx, dr, c), NEW s \in Range(Secciones), NEW e,
           EntradaBuena(tx, dr, s, e)
    PROVE  CuentaBuena(tx, dr, ConEntrada(c, s, e)) /\ ConEntrada(c, s, e).dir = c.dir
<1> DEFINE l == c.listas
           y == Append(l[s], e)
           m == [l EXCEPT ![s] = y]
           d == ConEntrada(c, s, e)
<1>1. /\ c = [dir |-> c.dir, privada |-> c.privada, listas |-> l] /\ c.dir \in Direcciones
      /\ l = [k \in Range(Secciones) |-> l[k]]
      /\ \A k \in Range(Secciones) : ListaBuena(tx, dr, k, l[k])
  BY DEF CuentaBuena
<1>2. ListaBuena(tx, dr, s, y)
  <2>1. EsSecuencia(l[s]) /\ \A i \in 1..Len(l[s]) : EntradaBuena(tx, dr, s, l[s][i])
    BY <1>1 DEF ListaBuena
  <2> DEFINE x == l[s]
  <2> HIDE DEF x
  <2>2. /\ EsSecuencia(Append(x, e)) /\ Len(Append(x, e)) = Len(x) + 1
        /\ Append(x, e)[Len(x) + 1] = e
        /\ \A i \in 1..Len(x) : Append(x, e)[i] = x[i]
    BY <2>1, SecuenciaCrece DEF x
  <2>3. Len(x) \in Nat
    BY <2>1, Secuencia DEF x
  <2> DEFINE z == Append(x, e)
  <2> HIDE DEF z
  <2>4. ASSUME NEW i \in 1..Len(z) PROVE EntradaBuena(tx, dr, s, z[i])
    <3>1. CASE i = Len(x) + 1
      BY <2>2, <3>1 DEF z
    <3>2. CASE i # Len(x) + 1
      <4>1. i \in 1..Len(x)
        BY <2>2, <2>3, <3>2 DEF z
      <4> QED BY <2>1, <2>2, <4>1 DEF z, x
    <3> QED BY <3>1, <3>2
  <2> QED BY <2>2, <2>4 DEF ListaBuena, z, x
<1>3. d = [c EXCEPT !.listas = m]
  BY DEF ConEntrada
<1> HIDE DEF l, y
<1>4. m = [k \in Range(Secciones) |-> m[k]] /\ \A k \in Range(Secciones) : m[k] = IF k = s THEN y ELSE l[k]
  BY <1>1
<1> HIDE DEF m
<1>5. d = [dir |-> c.dir, privada |-> c.privada, listas |-> m]
  BY <1>1, <1>3
<1> HIDE DEF d
<1>6. d = [dir |-> d.dir, privada |-> d.privada, listas |-> d.listas] /\ d.dir = c.dir /\ d.listas = m
  BY <1>5
<1>7. \A k \in Range(Secciones) : ListaBuena(tx, dr, k, m[k])
  BY <1>1, <1>2, <1>4
<1>8. CuentaBuena(tx, dr, d)
  BY <1>1, <1>4, <1>6, <1>7 DEF CuentaBuena
<1> QED BY <1>6, <1>8 DEF d

\* The name of a transaction, as a word, has no keyword.
LEMMA LimpiaDe ==
    ASSUME NEW t, t \notin Range(Claves)
    PROVE  Limpia(Palabra(t))
<1>1. Range(Palabra(t)) = {t}
  <2>1. DOMAIN <<t>> = {1} /\ <<t>>[1] = t
    OBVIOUS
  <2> QED BY <2>1 DEF Palabra, Range
<1> QED BY <1>1 DEF Limpia

\* The words of a label are joined in one.
LEMMA UnidaDe ==
    ASSUME NEW texto, EsTexto(texto), texto # << >>, \A palabra \in Range(texto) : Limpia(palabra)
    PROVE  \E w : Unida(texto) = <<w>> /\ Limpia(w)
<1> DEFINE w == FlattenSeq(texto)
<1>1. EsSecuencia(texto) /\ DOMAIN texto = 1..Len(texto)
  BY DEF EsTexto, EsSecuencia
<1>2. ASSUME NEW i \in 1..Len(texto) PROVE texto[i] \in Range(texto) /\ EsSecuencia(texto[i])
  <2>1. texto[i] \in Range(texto)
    BY <1>1 DEF Range
  <2> QED BY <2>1 DEF EsTexto, EsSecuencia
<1>3. EsSecuencia(w) /\ ElementosDe(w, texto)
  BY <1>1, <1>2, Aplanada
<1> HIDE DEF w
<1>4. DOMAIN w = 1..Len(w)
  BY <1>3, Secuencia
<1>5. ASSUME NEW k \in 1..Len(w) PROVE w[k] \notin Range(Claves)
  <2>1. PICK i \in 1..Len(texto) : \E j \in 1..Len(texto[i]) : w[k] = texto[i][j]
    BY <1>3 DEF ElementosDe
  <2>2. PICK j \in 1..Len(texto[i]) : w[k] = texto[i][j]
    BY <2>1
  <2>3. DOMAIN texto[i] = 1..Len(texto[i])
    BY <1>2, Secuencia
  <2>4. texto[i][j] \in Range(texto[i])
    BY <2>3 DEF Range
  <2>5. Limpia(texto[i])
    BY <1>2
  <2> QED BY <2>2, <2>4, <2>5 DEF Limpia
<1>6. Limpia(w)
  BY <1>4, <1>5 DEF Limpia, Range
<1> QED BY <1>6 DEF Unida, w

\* A new entry, that no block has.
LEMMA EntradaNueva ==
    ASSUME Legible, NEW tx, NEW dr, NEW t \in DOMAIN tx, t \notin Range(Claves),
           NEW texto, EsTexto(texto), texto # << >>, \A palabra \in Range(texto) : Limpia(palabra),
           NEW monto \in {"total", "importe"}, NEW d, Limpia(d), NEW dir, dir = <<d>>, NEW s, s # "SENT"
    PROVE  EntradaBuena(tx, dr, s, Entrada(t, texto, monto, dir))
<1> DEFINE e == Entrada(t, texto, monto, dir)
<1>1. /\ e = [txn |-> e.txn, label |-> e.label, monto |-> e.monto, dir |-> e.dir, bloque |-> e.bloque]
      /\ e.txn = Palabra(t) /\ e.label = Unida(texto) /\ e.monto = Palabra(monto) /\ e.dir = dir
      /\ e.bloque = Nada
  BY DEF Entrada
<1>2. \E w : e.label = <<w>> /\ Limpia(w)
  BY <1>1, UnidaDe
<1> HIDE DEF e
<1>3. "-" \notin Range(Claves) /\ monto \notin Range(Claves)
  BY SeccionesDe
<1>4. Limpia(Palabra(t)) /\ Limpia(Palabra(monto)) /\ Limpia(Nada)
  BY <1>3, LimpiaDe DEF Nada
<1>5. Palabra(monto) \in Montos
  BY DEF Legible
<1>6. EntradaLegible(e)
  BY <1>1, <1>2, <1>4, <1>5 DEF EntradaLegible
<1>7. EntradaBuena(tx, dr, s, e)
  BY <1>1, <1>6 DEF EntradaBuena
<1> QED BY <1>7 DEF e

\* One less in a list.
LEMMA SinUna ==
    ASSUME NEW tx, NEW dr, NEW s, NEW lista, ListaBuena(tx, dr, s, lista), NEW i \in 1..Len(lista)
    PROVE  ListaBuena(tx, dr, s, RemoveAt(lista, i))
<1> DEFINE n == Len(lista)
           a == SubSeq(lista, 1, i - 1)
           b == SubSeq(lista, i + 1, n)
           c == a \o b
           E == {lista[k] : k \in 1..n}
<1>1. EsSecuencia(lista) /\ n \in Nat /\ \A k \in 1..n : EntradaBuena(tx, dr, s, lista[k])
  BY Secuencia DEF ListaBuena
<1>2. lista \in Seq(E)
  <2>1. lista = [k \in 1..n |-> lista[k]]
    BY <1>1, Secuencia
  <2>2. \A k \in 1..n : lista[k] \in E
    OBVIOUS
  <2> HIDE DEF E, n
  <2>3. lista \in [1..n -> E]
    BY <2>1, <2>2
  <2> QED BY <1>1, <2>3
<1> HIDE DEF E
<1>3. a \in Seq(E) /\ b \in Seq(E)
  BY <1>1, <1>2
<1> HIDE DEF a, b
<1>4. c \in Seq(E)
  BY <1>3
<1>5. RemoveAt(lista, i) = c
  BY DEF RemoveAt, a, b
<1> HIDE DEF c, n
<1>6. \A x \in E : EntradaBuena(tx, dr, s, x)
  BY <1>1 DEF E
<1>7. \A k \in 1..Len(c) : c[k] \in E
  BY <1>4
<1> QED BY <1>4, <1>5, <1>6, <1>7 DEF ListaBuena, EsSecuencia

\* A block on disk has the transaction.
EnBloque(dr, t, bloque) ==
    \E n \in 1..Len(dr) : bloque = NombresBloques[n] /\ \E k \in 1..Len(dr[n]) : t = dr[n][k]

\* The entry that moves, and what it is in its new list.
LEMMA MoverBien ==
    ASSUME Legible, NEW tx, NEW dr, NEW c, CuentaBuena(tx, dr, c), NEW t \in DOMAIN tx, NEW bloque, Limpia(bloque),
           NEW de \in Range(Secciones), NEW a \in Range(Secciones),
           a # "SENT" => bloque = Nada,
           a = "SENT" => EnBloque(dr, t, bloque)
    PROVE  CuentaBuena(tx, dr, Mover(c, de, a, t, bloque)) /\ Mover(c, de, a, t, bloque).dir = c.dir
<1> DEFINE I == {i \in 1..Len(c.listas[de]) : c.listas[de][i].txn = Palabra(t)}
           r == SelectInSeq(c.listas[de], LAMBDA e : e.txn = Palabra(t))
<1>1. r = IF I # {} THEN Min(I) ELSE 0
  BY DEF SelectInSeq
<1>2. CASE I = {}
  <2>1. r = 0
    BY <1>1, <1>2
  <2>2. Mover(c, de, a, t, bloque) = c
    BY <2>1 DEF Mover
  <2> QED BY <2>2
<1>3. CASE I # {}
  <2>1. I \in SUBSET Nat
    OBVIOUS
  <2>2. PICK i \in I : \A y \in I : i <= y
    BY <1>3, <2>1, Minimo
  <2> DEFINE lista == c.listas[de]
             l == c.listas
             e == lista[i]
             e2 == [e EXCEPT !.bloque = bloque]
             m == [l EXCEPT ![de] = RemoveAt(l[de], i)]
             d == [c EXCEPT !.listas = m]
  <2>3. r = i /\ i # 0
    <3>1. i \in Nat /\ i # 0
      OBVIOUS
    <3> HIDE DEF I
    <3> QED BY <1>1, <1>3, <2>1, <2>2, <3>1, MinimoDe
  <2>4. Mover(c, de, a, t, bloque) = ConEntrada(d, a, e2)
    BY <2>3 DEF Mover
  <2>5. i \in 1..Len(lista) /\ e.txn = Palabra(t)
    OBVIOUS
  <2>6. /\ c = [dir |-> c.dir, privada |-> c.privada, listas |-> l] /\ c.dir \in Direcciones
        /\ l = [k \in Range(Secciones) |-> l[k]]
        /\ \A k \in Range(Secciones) : ListaBuena(tx, dr, k, l[k])
    BY DEF CuentaBuena
  <2> HIDE DEF I, r, l
  <2>7. ListaBuena(tx, dr, de, RemoveAt(l[de], i))
    BY <2>5, <2>6, SinUna DEF l
  <2> DEFINE q == RemoveAt(l[de], i)
  <2>8. m = [k \in Range(Secciones) |-> m[k]] /\ \A k \in Range(Secciones) : m[k] = IF k = de THEN q ELSE l[k]
    <3> HIDE DEF q
    <3>1. m = [l EXCEPT ![de] = q]
      BY DEF q
    <3> HIDE DEF m
    <3> QED BY <2>6, <3>1
  <2> HIDE DEF m, q
  <2>9. CuentaBuena(tx, dr, d) /\ d.dir = c.dir
    <3>1. d = [dir |-> c.dir, privada |-> c.privada, listas |-> m]
      BY <2>6
    <3> HIDE DEF d
    <3>2. d = [dir |-> d.dir, privada |-> d.privada, listas |-> d.listas] /\ d.dir = c.dir /\ d.listas = m
      BY <3>1
    <3>3. \A k \in Range(Secciones) : ListaBuena(tx, dr, k, m[k])
      BY <2>6, <2>7, <2>8 DEF q
    <3> QED BY <2>6, <2>8, <3>2, <3>3 DEF CuentaBuena
  <2>10. EntradaBuena(tx, dr, de, e)
    BY <2>5, <2>6 DEF ListaBuena, l
  <2> HIDE DEF lista, e
  <2>11. /\ e2 = [txn |-> e2.txn, label |-> e2.label, monto |-> e2.monto, dir |-> e2.dir, bloque |-> e2.bloque]
         /\ e2.txn = e.txn /\ e2.label = e.label /\ e2.monto = e.monto /\ e2.dir = e.dir /\ e2.bloque = bloque
    <3>1. e = [txn |-> e.txn, label |-> e.label, monto |-> e.monto, dir |-> e.dir, bloque |-> e.bloque]
      BY <2>10 DEF EntradaBuena, EntradaLegible
    <3>2. e2 = [txn |-> e.txn, label |-> e.label, monto |-> e.monto, dir |-> e.dir, bloque |-> bloque]
      BY <3>1
    <3> HIDE DEF e2
    <3> QED BY <3>2
  <2> HIDE DEF e2
  <2>12. EntradaLegible(e2)
    BY <2>10, <2>11 DEF EntradaBuena, EntradaLegible
  <2>13. EntradaBuena(tx, dr, a, e2)
    <3>1. e2.txn = Palabra(t)
      BY <2>5, <2>11
    <3> QED BY <2>11, <2>12, <3>1 DEF EntradaBuena, EnBloque
  <2> HIDE DEF d
  <2>14. CuentaBuena(tx, dr, ConEntrada(d, a, e2)) /\ ConEntrada(d, a, e2).dir = d.dir
    BY <2>9, <2>13, ConEntradaBuena
  <2> QED BY <2>4, <2>9, <2>14
<1> QED BY <1>2, <1>3

\* What a transaction of a block becomes when it is confirmed.
LEMMA ConfirmarEn ==
    ASSUME Legible, NEW tx, NEW dr, NEW c, CuentaBuena(tx, dr, c), NEW t \in DOMAIN tx, NEW bloque, Limpia(bloque),
           EnBloque(dr, t, bloque)
    PROVE  CuentaBuena(tx, dr, Confirmar(c, t, bloque)) /\ Confirmar(c, t, bloque).dir = c.dir
<1> DEFINE d == Mover(c, "SENDING", "SENT", t, bloque)
<1>1. "SENDING" \in Range(Secciones) /\ "SENT" \in Range(Secciones) /\ Limpia(Nada)
      /\ "RECEIVING" \in Range(Secciones) /\ "RECEIVED" \in Range(Secciones) /\ "RECEIVED" # "SENT"
  <2>1. {"SENDING", "SENT", "RECEIVING", "RECEIVED"} = Range(Secciones) /\ "-" \notin Range(Claves)
    BY SeccionesDe
  <2> QED BY <2>1, LimpiaDe DEF Nada
<1>2. CuentaBuena(tx, dr, d) /\ d.dir = c.dir
  BY <1>1, MoverBien
<1> HIDE DEF d
<1>3. /\ CuentaBuena(tx, dr, Mover(d, "RECEIVING", "RECEIVED", t, Nada))
      /\ Mover(d, "RECEIVING", "RECEIVED", t, Nada).dir = d.dir
  BY <1>1, <1>2, MoverBien
<1>4. Confirmar(c, t, bloque) = Mover(d, "RECEIVING", "RECEIVED", t, Nada)
  BY DEF Confirmar, d
<1> QED BY <1>2, <1>3, <1>4

\* A block confirms a transaction.
LEMMA ConfirmarBien ==
    ASSUME Legible, NEW tx, NEW dr, NEW c, CuentaBuena(tx, dr, c), NEW n \in 1..Len(dr), n \in DOMAIN NombresBloques,
           NEW k \in 1..Len(dr[n]), dr[n][k] \in DOMAIN tx
    PROVE  /\ CuentaBuena(tx, dr, Confirmar(c, dr[n][k], NombresBloques[n]))
           /\ Confirmar(c, dr[n][k], NombresBloques[n]).dir = c.dir
<1>1. PICK t, bloque : t = dr[n][k] /\ bloque = NombresBloques[n]
  OBVIOUS
<1>2. Limpia(bloque)
  BY <1>1 DEF Legible, Range
<1>3. t \in DOMAIN tx /\ EnBloque(dr, t, bloque)
  BY <1>1 DEF EnBloque
<1>4. CuentaBuena(tx, dr, Confirmar(c, t, bloque)) /\ Confirmar(c, t, bloque).dir = c.dir
  BY <1>2, <1>3, ConfirmarEn
<1> QED BY <1>1, <1>4

\* A transaction that arrives is pending.
LEMMA RecibidaBien ==
    ASSUME Legible, NEW c, CuentaBuena(txns, directorio, c), NEW t \in DOMAIN txns, t \notin Range(Claves),
           Limpia(txns[t].firma)
    PROVE  CuentaBuena(txns, directorio, Recibida(c, t)) /\ Recibida(c, t).dir = c.dir
<1> DEFINE firma == txns[t].firma
           p == Palabra(IF firma = c.dir THEN "Change" ELSE "-")
           e == Entrada(t, <<p>>, "importe", <<firma>>)
<1>1. Limpia(p) /\ p \in Seq(Range(p))
  <2>1. PICK q : q = IF firma = c.dir THEN "Change" ELSE "-"
    OBVIOUS
  <2>2. q \notin Range(Claves)
    BY <2>1, SeccionesDe
  <2>3. <<q>> \in Seq({q}) /\ Range(<<q>>) = {q}
    BY DEF Range
  <2>4. p = Palabra(q)
    BY <2>1
  <2> HIDE DEF p
  <2> QED BY <2>2, <2>3, <2>4, LimpiaDe DEF Palabra
<1> HIDE DEF p
<1>2. EsTexto(<<p>>) /\ <<p>> # << >> /\ \A palabra \in Range(<<p>>) : Limpia(palabra)
  <2>1. <<p>> \in Seq({p}) /\ Range(<<p>>) = {p} /\ <<p>> # << >>
    BY DEF Range
  <2> QED BY <1>1, <2>1 DEF EsTexto
<1>3. EntradaBuena(txns, directorio, "RECEIVING", e)
  BY <1>2, EntradaNueva
<1>4. "RECEIVING" \in Range(Secciones)
  BY SeccionesDe
<1> HIDE DEF e
<1>5. /\ CuentaBuena(txns, directorio, ConEntrada(c, "RECEIVING", e))
      /\ ConEntrada(c, "RECEIVING", e).dir = c.dir
  BY <1>3, <1>4, ConEntradaBuena
<1>6. Recibida(c, t) = ConEntrada(c, "RECEIVING", e)
  BY DEF Recibida, e, p
<1> QED BY <1>5, <1>6

\* An account in a copy for the window, and aliases for its list.
AvisosBuenos(tx, dr, av) ==
    /\ EsSecuencia(av)
    /\ \A i \in 1..Len(av) :
          /\ av[i].tipo \in {"cuenta", "iniciar"}
          /\ av[i].tipo = "cuenta" => CuentaBuena(tx, dr, av[i].cuenta)
          /\ av[i].tipo = "iniciar" => av[i].aliases \in Seq(Aliases)

\* An event for the wallet, alone.
EventoBueno(tx, dr, e) ==
    /\ e.tipo \in {"agregar", "cargar", "enviar"} => e.alias \in Aliases
    /\ e.tipo = "enviar" => e.label \in Etiquetas /\ e.dir \in DOMAIN Pagos
    /\ e.tipo = "txn" => e.txn \in DOMAIN tx
    /\ e.tipo = "bloque" => e.bloque \in 1..Len(dr)

\* An account that is added is asked for next.
CanalBueno(tx, dr, cn) ==
    /\ EsSecuencia(cn) /\ \A i \in 1..Len(cn) : EventoBueno(tx, dr, cn[i])
    /\ \A i \in 1..Len(cn) : cn[i].tipo = "agregar" =>
          i + 1 \in 1..Len(cn) /\ cn[i + 1].tipo = "cargar" /\ cn[i + 1].alias = cn[i].alias

\* The account of an alias will be asked for.
Pedida(cn, alias) == \E i \in 1..Len(cn) : cn[i].tipo = "cargar" /\ cn[i].alias = alias

\* A copy of an account is on its way to the window.
EnCamino(av) == \E i \in 1..Len(av) : av[i].tipo = "cuenta"

\* The last account on its way to the window is as the wallet has it; if there is
\* none, the one that is shown.
AlDia(av, vista, cs) ==
    /\ \A i \in 1..Len(av) : av[i].tipo = "cuenta" /\ (\A j \in i + 1..Len(av) : av[j].tipo # "cuenta") =>
          av[i].de \in DOMAIN cs /\ av[i].cuenta = cs[av[i].de]
    /\ ~EnCamino(av) => \A v \in vista : v.de \in DOMAIN cs /\ v = Mostrar(v.de, cs[v.de], v.saldo)

\* One more at the end.
LEMMA CanalCrece ==
    ASSUME NEW tx, NEW dr, NEW cn, CanalBueno(tx, dr, cn), NEW e, EventoBueno(tx, dr, e), e.tipo # "agregar"
    PROVE  CanalBueno(tx, dr, Append(cn, e)) /\ \A a : Pedida(cn, a) => Pedida(Append(cn, e), a)
<1> DEFINE d == Append(cn, e)
           n == Len(cn)
<1>1. EsSecuencia(cn) /\ n \in Nat
  BY Secuencia DEF CanalBueno
<1>2. EsSecuencia(d) /\ Len(d) = n + 1 /\ d[n + 1] = e /\ \A i \in 1..n : d[i] = cn[i]
  BY <1>1, SecuenciaCrece
<1> HIDE DEF d, n
<1>3. ASSUME NEW i \in 1..Len(d)
      PROVE  EventoBueno(tx, dr, d[i]) /\ (d[i].tipo = "agregar" =>
                i + 1 \in 1..Len(d) /\ d[i + 1].tipo = "cargar" /\ d[i + 1].alias = d[i].alias)
  <2>1. CASE i = n + 1
    BY <1>2, <2>1
  <2>2. CASE i # n + 1
    <3>1. i \in 1..n /\ d[i] = cn[i]
      BY <1>1, <1>2, <2>2
    <3>2. /\ EventoBueno(tx, dr, cn[i])
          /\ cn[i].tipo = "agregar" =>
                i + 1 \in 1..n /\ cn[i + 1].tipo = "cargar" /\ cn[i + 1].alias = cn[i].alias
      BY <3>1 DEF CanalBueno, n
    <3>3. i + 1 \in 1..n => i + 1 \in 1..Len(d) /\ d[i + 1] = cn[i + 1]
      BY <1>1, <1>2
    <3> QED BY <3>1, <3>2, <3>3
  <2> QED BY <2>1, <2>2
<1>4. ASSUME NEW a, Pedida(cn, a) PROVE Pedida(d, a)
  <2>1. PICK i \in 1..n : cn[i].tipo = "cargar" /\ cn[i].alias = a
    BY <1>4 DEF Pedida, n
  <2>2. i \in 1..Len(d) /\ d[i] = cn[i]
    BY <1>1, <1>2
  <2> QED BY <2>1, <2>2 DEF Pedida
<1>5. CanalBueno(tx, dr, d)
  BY <1>2, <1>3 DEF CanalBueno
<1> QED BY <1>4, <1>5 DEF d

\* A request that is last is in the channel.
LEMMA PedidaUltima ==
    ASSUME NEW cn, EsSecuencia(cn), NEW alias
    PROVE  Pedida(Append(cn, [tipo |-> "cargar", alias |-> alias]), alias)
<1> DEFINE e == [tipo |-> "cargar", alias |-> alias]
           d == Append(cn, e)
<1>1. e.tipo = "cargar" /\ e.alias = alias
  OBVIOUS
<1> HIDE DEF e
<1>2. Len(cn) \in Nat /\ Len(d) = Len(cn) + 1 /\ d[Len(cn) + 1] = e
  BY Secuencia, SecuenciaCrece
<1> HIDE DEF d
<1>3. Len(d) \in 1..Len(d) /\ d[Len(d)] = e
  BY <1>2
<1>4. Pedida(d, alias)
  BY <1>1, <1>3 DEF Pedida
<1> QED BY <1>4 DEF d, e

\* The account that is added and asked for.
LEMMA CanalConAlta ==
    ASSUME NEW tx, NEW dr, NEW cn, CanalBueno(tx, dr, cn), NEW alias \in Aliases, NEW dir
    PROVE  /\ CanalBueno(tx, dr, cn \o PedidosAlAgregar(alias, dir))
           /\ Pedida(cn \o PedidosAlAgregar(alias, dir), alias)
<1> DEFINE a == [tipo |-> "agregar", alias |-> alias, dir |-> dir]
           b == [tipo |-> "cargar", alias |-> alias]
           p == <<a, b>>
           d == cn \o p
           n == Len(cn)
<1>1. a.tipo = "agregar" /\ a.alias = alias /\ b.tipo = "cargar" /\ b.alias = alias
  OBVIOUS
<1> HIDE DEF a, b
<1>2. EventoBueno(tx, dr, a) /\ EventoBueno(tx, dr, b)
  BY <1>1 DEF EventoBueno
<1>3. EsSecuencia(p) /\ Len(p) = 2 /\ p[1] = a /\ p[2] = b
  <2>1. p \in Seq({a, b}) /\ Len(p) = 2 /\ p[1] = a /\ p[2] = b
    OBVIOUS
  <2> QED BY <2>1 DEF EsSecuencia
<1> HIDE DEF p
<1>4. EsSecuencia(cn) /\ n \in Nat
  BY Secuencia DEF CanalBueno
<1>5. EsSecuencia(d) /\ Len(d) = n + 2
  <2>1. EsSecuencia(p)
    BY <1>3
  <2>2. EsSecuencia(d) /\ Len(d) = Len(cn) + Len(p)
    BY <1>4, <2>1, SecuenciaUnida
  <2> HIDE DEF d
  <2> QED BY <1>3, <2>2
<1>6. \A i \in 1..n : d[i] = cn[i]
  BY <1>3, <1>4, UnidaPrimera, Zenon
<1>7. d[n + 1] = a /\ d[n + 2] = b
  <2>1. 1 \in 1..Len(p) /\ 2 \in 1..Len(p)
    BY <1>3
  <2>2. EsSecuencia(p)
    BY <1>3
  <2> HIDE DEF d
  <2>3. d[n + 1] = p[1]
    BY <1>4, <2>1, <2>2, UnidaSegunda DEF d, n
  <2>4. d[n + 2] = p[2]
    BY <1>4, <2>1, <2>2, UnidaSegunda DEF d, n
  <2> QED BY <1>3, <2>3, <2>4
<1> HIDE DEF d, n
<1>8. ASSUME NEW i \in 1..Len(d)
      PROVE  EventoBueno(tx, dr, d[i]) /\ (d[i].tipo = "agregar" =>
                i + 1 \in 1..Len(d) /\ d[i + 1].tipo = "cargar" /\ d[i + 1].alias = d[i].alias)
  <2>1. CASE i = n + 2
    BY <1>1, <1>2, <1>7, <2>1
  <2>2. CASE i = n + 1
    <3>1. i + 1 = n + 2 /\ i + 1 \in 1..Len(d)
      BY <1>4, <1>5, <2>2
    <3> QED BY <1>1, <1>2, <1>7, <2>2, <3>1
  <2>3. CASE i # n + 1 /\ i # n + 2
    <3>1. i \in 1..n /\ d[i] = cn[i]
      BY <1>4, <1>5, <1>6, <2>3
    <3>2. /\ EventoBueno(tx, dr, cn[i])
          /\ cn[i].tipo = "agregar" =>
                i + 1 \in 1..n /\ cn[i + 1].tipo = "cargar" /\ cn[i + 1].alias = cn[i].alias
      BY <3>1 DEF CanalBueno, n
    <3>3. i + 1 \in 1..n => i + 1 \in 1..Len(d) /\ d[i + 1] = cn[i + 1]
      BY <1>4, <1>5, <1>6
    <3> QED BY <3>1, <3>2, <3>3
  <2> QED BY <2>1, <2>2, <2>3
<1>9. CanalBueno(tx, dr, d)
  BY <1>5, <1>8 DEF CanalBueno
<1>10. Pedida(d, alias)
  <2>1. n + 2 \in 1..Len(d)
    BY <1>4, <1>5
  <2> QED BY <1>1, <1>7, <2>1 DEF Pedida
<1> QED BY <1>9, <1>10 DEF d, p, a, b, PedidosAlAgregar

\* The first is taken.
LEMMA CanalMengua ==
    ASSUME NEW tx, NEW dr, NEW cn, CanalBueno(tx, dr, cn), cn # << >>
    PROVE  /\ CanalBueno(tx, dr, Tail(cn)) /\ EventoBueno(tx, dr, Head(cn))
           /\ \A a : Pedida(cn, a) => Pedida(Tail(cn), a) \/ (Head(cn).tipo = "cargar" /\ Head(cn).alias = a)
           /\ Head(cn).tipo = "agregar" => Pedida(Tail(cn), Head(cn).alias)
<1> DEFINE d == Tail(cn)
           n == Len(cn)
<1>1. EsSecuencia(cn) /\ n \in Nat
  BY Secuencia DEF CanalBueno
<1>2. EsSecuencia(d) /\ Len(d) = n - 1 /\ n \in Nat \ {0} /\ Head(cn) = cn[1] /\ \A i \in 1..n - 1 : d[i] = cn[i + 1]
  BY <1>1, SinElPrimero
<1>3. \A i \in 1..n : EventoBueno(tx, dr, cn[i]) /\ (cn[i].tipo = "agregar" =>
                i + 1 \in 1..n /\ cn[i + 1].tipo = "cargar" /\ cn[i + 1].alias = cn[i].alias)
  BY DEF CanalBueno
<1> HIDE DEF d, n
<1>4. ASSUME NEW i \in 1..Len(d)
      PROVE  EventoBueno(tx, dr, d[i]) /\ (d[i].tipo = "agregar" =>
                i + 1 \in 1..Len(d) /\ d[i + 1].tipo = "cargar" /\ d[i + 1].alias = d[i].alias)
  <2>1. i + 1 \in 1..n /\ d[i] = cn[i + 1]
    BY <1>2
  <2>2. /\ EventoBueno(tx, dr, cn[i + 1])
        /\ cn[i + 1].tipo = "agregar" =>
              (i + 1) + 1 \in 1..n /\ cn[(i + 1) + 1].tipo = "cargar" /\ cn[(i + 1) + 1].alias = cn[i + 1].alias
    BY <1>3, <2>1
  <2>3. (i + 1) + 1 \in 1..n => i + 1 \in 1..Len(d) /\ d[i + 1] = cn[(i + 1) + 1]
    BY <1>2
  <2> QED BY <2>1, <2>2, <2>3
<1>5. ASSUME NEW a, NEW i \in 1..n, cn[i].tipo = "cargar", cn[i].alias = a, i # 1 PROVE Pedida(d, a)
  <2>1. i - 1 \in 1..Len(d) /\ d[i - 1] = cn[(i - 1) + 1] /\ (i - 1) + 1 = i
    BY <1>2, <1>5
  <2> QED BY <1>5, <2>1 DEF Pedida
<1>6. ASSUME NEW a, Pedida(cn, a) PROVE Pedida(d, a) \/ (Head(cn).tipo = "cargar" /\ Head(cn).alias = a)
  <2>1. PICK i \in 1..n : cn[i].tipo = "cargar" /\ cn[i].alias = a
    BY <1>6 DEF Pedida, n
  <2> QED BY <1>2, <1>5, <2>1
<1>7. ASSUME Head(cn).tipo = "agregar" PROVE Pedida(d, Head(cn).alias)
  <2>1. 1 \in 1..n
    BY <1>2
  <2>2. cn[1].tipo = "agregar"
    BY <1>2, <1>7
  <2>3. 1 + 1 \in 1..n /\ cn[1 + 1].tipo = "cargar" /\ cn[1 + 1].alias = cn[1].alias
    BY <1>3, <2>1, <2>2
  <2>4. 1 + 1 # 1
    OBVIOUS
  <2> QED BY <1>2, <1>5, <2>3, <2>4
<1>8. EventoBueno(tx, dr, Head(cn))
  <2>1. 1 \in 1..n
    BY <1>2
  <2> QED BY <1>2, <1>3, <2>1
<1>9. CanalBueno(tx, dr, d)
  BY <1>2, <1>4 DEF CanalBueno
<1> QED BY <1>6, <1>7, <1>8, <1>9 DEF d

\* What the window shows of an account.
LEMMA MostrarDe ==
    ASSUME NEW alias, NEW c, NEW saldo
    PROVE  /\ Mostrar(alias, c, saldo).de = alias /\ Mostrar(alias, c, saldo).saldo = saldo
           /\ Mostrar(alias, c, saldo).filas
                = Filas("Received", c.listas["RECEIVED"]) \o Filas("Sent", c.listas["SENT"])
<1> DEFINE f == Filas("Received", c.listas["RECEIVED"]) \o Filas("Sent", c.listas["SENT"])
           p == c.listas["SENDING"] \o c.listas["RECEIVING"]
           q == SubSeq(p, 1, Min({CantPend, Len(p)}))
           r == Mostrar(alias, c, saldo)
<1>1. r = [de |-> alias, filas |-> f, pendientes |-> q, saldo |-> saldo]
  BY DEF Mostrar
<1> HIDE DEF f, q, r
<1>2. r.de = alias /\ r.saldo = saldo /\ r.filas = f
  BY <1>1
<1> QED BY <1>2 DEF f, r

\* The window gets the account as it is.
LEMMA AlDiaConCopia ==
    ASSUME NEW av, EsSecuencia(av), NEW vista, NEW cs, NEW alias \in DOMAIN cs, NEW saldo
    PROVE  /\ AlDia(Append(av, Aviso(alias, cs[alias], saldo)), vista, cs)
           /\ EnCamino(Append(av, Aviso(alias, cs[alias], saldo)))
<1> DEFINE a == Aviso(alias, cs[alias], saldo)
           b == Append(av, a)
           n == Len(av)
<1>1. a.tipo = "cuenta" /\ a.de = alias /\ a.cuenta = cs[alias]
  BY DEF Aviso
<1> HIDE DEF a
<1>2. n \in Nat /\ EsSecuencia(b) /\ Len(b) = n + 1 /\ b[n + 1] = a
  BY Secuencia, SecuenciaCrece
<1> HIDE DEF b, n
<1>3. n + 1 \in 1..Len(b)
  BY <1>2
<1>4. ASSUME NEW i \in 1..Len(b), \A j \in i + 1..Len(b) : b[j].tipo # "cuenta" PROVE i = n + 1
  <2>1. CASE i = n + 1
    BY <2>1
  <2>2. CASE i # n + 1
    <3>1. n + 1 \in i + 1..Len(b)
      BY <1>2, <2>2
    <3> QED BY <1>1, <1>2, <1>4, <3>1
  <2> QED BY <2>1, <2>2
<1>5. EnCamino(b)
  BY <1>1, <1>2, <1>3 DEF EnCamino
<1>6. AlDia(b, vista, cs)
  BY <1>1, <1>2, <1>4, <1>5 DEF AlDia
<1> QED BY <1>5, <1>6 DEF b, a

\* The list of the accounts changes nothing of it.
LEMMA AlDiaConLista ==
    ASSUME NEW av, EsSecuencia(av), NEW vista, NEW cs, AlDia(av, vista, cs), NEW e, e.tipo # "cuenta"
    PROVE  AlDia(Append(av, e), vista, cs)
<1> DEFINE b == Append(av, e)
           n == Len(av)
<1>1. n \in Nat /\ EsSecuencia(b) /\ Len(b) = n + 1 /\ b[n + 1] = e /\ \A i \in 1..n : b[i] = av[i]
  BY Secuencia, SecuenciaCrece
<1> HIDE DEF b, n
<1>2. ASSUME NEW i \in 1..Len(b), b[i].tipo = "cuenta", \A j \in i + 1..Len(b) : b[j].tipo # "cuenta"
      PROVE  b[i].de \in DOMAIN cs /\ b[i].cuenta = cs[b[i].de]
  <2>1. i \in 1..n
    <3>1. i # n + 1
      BY <1>1, <1>2
    <3> QED BY <1>1, <3>1
  <2>2. b[i] = av[i]
    BY <1>1, <2>1
  <2>3. ASSUME NEW j \in i + 1..n PROVE av[j].tipo # "cuenta"
    <3>1. j \in i + 1..Len(b) /\ j \in 1..n
      BY <1>1, <2>1
    <3> QED BY <1>1, <1>2, <3>1
  <2> QED BY <1>2, <2>1, <2>2, <2>3 DEF AlDia, n
<1>3. ASSUME ~EnCamino(b) PROVE ~EnCamino(av)
  <2>1. \A i \in 1..n : i \in 1..Len(b)
    BY <1>1
  <2> QED BY <1>1, <1>3, <2>1 DEF EnCamino, n
<1>4. AlDia(b, vista, cs)
  BY <1>2, <1>3 DEF AlDia
<1> QED BY <1>4 DEF b

\* What the window takes, and shows if it is an account.
LEMMA AlDiaAtendida ==
    ASSUME NEW av, EsSecuencia(av), av # << >>, NEW vista, NEW cs, AlDia(av, vista, cs)
    PROVE  /\ Head(av).tipo = "cuenta" =>
                 AlDia(Tail(av), {Mostrar(Head(av).de, Head(av).cuenta, Head(av).saldo)}, cs)
           /\ Head(av).tipo # "cuenta" => AlDia(Tail(av), vista, cs)
           /\ EnCamino(av) => EnCamino(Tail(av)) \/ Head(av).tipo = "cuenta"
<1> DEFINE b == Tail(av)
           n == Len(av)
           h == Head(av)
<1>1. EsSecuencia(b) /\ Len(b) = n - 1 /\ n \in Nat \ {0} /\ h = av[1] /\ \A i \in 1..n - 1 : b[i] = av[i + 1]
  BY SinElPrimero
<1> HIDE DEF b, n, h
<1>2. ASSUME NEW i \in 1..Len(b), b[i].tipo = "cuenta", \A j \in i + 1..Len(b) : b[j].tipo # "cuenta"
      PROVE  b[i].de \in DOMAIN cs /\ b[i].cuenta = cs[b[i].de]
  <2>1. i + 1 \in 1..n /\ b[i] = av[i + 1]
    BY <1>1
  <2>2. ASSUME NEW j \in (i + 1) + 1..n PROVE av[j].tipo # "cuenta"
    <3>1. j - 1 \in i + 1..Len(b) /\ j - 1 \in 1..n - 1 /\ (j - 1) + 1 = j
      BY <1>1, <2>1
    <3>2. b[j - 1] = av[j]
      BY <1>1, <3>1
    <3> QED BY <1>2, <3>1, <3>2
  <2> DEFINE m == i + 1
  <2>3. m \in 1..Len(av) /\ av[m].tipo = "cuenta" /\ \A j \in m + 1..Len(av) : av[j].tipo # "cuenta"
    BY <1>2, <2>1, <2>2 DEF n
  <2> HIDE DEF m
  <2>4. av[m].de \in DOMAIN cs /\ av[m].cuenta = cs[av[m].de]
    BY <2>3 DEF AlDia
  <2> QED BY <2>1, <2>4 DEF m
<1>3. ASSUME EnCamino(av), h.tipo # "cuenta" PROVE EnCamino(b)
  <2>1. PICK i \in 1..n : av[i].tipo = "cuenta"
    BY <1>3 DEF EnCamino, n
  <2>2. i # 1
    BY <1>1, <1>3, <2>1
  <2>3. i - 1 \in 1..Len(b) /\ i - 1 \in 1..n - 1 /\ (i - 1) + 1 = i
    BY <1>1, <2>2
  <2>4. b[i - 1] = av[i]
    BY <1>1, <2>3
  <2> QED BY <2>1, <2>3, <2>4 DEF EnCamino
<1>4. ASSUME ~EnCamino(b) PROVE \A j \in 1 + 1..n : av[j].tipo # "cuenta"
  <2>1. ASSUME NEW j \in 1 + 1..n PROVE av[j].tipo # "cuenta"
    <3>1. j - 1 \in 1..Len(b) /\ j - 1 \in 1..n - 1 /\ (j - 1) + 1 = j
      BY <1>1
    <3>2. b[j - 1] = av[j]
      BY <1>1, <3>1
    <3> QED BY <1>4, <3>1, <3>2 DEF EnCamino
  <2> QED BY <2>1
<1>5. ASSUME h.tipo = "cuenta" PROVE AlDia(b, {Mostrar(h.de, h.cuenta, h.saldo)}, cs)
  <2>1. ASSUME ~EnCamino(b) PROVE h.de \in DOMAIN cs /\ h.cuenta = cs[h.de]
    <3>1. \A j \in 1 + 1..n : av[j].tipo # "cuenta"
      BY <1>4, <2>1
    <3>2. 1 \in 1..n /\ av[1].tipo = "cuenta"
      BY <1>1, <1>5
    <3>3. av[1].de \in DOMAIN cs /\ av[1].cuenta = cs[av[1].de]
      BY <3>1, <3>2 DEF AlDia, n
    <3> QED BY <1>1, <3>3
  <2>2. ASSUME ~EnCamino(b), NEW v \in {Mostrar(h.de, h.cuenta, h.saldo)}
        PROVE  v.de \in DOMAIN cs /\ v = Mostrar(v.de, cs[v.de], v.saldo)
    <3>1. v = Mostrar(h.de, h.cuenta, h.saldo) /\ v.de = h.de /\ v.saldo = h.saldo
      BY MostrarDe
    <3> QED BY <2>1, <2>2, <3>1
  <2> QED BY <1>2, <2>2 DEF AlDia
<1>6. ASSUME h.tipo # "cuenta" PROVE AlDia(b, vista, cs)
  <2>1. ASSUME ~EnCamino(b) PROVE \A v \in vista : v.de \in DOMAIN cs /\ v = Mostrar(v.de, cs[v.de], v.saldo)
    <3>1. ~EnCamino(av)
      BY <1>3, <1>6, <2>1
    <3> QED BY <3>1 DEF AlDia
  <2> QED BY <1>2, <2>1 DEF AlDia
<1> QED BY <1>3, <1>5, <1>6 DEF b, h

\* Another account changes nothing of what is on its way or shown.
LEMMA AlDiaConOtra ==
    ASSUME NEW av, NEW vista, NEW cs, AlDia(av, vista, cs), NEW cs2, DOMAIN cs \subseteq DOMAIN cs2,
           \A c \in DOMAIN cs : cs2[c] = cs[c]
    PROVE  AlDia(av, vista, cs2)
<1>1. ASSUME NEW i \in 1..Len(av), av[i].tipo = "cuenta", \A j \in i + 1..Len(av) : av[j].tipo # "cuenta"
      PROVE  av[i].de \in DOMAIN cs2 /\ av[i].cuenta = cs2[av[i].de]
  <2>1. av[i].de \in DOMAIN cs /\ av[i].cuenta = cs[av[i].de]
    BY <1>1 DEF AlDia
  <2> QED BY <2>1
<1>2. ASSUME ~EnCamino(av), NEW v \in vista PROVE v.de \in DOMAIN cs2 /\ v = Mostrar(v.de, cs2[v.de], v.saldo)
  <2>1. v.de \in DOMAIN cs /\ v = Mostrar(v.de, cs[v.de], v.saldo)
    BY <1>2 DEF AlDia
  <2>2. cs2[v.de] = cs[v.de]
    BY <2>1
  <2> QED BY <2>1, <2>2
<1> QED BY <1>1, <1>2 DEF AlDia

\* Good accounts in the window.
LEMMA AvisosCrecen ==
    ASSUME NEW tx, NEW dr, NEW av, AvisosBuenos(tx, dr, av), NEW e, e.tipo \in {"cuenta", "iniciar"},
           e.tipo = "cuenta" => CuentaBuena(tx, dr, e.cuenta),
           e.tipo = "iniciar" => e.aliases \in Seq(Aliases)
    PROVE  AvisosBuenos(tx, dr, Append(av, e))
<1> DEFINE b == Append(av, e)
           n == Len(av)
<1>1. EsSecuencia(av) /\ n \in Nat
  BY Secuencia DEF AvisosBuenos
<1>2. EsSecuencia(b) /\ Len(b) = n + 1 /\ b[n + 1] = e /\ \A i \in 1..n : b[i] = av[i]
  BY <1>1, SecuenciaCrece
<1> HIDE DEF b, n
<1>3. ASSUME NEW i \in 1..Len(b)
      PROVE  /\ b[i].tipo \in {"cuenta", "iniciar"}
             /\ b[i].tipo = "cuenta" => CuentaBuena(tx, dr, b[i].cuenta)
             /\ b[i].tipo = "iniciar" => b[i].aliases \in Seq(Aliases)
  <2>1. CASE i = n + 1
    BY <1>2, <2>1
  <2>2. CASE i # n + 1
    <3>1. i \in 1..n /\ b[i] = av[i]
      BY <1>1, <1>2, <2>2
    <3> QED BY <3>1 DEF AvisosBuenos, n
  <2> QED BY <2>1, <2>2
<1>4. AvisosBuenos(tx, dr, b)
  BY <1>2, <1>3 DEF AvisosBuenos
<1> QED BY <1>4 DEF b

\* The notices that are left, and the one that is taken.
LEMMA AvisosMenguan ==
    ASSUME NEW tx, NEW dr, NEW av, AvisosBuenos(tx, dr, av), av # << >>
    PROVE  /\ AvisosBuenos(tx, dr, Tail(av)) /\ Head(av).tipo \in {"cuenta", "iniciar"}
           /\ Head(av).tipo = "cuenta" => CuentaBuena(tx, dr, Head(av).cuenta)
           /\ Head(av).tipo = "iniciar" => Head(av).aliases \in Seq(Aliases)
<1> DEFINE b == Tail(av)
           n == Len(av)
           h == Head(av)
<1>1. EsSecuencia(av)
  BY DEF AvisosBuenos
<1>2. EsSecuencia(b) /\ Len(b) = n - 1 /\ n \in Nat \ {0} /\ h = av[1] /\ \A i \in 1..n - 1 : b[i] = av[i + 1]
  BY <1>1, SinElPrimero
<1> HIDE DEF b, n, h
<1>3. 1 \in 1..n /\ \A i \in 1..Len(b) : i + 1 \in 1..n /\ b[i] = av[i + 1]
  BY <1>2
<1>4. \A i \in 1..n : /\ av[i].tipo \in {"cuenta", "iniciar"}
                      /\ av[i].tipo = "cuenta" => CuentaBuena(tx, dr, av[i].cuenta)
                      /\ av[i].tipo = "iniciar" => av[i].aliases \in Seq(Aliases)
  BY DEF AvisosBuenos, n
<1>5. /\ h.tipo \in {"cuenta", "iniciar"}
      /\ h.tipo = "cuenta" => CuentaBuena(tx, dr, h.cuenta)
      /\ h.tipo = "iniciar" => h.aliases \in Seq(Aliases)
  BY <1>2, <1>3, <1>4
<1>6. AvisosBuenos(tx, dr, b)
  BY <1>2, <1>3, <1>4 DEF AvisosBuenos
<1> QED BY <1>5, <1>6 DEF b, h

\* The first channel and the first notices are none.
LEMMA NingunoEsBueno ==
    ASSUME NEW tx, NEW dr
    PROVE  /\ CanalBueno(tx, dr, << >>) /\ AvisosBuenos(tx, dr, << >>) /\ ~EnCamino(<< >>)
           /\ \A cs : AlDia(<< >>, {}, cs)
  BY SecuenciaVacia DEF CanalBueno, AvisosBuenos, EnCamino, AlDia

\* The network grows.
LEMMA CanalSigue ==
    ASSUME NEW tx, NEW dr, NEW tx2, NEW dr2, Crece(tx, dr, tx2, dr2), NEW cn, CanalBueno(tx, dr, cn)
    PROVE  CanalBueno(tx2, dr2, cn)
<1>1. ASSUME NEW e, EventoBueno(tx, dr, e) PROVE EventoBueno(tx2, dr2, e)
  BY <1>1 DEF EventoBueno, Crece
<1>2. \A i \in 1..Len(cn) : EventoBueno(tx2, dr2, cn[i])
  BY <1>1 DEF CanalBueno
<1> QED BY <1>2 DEF CanalBueno

\* The notices are still good when the network grows.
LEMMA AvisosSiguen ==
    ASSUME NEW tx, NEW dr, NEW tx2, NEW dr2, Crece(tx, dr, tx2, dr2), NEW av, AvisosBuenos(tx, dr, av)
    PROVE  AvisosBuenos(tx2, dr2, av)
<1>1. ASSUME NEW i \in 1..Len(av), av[i].tipo = "cuenta" PROVE CuentaBuena(tx2, dr2, av[i].cuenta)
  <2>1. CuentaBuena(tx, dr, av[i].cuenta)
    BY <1>1 DEF AvisosBuenos
  <2> QED BY <2>1, CuentaSigue
<1> QED BY <1>1 DEF AvisosBuenos

\* The last notice is of an account after the blocks that it takes into account now.
Recien(e) ==
    LET n == Len(e.avisos)
    IN  n > Len(avisos) /\ e.avisos[n].tipo = "cuenta" /\ e.avisos[n].saldo = e.aplicados

\* The accounts and the notices of a pass over the outputs.
EstadoBueno(e) ==
    /\ CuentasBuenas(txns, directorio, e.cs) /\ AvisosBuenos(txns, directorio, e.avisos)
    /\ DOMAIN e.cs = DOMAIN cuentas
    /\ ventana.abierta => AlDia(e.avisos, ventana.vista, e.cs)
    /\ EnCamino(avisos) => EnCamino(e.avisos)
    /\ EsSecuencia(avisos) /\ ((e.avisos = avisos /\ e.cs = cuentas) \/ Recien(e))

\* One account changes, and the window gets a copy.
LEMMA TocarBien ==
    ASSUME NEW e, EstadoBueno(e), NEW alias \in DOMAIN e.cs, NEW c, CuentaBuena(txns, directorio, c)
    PROVE  /\ EstadoBueno(Tocar(e, alias, c)) /\ Recien(Tocar(e, alias, c))
           /\ Tocar(e, alias, c).aplicados = e.aplicados
<1> DEFINE d == Tocar(e, alias, c)
           cs2 == [e.cs EXCEPT ![alias] = c]
           av2 == Append(e.avisos, Aviso(alias, c, e.aplicados))
           cs == e.cs
           av == e.avisos
<1>1. d.cs = cs2 /\ d.avisos = av2 /\ d.aplicados = e.aplicados
  BY DEF Tocar
<1>2. CuentasBuenas(txns, directorio, cs) /\ AvisosBuenos(txns, directorio, av) /\ DOMAIN cs = DOMAIN cuentas
  BY DEF EstadoBueno
<1> HIDE DEF d, cs, av
<1>3. /\ DOMAIN cs2 = DOMAIN cs /\ cs2 = [x \in DOMAIN cs |-> cs2[x]] /\ cs2[alias] = c
      /\ \A x \in DOMAIN cs : x # alias => cs2[x] = cs[x]
  <2>1. cs = [x \in DOMAIN cs |-> cs[x]] /\ cs2 = [cs EXCEPT ![alias] = c] /\ alias \in DOMAIN cs
    BY <1>2 DEF CuentasBuenas, cs
  <2> HIDE DEF cs2
  <2> QED BY <2>1
<1> HIDE DEF cs2
<1>4. CuentasBuenas(txns, directorio, cs2)
  BY <1>2, <1>3 DEF CuentasBuenas
<1> DEFINE a == Aviso(alias, c, e.aplicados)
<1>5. a.tipo = "cuenta" /\ a.cuenta = c /\ a.saldo = e.aplicados
  BY DEF Aviso
<1>9. av2 = Append(av, a)
  BY DEF av
<1>6. AvisosBuenos(txns, directorio, av2)
  <2> HIDE DEF av2, a
  <2>1. a.tipo \in {"cuenta", "iniciar"} /\ a.tipo # "iniciar"
    BY <1>5
  <2> QED BY <1>2, <1>4, <1>5, <1>9, <2>1, AvisosCrecen
<1>7. AlDia(av2, ventana.vista, cs2) /\ EnCamino(av2)
  <2>1. av2 = Append(av, Aviso(alias, cs2[alias], e.aplicados)) /\ alias \in DOMAIN cs2 /\ EsSecuencia(av)
    BY <1>2, <1>3 DEF av, cs, AvisosBuenos
  <2> HIDE DEF av2
  <2> QED BY <2>1, AlDiaConCopia
<1> HIDE DEF av2, a
<1>10. EsSecuencia(avisos) /\ (av = avisos \/ Len(av) > Len(avisos))
  BY DEF EstadoBueno, Recien, av
<1>11. /\ EsSecuencia(av2) /\ Len(av2) = Len(av) + 1 /\ av2[Len(av) + 1] = a
       /\ Len(av) \in Nat /\ Len(avisos) \in Nat
  <2>1. EsSecuencia(av)
    BY <1>2 DEF AvisosBuenos
  <2> QED BY <1>9, <1>10, <2>1, Secuencia, SecuenciaCrece
<1>12. Recien(d)
  <2>1. Len(av2) > Len(avisos)
    BY <1>10, <1>11
  <2>2. av2[Len(av2)] = a
    BY <1>11
  <2> QED BY <1>1, <1>5, <2>1, <2>2 DEF Recien
<1>8. EstadoBueno(d)
  BY <1>1, <1>2, <1>3, <1>4, <1>6, <1>7, <1>10, <1>12 DEF EstadoBueno
<1> QED BY <1>1, <1>8, <1>12 DEF d

\* A pass, whatever it does to the accounts that it changes.
LEMMA RecorridoBueno ==
    ASSUME NEW f, NEW n \in Nat, NEW S, EstadoBueno(f[0]),
           \A i \in 1..n : i \notin S => f[i] = f[i - 1],
           \A i \in 1..n : i \in S =>
               \E alias, c : /\ f[i] = Tocar(f[i - 1], alias, c) /\ alias \in DOMAIN cuentas
                             /\ CuentaBuena(txns, directorio, f[i - 1].cs[alias]) => CuentaBuena(txns, directorio, c)
    PROVE  /\ EstadoBueno(f[n]) /\ f[n].aplicados = f[0].aplicados
           /\ (\E i \in 1..n : i \in S) => Recien(f[n])
<1> DEFINE Bueno(i) == /\ EstadoBueno(f[i]) /\ f[i].aplicados = f[0].aplicados
                       /\ (\E m \in 1..i : m \in S) => Recien(f[i])
           Bien(i) == i \in 0..n => Bueno(i)
           T == {i \in Nat : Bien(i)}
<1>1. Bien(0)
  OBVIOUS
<1>2. ASSUME NEW k \in Nat, Bien(k) PROVE Bien(k + 1)
  <2> SUFFICES ASSUME k + 1 \in 0..n PROVE Bueno(k + 1)
    OBVIOUS
  <2> DEFINE i == k + 1
  <2>1. i \in 1..n /\ i - 1 = k /\ Bueno(k)
    BY <1>2
  <2> HIDE DEF i, Bien
  <2>2. CASE i \notin S
    <3>1. f[i] = f[k]
      BY <2>1, <2>2
    <3>2. ASSUME NEW m \in 1..i, m \in S PROVE m \in 1..k
      BY <2>1, <2>2, <3>2
    <3> QED BY <2>1, <3>1, <3>2 DEF i
  <2>3. CASE i \in S
    <3>1. PICK alias, c : /\ f[i] = Tocar(f[i - 1], alias, c) /\ alias \in DOMAIN cuentas
                          /\ CuentaBuena(txns, directorio, f[i - 1].cs[alias]) => CuentaBuena(txns, directorio, c)
      BY <2>1, <2>3
    <3>2. alias \in DOMAIN f[k].cs /\ CuentaBuena(txns, directorio, f[k].cs[alias])
      BY <2>1, <3>1 DEF EstadoBueno, CuentasBuenas
    <3>3. CuentaBuena(txns, directorio, c) /\ f[i] = Tocar(f[k], alias, c)
      BY <2>1, <3>1, <3>2
    <3>4. /\ EstadoBueno(Tocar(f[k], alias, c)) /\ Recien(Tocar(f[k], alias, c))
          /\ Tocar(f[k], alias, c).aplicados = f[k].aplicados
      BY <2>1, <3>2, <3>3, TocarBien
    <3> QED BY <2>1, <3>3, <3>4 DEF i
  <2> QED BY <2>2, <2>3
<1> HIDE DEF Bien
<1>3. T = Nat
  <2>1. T \in SUBSET Nat /\ 0 \in T
    BY <1>1
  <2>2. \A k \in T : k + 1 \in T
    BY <1>2
  <2> HIDE DEF T
  <2> QED BY <2>1, <2>2, Induccion
<1>4. Bien(n) /\ n \in 0..n
  BY <1>3
<1> QED BY <1>4 DEF Bien

\* Every account is looked at for every output.
LEMMA VisitasTodas ==
    ASSUME NEW ts, EsSecuencia(ts), \A j \in 1..Len(ts) : EsSecuencia(txns[ts[j]].paga),
           NEW orden, EsSecuencia(orden),
           NEW j \in 1..Len(ts), NEW i \in 1..Len(txns[ts[j]].paga), NEW k \in 1..Len(orden)
    PROVE  \E m \in 1..Len(Visitas(ts, orden)) :
              /\ Visitas(ts, orden)[m].dir = txns[ts[j]].paga[i]
              /\ Visitas(ts, orden)[m].cuenta = orden[k]
<1> DEFINE vista(a, b) == [c \in DOMAIN orden |->
                              [txn |-> ts[a], dir |-> txns[ts[a]].paga[b], cuenta |-> orden[c]]]
           salidas(a) == [b \in DOMAIN txns[ts[a]].paga |-> vista(a, b)]
           ss == [a \in DOMAIN ts |-> FlattenSeq(salidas(a))]
           v == FlattenSeq(ss)
<1>1. Visitas(ts, orden) = v
  BY DEF Visitas
<1>2. Len(ts) \in Nat /\ DOMAIN ts = 1..Len(ts) /\ Len(orden) \in Nat /\ DOMAIN orden = 1..Len(orden)
  BY Secuencia
<1>3. ASSUME NEW a \in 1..Len(ts), NEW b
      PROVE  /\ EsSecuencia(vista(a, b)) /\ Len(vista(a, b)) = Len(orden)
             /\ \A c \in 1..Len(orden) : vista(a, b)[c].dir = txns[ts[a]].paga[b] /\ vista(a, b)[c].cuenta = orden[c]
  <2> DEFINE w == vista(a, b)
             n == Len(orden)
  <2>1. DOMAIN w = 1..n /\ w = [c \in 1..n |-> w[c]]
    BY <1>2
  <2>2. \A c \in 1..n : w[c].dir = txns[ts[a]].paga[b] /\ w[c].cuenta = orden[c]
    BY <1>2
  <2> HIDE DEF w
  <2>3. EsSecuencia(w) /\ Len(w) = n
    BY <1>2, <2>1, SecuenciaDe
  <2> QED BY <2>2, <2>3 DEF w
<1> HIDE DEF vista
<1>4. ASSUME NEW a \in 1..Len(ts)
      PROVE  /\ EsSecuencia(salidas(a)) /\ Len(salidas(a)) = Len(txns[ts[a]].paga)
             /\ \A b \in 1..Len(txns[ts[a]].paga) : salidas(a)[b] = vista(a, b)
  <2> DEFINE s == salidas(a)
             n == Len(txns[ts[a]].paga)
  <2>1. n \in Nat /\ DOMAIN txns[ts[a]].paga = 1..n
    BY Secuencia
  <2>2. DOMAIN s = 1..n /\ s = [b \in 1..n |-> s[b]] /\ \A b \in 1..n : s[b] = vista(a, b)
    BY <2>1
  <2> HIDE DEF s, n
  <2>3. EsSecuencia(s) /\ Len(s) = n
    BY <2>1, <2>2, SecuenciaDe
  <2> QED BY <2>2, <2>3 DEF s, n
<1> HIDE DEF salidas
<1>5. ASSUME NEW a \in 1..Len(ts) PROVE \A b \in 1..Len(salidas(a)) : EsSecuencia(salidas(a)[b])
  <2>1. ASSUME NEW b \in 1..Len(salidas(a)) PROVE EsSecuencia(salidas(a)[b])
    <3>1. salidas(a)[b] = vista(a, b)
      BY <1>4
    <3> QED BY <1>3, <3>1
  <2> QED BY <2>1
<1>6. ASSUME NEW a \in 1..Len(ts)
      PROVE  EsSecuencia(FlattenSeq(salidas(a))) /\ TieneLas(FlattenSeq(salidas(a)), salidas(a), Len(salidas(a)))
  <2>1. EsSecuencia(salidas(a)) /\ \A b \in 1..Len(salidas(a)) : EsSecuencia(salidas(a)[b])
    BY <1>4, <1>5
  <2> DEFINE s == salidas(a)
  <2> HIDE DEF s
  <2>2. EsSecuencia(FlattenSeq(s)) /\ TieneLas(FlattenSeq(s), s, Len(s))
    BY <2>1, Aplanada, AplanadaTiene DEF s
  <2> QED BY <2>2 DEF s
<1>7. EsSecuencia(ss) /\ Len(ss) = Len(ts) /\ \A a \in 1..Len(ts) : ss[a] = FlattenSeq(salidas(a))
  <2> DEFINE n == Len(ts)
  <2>1. DOMAIN ss = 1..n /\ ss = [a \in 1..n |-> ss[a]] /\ \A a \in 1..n : ss[a] = FlattenSeq(salidas(a))
    BY <1>2
  <2> HIDE DEF ss
  <2>2. n \in Nat
    BY <1>2
  <2> HIDE DEF n
  <2>3. EsSecuencia(ss) /\ Len(ss) = n
    BY <2>1, <2>2, SecuenciaDe
  <2> QED BY <2>1, <2>3 DEF n
<1> HIDE DEF ss
<1>8. TieneLas(v, ss, Len(ss))
  BY <1>6, <1>7, AplanadaTiene
<1> HIDE DEF v
<1> DEFINE x == vista(j, i)[k]
<1>9. \E c \in 1..Len(ss[j]) : ss[j][c] = x
  <2>1. TieneLas(ss[j], salidas(j), Len(salidas(j)))
    BY <1>6, <1>7
  <2>2. i \in 1..Len(salidas(j)) /\ salidas(j)[i] = vista(j, i) /\ k \in 1..Len(vista(j, i))
    BY <1>3, <1>4
  <2> HIDE DEF x
  <2>3. \A c \in 1..Len(salidas(j)[i]) : \E m \in 1..Len(ss[j]) : ss[j][m] = salidas(j)[i][c]
    BY <2>1, <2>2 DEF TieneLas
  <2> QED BY <2>2, <2>3 DEF x
<1>10. PICK c \in 1..Len(ss[j]) : ss[j][c] = x
  BY <1>9
<1>11. \E m \in 1..Len(v) : v[m] = ss[j][c]
  BY <1>7, <1>8, <1>10 DEF TieneLas
<1>12. x.dir = txns[ts[j]].paga[i] /\ x.cuenta = orden[k]
  BY <1>3
<1> HIDE DEF x
<1> QED BY <1>1, <1>10, <1>11, <1>12

\* What the passes look at.
LEMMA VisitasDe ==
    ASSUME NEW ts, EsSecuencia(ts), \A j \in 1..Len(ts) : EsSecuencia(txns[ts[j]].paga),
           NEW orden, EsSecuencia(orden)
    PROVE  /\ EsSecuencia(Visitas(ts, orden))
           /\ \A i \in 1..Len(Visitas(ts, orden)) :
                 \E j \in 1..Len(ts), k \in 1..Len(orden) :
                    Visitas(ts, orden)[i].txn = ts[j] /\ Visitas(ts, orden)[i].cuenta = orden[k]
<1> DEFINE vista(j, i) == [k \in DOMAIN orden |->
                              [txn |-> ts[j], dir |-> txns[ts[j]].paga[i], cuenta |-> orden[k]]]
           salidas(j) == [i \in DOMAIN txns[ts[j]].paga |-> vista(j, i)]
           ss == [j \in DOMAIN ts |-> FlattenSeq(salidas(j))]
           v == FlattenSeq(ss)
           De(x, j) == \E k \in 1..Len(orden) : x.txn = ts[j] /\ x.cuenta = orden[k]
<1>1. Visitas(ts, orden) = v
  BY DEF Visitas
<1>2. Len(ts) \in Nat /\ DOMAIN ts = 1..Len(ts) /\ Len(orden) \in Nat /\ DOMAIN orden = 1..Len(orden)
  BY Secuencia
<1>3. ASSUME NEW j \in 1..Len(ts), NEW i
      PROVE  EsSecuencia(vista(j, i)) /\ \A k \in 1..Len(vista(j, i)) : De(vista(j, i)[k], j)
  <2> DEFINE w == vista(j, i)
             m == Len(orden)
  <2>1. DOMAIN w = 1..m /\ w = [k \in 1..m |-> w[k]]
    BY <1>2
  <2>2. \A k \in 1..m : w[k].txn = ts[j] /\ w[k].cuenta = orden[k]
    BY <1>2
  <2> HIDE DEF w
  <2>3. EsSecuencia(w) /\ Len(w) = m
    BY <1>2, <2>1, SecuenciaDe
  <2>4. \A k \in 1..Len(w) : De(w[k], j)
    BY <2>2, <2>3
  <2> QED BY <2>3, <2>4 DEF w
<1> HIDE DEF vista
<1>4. ASSUME NEW j \in 1..Len(ts)
      PROVE  /\ EsSecuencia(FlattenSeq(salidas(j)))
             /\ \A k \in 1..Len(FlattenSeq(salidas(j))) : De(FlattenSeq(salidas(j))[k], j)
  <2> DEFINE s == salidas(j)
             m == Len(txns[ts[j]].paga)
  <2>1. m \in Nat /\ DOMAIN txns[ts[j]].paga = 1..m
    BY Secuencia
  <2>2. DOMAIN s = 1..m /\ s = [i \in 1..m |-> s[i]] /\ \A i \in 1..m : s[i] = vista(j, i)
    BY <2>1
  <2> HIDE DEF s, m, De
  <2>3. EsSecuencia(s) /\ Len(s) = m
    BY <2>1, <2>2, SecuenciaDe
  <2>4. \A i \in 1..m : EsSecuencia(s[i]) /\ \A k \in 1..Len(s[i]) : De(s[i][k], j)
    BY <1>3, <2>2
  <2> DEFINE p == FlattenSeq(s)
  <2>5. EsSecuencia(p) /\ ElementosDe(p, s)
    BY <2>3, <2>4, Aplanada
  <2> HIDE DEF p
  <2>6. \A k \in 1..Len(p) : De(p[k], j)
    BY <2>3, <2>4, <2>5 DEF ElementosDe
  <2> QED BY <2>5, <2>6 DEF p, s
<1> HIDE DEF salidas
<1>5. EsSecuencia(ss) /\ Len(ss) = Len(ts) /\ \A j \in 1..Len(ts) : ss[j] = FlattenSeq(salidas(j))
  <2> DEFINE m == Len(ts)
  <2>1. DOMAIN ss = 1..m /\ ss = [j \in 1..m |-> ss[j]] /\ \A j \in 1..m : ss[j] = FlattenSeq(salidas(j))
    BY <1>2
  <2> HIDE DEF ss
  <2>2. m \in Nat
    BY <1>2
  <2> HIDE DEF m
  <2>3. EsSecuencia(ss) /\ Len(ss) = m
    BY <2>1, <2>2, SecuenciaDe
  <2> QED BY <2>1, <2>3 DEF m
<1> HIDE DEF ss, De
<1>6. EsSecuencia(v) /\ ElementosDe(v, ss)
  BY <1>4, <1>5, Aplanada
<1> HIDE DEF v
<1>7. ASSUME NEW i \in 1..Len(v) PROVE \E j \in 1..Len(ts) : De(v[i], j)
  <2>1. PICK j \in 1..Len(ss) : \E k \in 1..Len(ss[j]) : v[i] = ss[j][k]
    BY <1>6 DEF ElementosDe
  <2> QED BY <1>4, <1>5, <2>1
<1> QED BY <1>1, <1>6, <1>7 DEF De

\* The pass of an event, whoever its transactions pay.
LEMMA PasoDeEvento ==
    ASSUME NEW evento, EstadoBueno(Intactas(evento)), NEW ts, EsSecuencia(ts), NEW orden \in SetToSeqs(DOMAIN cuentas),
           \A j \in 1..Len(ts) : ts[j] \in DOMAIN txns /\ EsSecuencia(txns[ts[j]].paga),
           \A j \in 1..Len(ts) : \A c :
               CuentaBuena(txns, directorio, c) => CuentaBuena(txns, directorio, Pagada(c, ts[j], evento))
    PROVE  /\ EstadoBueno(Recorrer(ts, orden, evento))
           /\ Recorrer(ts, orden, evento).aplicados = Intactas(evento).aplicados
           /\ \/ Recien(Recorrer(ts, orden, evento))
              \/ \A j \in 1..Len(ts), c \in DOMAIN cuentas :
                    \A i \in 1..Len(txns[ts[j]].paga) : txns[ts[j]].paga[i] # cuentas[c].dir
<1> DEFINE visitas == Visitas(ts, orden)
           inicial == Intactas(evento)
           S == {i \in 1..Len(visitas) : cuentas[visitas[i].cuenta].dir = visitas[i].dir}
           n == Len(visitas)
           cambio(e, i) == IF cuentas[visitas[i].cuenta].dir = visitas[i].dir
                           THEN Tocar(e, visitas[i].cuenta, Pagada(e.cs[visitas[i].cuenta], visitas[i].txn, evento))
                           ELSE e
           paso(h) == [i \in 0..n |-> IF i = 0 THEN inicial ELSE cambio(h[i - 1], i)]
           estado == CHOOSE h : h = paso(h)
<1>1. Recorrer(ts, orden, evento) = estado[n]
  BY DEF Recorrer
<1>2. /\ EsSecuencia(orden) /\ \A k \in 1..Len(orden) : orden[k] \in DOMAIN cuentas
      /\ \A c \in DOMAIN cuentas : \E k \in 1..Len(orden) : orden[k] = c
  <2>1. IsFiniteSet(DOMAIN cuentas)
    BY DEF EstadoBueno, CuentasBuenas
  <2>2. EsSecuencia(orden) /\ {orden[k] : k \in 1..Len(orden)} = DOMAIN cuentas
    BY <2>1, OrdenDe
  <2> QED BY <2>2
<1>3. /\ EsSecuencia(visitas)
      /\ \A i \in 1..n : \E j \in 1..Len(ts), k \in 1..Len(orden) :
            visitas[i].txn = ts[j] /\ visitas[i].cuenta = orden[k]
  BY <1>2, VisitasDe
<1>12. ASSUME NEW j \in 1..Len(ts), NEW c \in DOMAIN cuentas, NEW i \in 1..Len(txns[ts[j]].paga),
              txns[ts[j]].paga[i] = cuentas[c].dir
       PROVE  \E m \in 1..n : m \in S
  <2>1. PICK k \in 1..Len(orden) : orden[k] = c
    BY <1>2
  <2>2. PICK m \in 1..n : visitas[m].dir = txns[ts[j]].paga[i] /\ visitas[m].cuenta = orden[k]
    <3>1. EsSecuencia(orden) /\ \A a \in 1..Len(ts) : EsSecuencia(txns[ts[a]].paga)
      BY <1>2
    <3> QED BY <3>1, VisitasTodas
  <2> HIDE DEF visitas
  <2> QED BY <1>12, <2>1, <2>2
<1> HIDE DEF visitas
<1>4. n \in Nat
  BY <1>3, Secuencia
<1>5. ASSUME NEW i \in 1..n, NEW e
      PROVE  /\ i \notin S => cambio(e, i) = e
             /\ i \in S =>
                \E alias, c : /\ cambio(e, i) = Tocar(e, alias, c) /\ alias \in DOMAIN cuentas
                              /\ CuentaBuena(txns, directorio, e.cs[alias]) => CuentaBuena(txns, directorio, c)
  <2> DEFINE v == visitas[i]
             c == Pagada(e.cs[v.cuenta], v.txn, evento)
  <2>1. PICK j \in 1..Len(ts), k \in 1..Len(orden) : v.txn = ts[j] /\ v.cuenta = orden[k]
    BY <1>3
  <2>2. v.cuenta \in DOMAIN cuentas
    BY <1>2, <2>1
  <2>3. ASSUME CuentaBuena(txns, directorio, e.cs[v.cuenta]) PROVE CuentaBuena(txns, directorio, c)
    <3>1. CuentaBuena(txns, directorio, Pagada(e.cs[v.cuenta], ts[j], evento))
      BY <2>3
    <3> HIDE DEF v
    <3> QED BY <2>1, <3>1
  <2>4. /\ cambio(e, i) = IF cuentas[v.cuenta].dir = v.dir THEN Tocar(e, v.cuenta, c) ELSE e
        /\ (i \in S <=> cuentas[v.cuenta].dir = v.dir)
    OBVIOUS
  <2> HIDE DEF v, c, cambio, S
  <2> QED BY <2>2, <2>3, <2>4
<1> HIDE DEF cambio, n, S, inicial
<1>6. \E h : h = paso(h)
  <2> DEFINE Hay(m) == \E h : h = [i \in 0..m |-> IF i = 0 THEN inicial ELSE cambio(h[i - 1], i)]
             T == {m \in Nat : Hay(m)}
  <2>1. Hay(0)
    <3>1. PICK h : h = [i \in 0..0 |-> inicial]
      OBVIOUS
    <3>2. h = [i \in 0..0 |-> IF i = 0 THEN inicial ELSE cambio(h[i - 1], i)]
      BY <3>1
    <3> QED BY <3>2
  <2>2. ASSUME NEW m \in Nat, Hay(m) PROVE Hay(m + 1)
    <3>1. PICK h : h = [i \in 0..m |-> IF i = 0 THEN inicial ELSE cambio(h[i - 1], i)]
      BY <2>2
    <3>2. PICK x : x = cambio(h[m], m + 1)
      OBVIOUS
    <3>3. PICK w : w = [i \in 0..m + 1 |-> IF i = m + 1 THEN x ELSE h[i]]
      OBVIOUS
    <3>4. ASSUME NEW i \in 0..m + 1 PROVE w[i] = IF i = 0 THEN inicial ELSE cambio(w[i - 1], i)
      <4>1. CASE i = m + 1
        <5>1. w[i] = x /\ i # 0 /\ w[i - 1] = h[m]
          BY <3>3, <4>1
        <5> QED BY <3>2, <4>1, <5>1
      <4>2. CASE i # m + 1
        <5>1. i \in 0..m /\ w[i] = h[i] /\ (i # 0 => w[i - 1] = h[i - 1])
          BY <3>3, <4>2
        <5>2. h[i] = IF i = 0 THEN inicial ELSE cambio(h[i - 1], i)
          BY <3>1, <5>1
        <5> QED BY <5>1, <5>2
      <4> QED BY <4>1, <4>2
    <3>5. w = [i \in 0..m + 1 |-> w[i]]
      BY <3>3
    <3>6. w = [i \in 0..m + 1 |-> IF i = 0 THEN inicial ELSE cambio(w[i - 1], i)]
      BY <3>4, <3>5
    <3> QED BY <3>6
  <2> HIDE DEF Hay
  <2>3. T = Nat
    <3>1. T \in SUBSET Nat /\ 0 \in T
      BY <2>1
    <3>2. \A m \in T : m + 1 \in T
      BY <2>2
    <3> HIDE DEF T
    <3> QED BY <3>1, <3>2, Induccion
  <2>4. Hay(n)
    BY <1>4, <2>3
  <2> QED BY <2>4 DEF Hay
<1> HIDE DEF paso
<1>7. estado = paso(estado)
  BY <1>6
<1> HIDE DEF estado
<1>8. \A i \in 0..n : estado[i] = IF i = 0 THEN inicial ELSE cambio(estado[i - 1], i)
  BY <1>7 DEF paso
<1>9. estado[0] = inicial
  <2>1. 0 \in 0..n
    BY <1>4
  <2>2. estado[0] = IF 0 = 0 THEN inicial ELSE cambio(estado[0 - 1], 0)
    BY <1>8, <2>1, Zenon
  <2> QED BY <2>2, Zenon
<1>10. ASSUME NEW i \in 1..n
       PROVE  /\ i \notin S => estado[i] = estado[i - 1]
              /\ i \in S =>
                \E alias, c : /\ estado[i] = Tocar(estado[i - 1], alias, c) /\ alias \in DOMAIN cuentas
                              /\ CuentaBuena(txns, directorio, estado[i - 1].cs[alias])
                                    => CuentaBuena(txns, directorio, c)
  <2>1. estado[i] = cambio(estado[i - 1], i)
    BY <1>4, <1>8
  <2> QED BY <1>5, <2>1
<1>11. /\ EstadoBueno(estado[n]) /\ estado[n].aplicados = inicial.aplicados
       /\ (\E i \in 1..n : i \in S) => Recien(estado[n])
  <2>1. EstadoBueno(estado[0])
    BY <1>9 DEF inicial
  <2> QED BY <1>4, <1>9, <1>10, <2>1, RecorridoBueno
<1> QED BY <1>1, <1>11, <1>12 DEF inicial

\* The fields of the window.
Campos == {"combo", "activo", "sensible", "vista", "prueba", "abierta"}

\* The block of a row, or of a proof, is on disk and has its transaction.
EnDisco(dr, x) ==
    \E n \in 1..Len(dr) : NombresBloques[n] = x.bloque /\ \E k \in 1..Len(dr[n]) : x.txn = Palabra(dr[n][k])

\* The window selects one of its aliases before a page reacts, and its rows have
\* no block or one with a proof.
VentanaBuena(dr, v) ==
    /\ DOMAIN v = Campos /\ v.sensible \in BOOLEAN /\ v.abierta \in BOOLEAN
    /\ v.combo \in Seq(Aliases) /\ v.activo \in 0..Len(v.combo) /\ (v.sensible => v.activo # 0)
    /\ v.vista = {} \/ \E w : v.vista = {w}
    /\ \A w \in v.vista : \A fila \in Range(w.filas) : fila.info.bloque = Nada \/ EnDisco(dr, fila.info)
    /\ v.prueba = {} \/ \E p : v.prueba = {p}
    /\ \A p \in v.prueba : EnDisco(dr, p)

\* The network: transactions whose names and signers a file can hold, and blocks of them.
RedInv ==
    /\ IsFiniteSet(DOMAIN txns) /\ DOMAIN txns \subseteq DOMAIN Ajenas \cup Range(Propias)
    /\ \A t \in DOMAIN txns : Limpia(txns[t].firma) /\ EsSecuencia(txns[t].paga)
    /\ EsSecuencia(directorio) /\ Len(directorio) <= Len(NombresBloques)
    /\ \A n \in 1..Len(directorio) :
          EsSecuencia(directorio[n]) /\ \A k \in 1..Len(directorio[n]) : directorio[n][k] \in DOMAIN txns
    /\ porEnviar \subseteq 1..Len(directorio)

\* The file has good accounts, those of the wallet while it runs.
ArchivoInv ==
    \/ archivo = {} /\ (pc = "espera" => cuentas = << >>)
    \/ \E cs : /\ CuentasBuenas(txns, directorio, cs) /\ (pc = "espera" => cuentas = cs)
               /\ \E orden \in SetToSeqs(DOMAIN cs) : archivo = {Guardar(cs, orden)}

\* What a process that has not loaded, or is no more, has.
ProcesoInv ==
    /\ pc \in {"inicio", "espera", "fin"}
    /\ pc # "espera" => avisos = << >> /\ cuentas = << >> /\ ventana.vista = {}
    /\ pc = "fin" => porEnviar = {} /\ canal = << >> /\ ventana = VentanaNueva

\* The account that is selected is asked for, or is none, or the window has had an answer.
Respondida ==
    LET alias == ventana.combo[ventana.activo]
    IN  \/ Pedida(canal, alias)
        \/ pc = "espera" /\ (alias \notin DOMAIN cuentas \/ ventana.vista # {} \/ EnCamino(avisos))

\* What an open window promises.
VistaInv ==
    ventana.abierta => /\ pc = "espera" => AlDia(avisos, ventana.vista, cuentas)
                       /\ ventana.activo # 0 => Respondida

\* Nobody panicked but for a text that is too short, and the bounds.
LimitesInv ==
    /\ panico = "no" \/ (panico = "decode_bitcoin_adress" /\ Cortas # {})
    /\ agregadas \in 0..MaxAgregadas /\ vidas \in 1..MaxVidas

\* The inductive invariant.
IInv ==
    /\ Legible /\ RedInv /\ VentanaBuena(directorio, ventana)
    /\ CanalBueno(txns, directorio, canal) /\ AvisosBuenos(txns, directorio, avisos)
    /\ CuentasBuenas(txns, directorio, cuentas) /\ ArchivoInv /\ ProcesoInv /\ VistaInv /\ LimitesInv

\* A window that begins, and one that was closed.
LEMMA VentanaNuevaBuena ==
    ASSUME NEW dr
    PROVE  /\ VentanaBuena(dr, VentanaNueva) /\ VentanaNueva.activo = 0 /\ VentanaNueva.abierta
           /\ VentanaNueva.vista = {}
           /\ VentanaBuena(dr, [VentanaNueva EXCEPT !.abierta = FALSE])
           /\ ~[VentanaNueva EXCEPT !.abierta = FALSE].abierta
           /\ [VentanaNueva EXCEPT !.abierta = FALSE].vista = {}
<1>1. ASSUME NEW v, DOMAIN v = Campos, v.combo = << >>, v.activo = 0, v.sensible = FALSE, v.vista = {}, v.prueba = {},
             v.abierta \in BOOLEAN
      PROVE  VentanaBuena(dr, v)
  <2>1. << >> \in Seq(Aliases) /\ 0 \in 0..Len(<< >>)
    OBVIOUS
  <2> QED BY <1>1, <2>1 DEF VentanaBuena
<1>2. LET w == VentanaNueva
      IN  /\ DOMAIN w = Campos /\ w.combo = << >> /\ w.activo = 0 /\ w.sensible = FALSE
          /\ w.vista = {} /\ w.prueba = {} /\ w.abierta = TRUE
  BY DEF Campos, VentanaNueva
<1>3. LET w == [VentanaNueva EXCEPT !.abierta = FALSE]
      IN  /\ DOMAIN w = Campos /\ w.combo = << >> /\ w.activo = 0 /\ w.sensible = FALSE
          /\ w.vista = {} /\ w.prueba = {} /\ w.abierta = FALSE
  BY DEF Campos, VentanaNueva
<1> QED BY <1>1, <1>2, <1>3

\* The rows of what is shown of a good account.
LEMMA FilasDe ==
    ASSUME NEW tx, NEW dr, NEW alias, NEW c, CuentaBuena(tx, dr, c), NEW saldo,
           NEW fila \in Range(Mostrar(alias, c, saldo).filas)
    PROVE  fila.info.bloque = Nada \/ EnDisco(dr, fila.info)
<1> DEFINE r == c.listas["RECEIVED"]
           s == c.listas["SENT"]
           a == Filas("Received", r)
           b == Filas("Sent", s)
           Bien(x) == x.bloque = Nada \/ EnDisco(dr, x)
<1>1. ListaBuena(tx, dr, "RECEIVED", r) /\ ListaBuena(tx, dr, "SENT", s)
  BY SeccionesDe DEF CuentaBuena
<1>2. Mostrar(alias, c, saldo).filas = a \o b
  BY MostrarDe
<1> HIDE DEF r, s, a, b
<1>3. /\ EsSecuencia(r) /\ \A i \in 1..Len(r) : Bien(r[i])
      /\ EsSecuencia(s) /\ \A i \in 1..Len(s) : Bien(s[i])
  <2>1. EsSecuencia(r) /\ EsSecuencia(s)
    BY <1>1 DEF ListaBuena
  <2>2. ASSUME NEW i \in 1..Len(r) PROVE Bien(r[i])
    <3>1. EntradaBuena(tx, dr, "RECEIVED", r[i])
      BY <1>1 DEF ListaBuena
    <3>2. "RECEIVED" # "SENT"
      OBVIOUS
    <3> QED BY <3>1, <3>2 DEF EntradaBuena
  <2>3. ASSUME NEW i \in 1..Len(s) PROVE Bien(s[i])
    <3>1. EntradaBuena(tx, dr, "SENT", s[i])
      BY <1>1 DEF ListaBuena
    <3> QED BY <3>1 DEF EntradaBuena, EnDisco
  <2> QED BY <2>1, <2>2, <2>3
<1> HIDE DEF Bien
<1>4. ASSUME NEW tipo, NEW es, EsSecuencia(es), \A i \in 1..Len(es) : Bien(es[i])
      PROVE  EsSecuencia(Filas(tipo, es)) /\ \A i \in 1..Len(Filas(tipo, es)) : Bien(Filas(tipo, es)[i].info)
  <2> DEFINE n == Len(es)
             u == [i \in DOMAIN es |-> [tipo |-> tipo, info |-> es[i]]]
             w == [i \in 1..Len(u) |-> u[(Len(u) - i) + 1]]
  <2>1. n \in Nat /\ DOMAIN es = 1..n
    BY <1>4, Secuencia
  <2>2. EsSecuencia(u) /\ Len(u) = n /\ \A i \in 1..n : u[i].info = es[i]
    <3>1. DOMAIN u = 1..n /\ u = [i \in 1..n |-> u[i]] /\ \A i \in 1..n : u[i].info = es[i]
      BY <2>1
    <3> HIDE DEF u, n
    <3> QED BY <2>1, <3>1, SecuenciaDe
  <2>3. Filas(tipo, es) = w
    BY DEF Filas, Reverse
  <2> HIDE DEF u
  <2>4. w = [i \in 1..n |-> u[(n - i) + 1]]
    BY <2>2
  <2> HIDE DEF w, n
  <2>5. EsSecuencia(w) /\ Len(w) = n
    <3>1. DOMAIN w = 1..n /\ w = [i \in 1..n |-> w[i]]
      BY <2>4
    <3> QED BY <2>1, <3>1, SecuenciaDe
  <2>6. ASSUME NEW i \in 1..n PROVE Bien(w[i].info)
    <3> DEFINE j == (n - i) + 1
    <3>1. j \in 1..n
      BY <2>1
    <3>2. w[i] = u[j]
      BY <2>4
    <3> HIDE DEF j
    <3> QED BY <1>4, <2>2, <3>1, <3>2 DEF n
  <2> QED BY <2>3, <2>5, <2>6
<1>5. /\ EsSecuencia(a) /\ \A i \in 1..Len(a) : Bien(a[i].info)
      /\ EsSecuencia(b) /\ \A i \in 1..Len(b) : Bien(b[i].info)
  BY <1>3, <1>4 DEF a, b
<1> DEFINE f == a \o b
<1>6. /\ EsSecuencia(f) /\ Len(f) = Len(a) + Len(b) /\ Len(a) \in Nat /\ Len(b) \in Nat
      /\ DOMAIN f = 1..Len(f)
  <2>1. EsSecuencia(f) /\ Len(f) = Len(a) + Len(b)
    BY <1>5, SecuenciaUnida
  <2> HIDE DEF f
  <2> QED BY <1>5, <2>1, Secuencia
<1>7. PICK i \in 1..Len(f) : fila = f[i]
  BY <1>2, <1>6 DEF Range
<1>8. CASE i <= Len(a)
  <2>1. i \in 1..Len(a)
    BY <1>6, <1>8
  <2>2. f[i] = a[i]
    BY <1>5, <2>1, UnidaPrimera
  <2> QED BY <1>5, <1>7, <2>1, <2>2 DEF Bien
<1>9. CASE ~(i <= Len(a))
  <2> DEFINE j == i - Len(a)
  <2>1. j \in 1..Len(b) /\ i = Len(a) + j
    BY <1>6, <1>9
  <2> HIDE DEF j
  <2>2. f[Len(a) + j] = b[j]
    BY <1>5, <2>1, UnidaSegunda
  <2> QED BY <1>5, <1>7, <2>1, <2>2 DEF Bien
<1> QED BY <1>8, <1>9

-----------------------------------------------------------------------------
(* What the user does. *)

\* What the user leaves alone.
Ajeno == <<red, wallet, panico, vidas>>

\* What holds whatever the user does.
LEMMA LoAjeno ==
    ASSUME IInv, UNCHANGED Ajeno, agregadas' \in 0..MaxAgregadas
    PROVE  /\ Legible' /\ RedInv' /\ CuentasBuenas(txns, directorio, cuentas)' /\ ArchivoInv' /\ LimitesInv'
           /\ pc' = pc /\ cuentas' = cuentas /\ txns' = txns /\ directorio' = directorio /\ porEnviar' = porEnviar
<1>1. /\ txns' = txns /\ directorio' = directorio /\ porEnviar' = porEnviar /\ pc' = pc /\ cuentas' = cuentas
      /\ archivo' = archivo /\ panico' = panico /\ vidas' = vidas
  BY DEF Ajeno, red, wallet
<1>2. Legible'
  BY DEF IInv, Legible
<1>3. RedInv'
  BY <1>1 DEF IInv, RedInv
<1>4. CuentasBuenas(txns, directorio, cuentas)'
  BY <1>1 DEF IInv
<1>5. ArchivoInv'
  BY <1>1 DEF IInv, ArchivoInv
<1>6. LimitesInv'
  BY <1>1 DEF IInv, LimitesInv
<1> QED BY <1>1, <1>2, <1>3, <1>4, <1>5, <1>6

\* Another list, with the same account shown.
LEMMA VentanaCambia ==
    ASSUME NEW dr, NEW v, VentanaBuena(dr, v), NEW w, DOMAIN w = Campos, w.sensible \in BOOLEAN, w.abierta \in BOOLEAN,
           w.combo \in Seq(Aliases), w.activo \in 0..Len(w.combo), w.sensible => w.activo # 0,
           w.vista = v.vista, w.prueba = v.prueba
    PROVE  VentanaBuena(dr, w)
<1>1. /\ w.vista = {} \/ \E x : w.vista = {x}
      /\ \A x \in w.vista : \A fila \in Range(x.filas) : fila.info.bloque = Nada \/ EnDisco(dr, fila.info)
      /\ w.prueba = {} \/ \E p : w.prueba = {p}
      /\ \A p \in w.prueba : EnDisco(dr, p)
  BY DEF VentanaBuena
<1> QED BY <1>1 DEF VentanaBuena

\* Agregar: the alias that is selected is asked for.
LEMMA AgregarInv ==
    ASSUME IInv, Agregar
    PROVE  IInv'
<1>1. /\ UsuarioPuede /\ agregadas < MaxAgregadas /\ agregadas' = agregadas + 1
      /\ UNCHANGED Ajeno /\ avisos' = avisos
  BY DEF Agregar, Ajeno, red, wallet
<1>2. PICK alias \in Aliases, dir \in Direcciones \cup {Palabra("invalida")} :
          /\ ventana' = [ventana EXCEPT !.combo = <<alias>> \o @, !.activo = 1, !.sensible = TRUE]
          /\ canal' = canal \o PedidosAlAgregar(alias, dir)
  BY DEF Agregar
<1>3. agregadas' \in 0..MaxAgregadas
  BY <1>1, VentanaAssumption DEF IInv, LimitesInv
<1>4. /\ Legible' /\ RedInv' /\ CuentasBuenas(txns, directorio, cuentas)' /\ ArchivoInv' /\ LimitesInv'
      /\ pc' = pc /\ cuentas' = cuentas /\ txns' = txns /\ directorio' = directorio /\ porEnviar' = porEnviar
  BY <1>1, <1>3, LoAjeno
<1>5. /\ DOMAIN ventana = Campos /\ ventana.combo \in Seq(Aliases)
      /\ ventana.abierta \in BOOLEAN /\ ventana.abierta
  BY <1>1 DEF IInv, VentanaBuena, UsuarioPuede
<1>6. /\ DOMAIN ventana' = Campos /\ ventana'.combo = <<alias>> \o ventana.combo /\ ventana'.activo = 1
      /\ ventana'.sensible = TRUE /\ ventana'.vista = ventana.vista /\ ventana'.prueba = ventana.prueba
      /\ ventana'.abierta = ventana.abierta
  BY <1>2, <1>5 DEF Campos
<1>7. ventana'.combo \in Seq(Aliases) /\ Len(ventana'.combo) \in Nat \ {0} /\ ventana'.combo[1] = alias
  BY <1>5, <1>6
<1>8. VentanaBuena(directorio, ventana)'
  <2>1. ventana'.activo \in 0..Len(ventana'.combo)
    BY <1>6, <1>7
  <2>2. VentanaBuena(directorio, ventana)
    BY DEF IInv
  <2>3. ventana'.activo # 0
    BY <1>6
  <2>4. ventana'.sensible \in BOOLEAN
    BY <1>6
  <2>5. ventana'.abierta \in BOOLEAN
    BY <1>5, <1>6
  <2> QED BY <1>4, <1>6, <1>7, <2>1, <2>2, <2>3, <2>4, <2>5, VentanaCambia
<1>9. CanalBueno(txns, directorio, canal)' /\ Pedida(canal', alias)
  <2>1. CanalBueno(txns, directorio, canal)
    BY DEF IInv
  <2>2. /\ CanalBueno(txns, directorio, canal \o PedidosAlAgregar(alias, dir))
        /\ Pedida(canal \o PedidosAlAgregar(alias, dir), alias)
    BY <2>1, CanalConAlta
  <2> QED BY <1>2, <1>4, <2>2
<1>10. AvisosBuenos(txns, directorio, avisos)'
  BY <1>1, <1>4 DEF IInv
<1>11. ProcesoInv'
  <2>1. pc # "fin"
    BY <1>1 DEF UsuarioPuede
  <2> QED BY <1>1, <1>4, <1>6, <2>1 DEF IInv, ProcesoInv
<1>12. VistaInv'
  <2>1. Respondida'
    BY <1>6, <1>7, <1>9 DEF Respondida
  <2>2. pc = "espera" => AlDia(avisos, ventana.vista, cuentas)
    BY <1>5 DEF IInv, VistaInv
  <2> QED BY <1>1, <1>4, <1>6, <2>1, <2>2 DEF VistaInv
<1> QED BY <1>4, <1>8, <1>9, <1>10, <1>11, <1>12 DEF IInv

\* Elegir: the alias that is selected is asked for.
LEMMA ElegirInv ==
    ASSUME IInv, Elegir
    PROVE  IInv'
<1>1. UsuarioPuede /\ agregadas' = agregadas /\ UNCHANGED Ajeno /\ avisos' = avisos
  BY DEF Elegir, Ajeno, red, wallet, limites
<1>2. PICK i \in DOMAIN ventana.combo \ {ventana.activo} :
          /\ ventana' = [ventana EXCEPT !.activo = i, !.sensible = TRUE]
          /\ canal' = Append(canal, [tipo |-> "cargar", alias |-> ventana.combo[i]])
  BY DEF Elegir
<1>3. agregadas' \in 0..MaxAgregadas
  BY <1>1 DEF IInv, LimitesInv
<1>4. /\ Legible' /\ RedInv' /\ CuentasBuenas(txns, directorio, cuentas)' /\ ArchivoInv' /\ LimitesInv'
      /\ pc' = pc /\ cuentas' = cuentas /\ txns' = txns /\ directorio' = directorio /\ porEnviar' = porEnviar
  BY <1>1, <1>3, LoAjeno
<1>5. /\ DOMAIN ventana = Campos /\ ventana.combo \in Seq(Aliases)
      /\ ventana.abierta \in BOOLEAN /\ ventana.abierta
  BY <1>1 DEF IInv, VentanaBuena, UsuarioPuede
<1>6. /\ DOMAIN ventana' = Campos /\ ventana'.combo = ventana.combo /\ ventana'.activo = i
      /\ ventana'.sensible = TRUE /\ ventana'.vista = ventana.vista /\ ventana'.prueba = ventana.prueba
      /\ ventana'.abierta = ventana.abierta
  BY <1>2, <1>5 DEF Campos
<1>7. i \in 1..Len(ventana.combo) /\ ventana.combo[i] \in Aliases
  BY <1>2, <1>5
<1>8. VentanaBuena(directorio, ventana)'
  <2>1. ventana'.activo \in 0..Len(ventana'.combo) /\ ventana'.activo # 0
    BY <1>6, <1>7
  <2> QED BY <1>4, <1>5, <1>6, <2>1 DEF IInv, VentanaBuena
<1> DEFINE alias == ventana.combo[i]
           e == [tipo |-> "cargar", alias |-> alias]
<1>9. CanalBueno(txns, directorio, canal)' /\ Pedida(canal', alias)
  <2>1. CanalBueno(txns, directorio, canal) /\ EsSecuencia(canal)
    BY DEF IInv, CanalBueno
  <2>2. canal' = Append(canal, e)
    BY <1>2
  <2>3. Pedida(canal', alias)
    BY <2>1, <2>2, PedidaUltima
  <2>4. e.tipo = "cargar" /\ e.alias = alias
    OBVIOUS
  <2> HIDE DEF e
  <2>5. EventoBueno(txns, directorio, e)
    BY <1>7, <2>4 DEF EventoBueno
  <2>6. CanalBueno(txns, directorio, Append(canal, e))
    BY <2>1, <2>4, <2>5, CanalCrece
  <2> QED BY <1>4, <2>2, <2>3, <2>6
<1>10. AvisosBuenos(txns, directorio, avisos)'
  BY <1>1, <1>4 DEF IInv
<1>11. ProcesoInv'
  <2>1. pc # "fin"
    BY <1>1 DEF UsuarioPuede
  <2> QED BY <1>1, <1>4, <1>6, <2>1 DEF IInv, ProcesoInv
<1>12. VistaInv'
  <2>1. Respondida'
    BY <1>6, <1>9 DEF Respondida
  <2>2. pc = "espera" => AlDia(avisos, ventana.vista, cuentas)
    BY <1>5 DEF IInv, VistaInv
  <2> QED BY <1>1, <1>4, <1>6, <2>1, <2>2 DEF VistaInv
<1> QED BY <1>4, <1>8, <1>9, <1>10, <1>11, <1>12 DEF IInv

\* An event that asks for no account, at the end of the channel.
LEMMA EventoInv ==
    ASSUME IInv, NEW e, EventoBueno(txns', directorio', e), e.tipo # "agregar",
           Crece(txns, directorio, txns', directorio'), pc # "fin",
           canal' = Append(canal, e), UNCHANGED <<avisos, ventana, pc, cuentas>>
    PROVE  CanalBueno(txns, directorio, canal)' /\ AvisosBuenos(txns, directorio, avisos)' /\ ProcesoInv' /\ VistaInv'
<1>1. CanalBueno(txns', directorio', canal) /\ AvisosBuenos(txns', directorio', avisos)
  BY CanalSigue, AvisosSiguen DEF IInv
<1>2. CanalBueno(txns', directorio', Append(canal, e)) /\ \A a : Pedida(canal, a) => Pedida(Append(canal, e), a)
  BY <1>1, CanalCrece
<1>3. ProcesoInv'
  BY DEF IInv, ProcesoInv
<1>4. VistaInv'
  <2>1. Respondida => Respondida'
    BY <1>2 DEF Respondida
  <2> QED BY <2>1 DEF IInv, VistaInv
<1> QED BY <1>1, <1>2, <1>3, <1>4

\* Enviar: a page that reacts has an alias to unwrap.
LEMMA EnviarInv ==
    ASSUME IInv, Enviar
    PROVE  IInv'
<1>1. ventana.activo # 0
  BY DEF Enviar, IInv, VentanaBuena
<1>2. PICK etiqueta \in Etiquetas, dir \in DOMAIN Pagos :
          canal' = Append(canal, [tipo |-> "enviar", alias |-> ventana.combo[ventana.activo],
                                  label |-> etiqueta, dir |-> dir])
  BY <1>1 DEF Enviar
<1>3. UNCHANGED Ajeno /\ agregadas' = agregadas /\ avisos' = avisos /\ ventana' = ventana /\ pc # "fin"
  BY <1>1 DEF Enviar, Ajeno, red, wallet, limites, UsuarioPuede
<1>4. agregadas' \in 0..MaxAgregadas
  BY <1>3 DEF IInv, LimitesInv
<1>5. /\ Legible' /\ RedInv' /\ CuentasBuenas(txns, directorio, cuentas)' /\ ArchivoInv' /\ LimitesInv'
      /\ pc' = pc /\ cuentas' = cuentas /\ txns' = txns /\ directorio' = directorio /\ porEnviar' = porEnviar
  BY <1>3, <1>4, LoAjeno
<1> DEFINE alias == ventana.combo[ventana.activo]
           e == [tipo |-> "enviar", alias |-> alias, label |-> etiqueta, dir |-> dir]
<1>6. alias \in Aliases
  BY <1>1 DEF IInv, VentanaBuena
<1>7. e.tipo = "enviar" /\ e.alias = alias /\ e.label = etiqueta /\ e.dir = dir
  OBVIOUS
<1>8. canal' = Append(canal, e)
  BY <1>2
<1> HIDE DEF e
<1>9. EventoBueno(txns', directorio', e) /\ e.tipo # "agregar"
  BY <1>6, <1>7 DEF EventoBueno
<1>10. Crece(txns, directorio, txns', directorio')
  <2>1. Len(directorio) \in Nat
    BY Secuencia DEF IInv, RedInv
  <2> QED BY <1>5, <2>1 DEF Crece
<1>11. CanalBueno(txns, directorio, canal)' /\ AvisosBuenos(txns, directorio, avisos)' /\ ProcesoInv' /\ VistaInv'
  BY <1>3, <1>5, <1>8, <1>9, <1>10, EventoInv
<1>12. VentanaBuena(directorio, ventana)'
  BY <1>3, <1>5 DEF IInv
<1> QED BY <1>5, <1>11, <1>12 DEF IInv

\* A wallet without accounts.
LEMMA SinCuentas ==
    ASSUME NEW tx, NEW dr
    PROVE  CuentasBuenas(tx, dr, << >>)
<1>1. DOMAIN << >> = {} /\ << >> = [c \in DOMAIN << >> |-> << >>[c]]
  OBVIOUS
<1>2. IsFiniteSet({})
  BY FS_EmptySet
<1> QED BY <1>1, <1>2 DEF CuentasBuenas

\* The process ends.
LEMMA TerminarInv ==
    ASSUME IInv, Terminar, UNCHANGED <<txns, directorio, archivo, limites>>,
           panico' = panico \/ (panico' = "decode_bitcoin_adress" /\ Cortas # {})
    PROVE  IInv'
<1>1. /\ pc' = "fin" /\ porEnviar' = {} /\ canal' = << >> /\ avisos' = << >> /\ cuentas' = << >>
      /\ ventana' = VentanaNueva
  BY DEF Terminar
<1>2. txns' = txns /\ directorio' = directorio /\ archivo' = archivo /\ UNCHANGED limites
  OBVIOUS
<1>3. Legible'
  BY DEF IInv, Legible
<1>4. RedInv'
  BY <1>1, <1>2 DEF IInv, RedInv
<1>5. VentanaBuena(directorio, ventana)' /\ ventana'.vista = {} /\ ventana'.activo = 0
  BY <1>1, <1>2, VentanaNuevaBuena
<1>6. CanalBueno(txns, directorio, canal)' /\ AvisosBuenos(txns, directorio, avisos)'
  BY <1>1, NingunoEsBueno
<1>7. CuentasBuenas(txns, directorio, cuentas)'
  BY <1>1, SinCuentas
<1>8. ArchivoInv'
  <2>1. pc' # "espera"
    BY <1>1
  <2> QED BY <1>2, <2>1 DEF IInv, ArchivoInv
<1>9. ProcesoInv'
  BY <1>1, <1>5 DEF ProcesoInv, VentanaNueva
<1>10. VistaInv'
  <2>1. pc' # "espera"
    BY <1>1
  <2> QED BY <1>5, <2>1 DEF VistaInv
<1>11. LimitesInv'
  BY <1>2 DEF IInv, LimitesInv, limites
<1> QED BY <1>3, <1>4, <1>5, <1>6, <1>7, <1>8, <1>9, <1>10, <1>11 DEF IInv

\* TransferirACorta: a text that is too short.
LEMMA TransferirACortaInv ==
    ASSUME IInv, TransferirACorta
    PROVE  IInv'
<1>1. /\ Terminar /\ UNCHANGED <<txns, directorio, archivo, limites>>
      /\ panico' = "decode_bitcoin_adress" /\ Head(canal).dir \in Cortas
  BY DEF TransferirACorta, Panico
<1> QED BY <1>1, TerminarInv

\* Cerrar: a closed window promises nothing.
LEMMA CerrarInv ==
    ASSUME IInv, Cerrar
    PROVE  IInv'
<1>1. /\ UNCHANGED Ajeno /\ agregadas' = agregadas /\ avisos' = << >> /\ pc # "fin"
      /\ canal' = Append(canal, [tipo |-> "cerrar"]) /\ ventana' = [VentanaNueva EXCEPT !.abierta = FALSE]
  BY DEF Cerrar, Ajeno, red, wallet, limites
<1>2. agregadas' \in 0..MaxAgregadas
  BY <1>1 DEF IInv, LimitesInv
<1>3. /\ Legible' /\ RedInv' /\ CuentasBuenas(txns, directorio, cuentas)' /\ ArchivoInv' /\ LimitesInv'
      /\ pc' = pc /\ cuentas' = cuentas /\ txns' = txns /\ directorio' = directorio /\ porEnviar' = porEnviar
  BY <1>1, <1>2, LoAjeno
<1>4. VentanaBuena(directorio, ventana)' /\ ventana'.vista = {} /\ ~ventana'.abierta
  BY <1>1, VentanaNuevaBuena
<1>5. CanalBueno(txns, directorio, canal)'
  <2> DEFINE e == [tipo |-> "cerrar"]
  <2>1. e.tipo = "cerrar"
    OBVIOUS
  <2>2. canal' = Append(canal, e)
    BY <1>1
  <2> HIDE DEF e
  <2>3. EventoBueno(txns, directorio, e) /\ e.tipo # "agregar"
    BY <2>1 DEF EventoBueno
  <2>4. CanalBueno(txns, directorio, canal)
    BY DEF IInv
  <2>5. CanalBueno(txns, directorio, Append(canal, e))
    BY <2>3, <2>4, CanalCrece
  <2> QED BY <1>3, <2>2, <2>5
<1>6. AvisosBuenos(txns, directorio, avisos)'
  BY <1>1, NingunoEsBueno
<1>7. ProcesoInv'
  BY <1>1, <1>3, <1>4 DEF IInv, ProcesoInv
<1>8. VistaInv'
  BY <1>4 DEF VistaInv
<1> QED BY <1>3, <1>4, <1>5, <1>6, <1>7, <1>8 DEF IInv

\* PedirPrueba: the block of a row is on disk.
LEMMA PedirPruebaInv ==
    ASSUME IInv, PedirPrueba
    PROVE  IInv'
<1>1. /\ ventana.abierta /\ pc # "fin" /\ txns' = txns /\ directorio' = directorio
      /\ archivo' = archivo /\ UNCHANGED limites
  BY DEF PedirPrueba
<1>2. PICK v \in ventana.vista : \E fila \in Range(v.filas) :
         LET bloque == fila.info.bloque
             hay == \E i \in DOMAIN directorio : NombresBloques[i] = bloque
         IN  /\ bloque # Nada
             /\ IF ~hay THEN Panico("merkle_proof")
                ELSE /\ ventana' = [ventana EXCEPT !.prueba = {[txn |-> fila.info.txn, bloque |-> bloque]}]
                     /\ UNCHANGED <<porEnviar, canal, avisos, pc, cuentas, aplicados, panico>>
  BY DEF PedirPrueba
<1>3. PICK fila \in Range(v.filas) :
         LET bloque == fila.info.bloque
             hay == \E i \in DOMAIN directorio : NombresBloques[i] = bloque
         IN  /\ bloque # Nada
             /\ IF ~hay THEN Panico("merkle_proof")
                ELSE /\ ventana' = [ventana EXCEPT !.prueba = {[txn |-> fila.info.txn, bloque |-> bloque]}]
                     /\ UNCHANGED <<porEnviar, canal, avisos, pc, cuentas, aplicados, panico>>
  BY <1>2
<1>4. fila.info.bloque # Nada
  BY <1>3
<1>5. EnDisco(directorio, fila.info)
  BY <1>2, <1>3, <1>4 DEF IInv, VentanaBuena
<1>6. DOMAIN directorio = 1..Len(directorio)
  BY Secuencia DEF IInv, RedInv
<1>7. \E i \in DOMAIN directorio : NombresBloques[i] = fila.info.bloque
  BY <1>5, <1>6 DEF EnDisco
<1> DEFINE p == [txn |-> fila.info.txn, bloque |-> fila.info.bloque]
<1>8. /\ ventana' = [ventana EXCEPT !.prueba = {p}]
      /\ UNCHANGED <<porEnviar, canal, avisos, pc, cuentas, aplicados, panico>>
  BY <1>3, <1>7
<1>9. EnDisco(directorio, p)
  <2>1. p.txn = fila.info.txn /\ p.bloque = fila.info.bloque
    OBVIOUS
  <2> HIDE DEF p
  <2> QED BY <1>5, <2>1 DEF EnDisco
<1> HIDE DEF p
<1>10. /\ UNCHANGED Ajeno /\ agregadas' = agregadas /\ avisos' = avisos /\ canal' = canal
  BY <1>1, <1>8 DEF Ajeno, red, wallet, limites
<1>11. agregadas' \in 0..MaxAgregadas
  BY <1>10 DEF IInv, LimitesInv
<1>12. /\ Legible' /\ RedInv' /\ CuentasBuenas(txns, directorio, cuentas)' /\ ArchivoInv' /\ LimitesInv'
       /\ pc' = pc /\ cuentas' = cuentas /\ txns' = txns /\ directorio' = directorio /\ porEnviar' = porEnviar
  BY <1>10, <1>11, LoAjeno
<1>13. /\ DOMAIN ventana' = Campos /\ ventana'.combo = ventana.combo /\ ventana'.activo = ventana.activo
       /\ ventana'.sensible = ventana.sensible /\ ventana'.vista = ventana.vista /\ ventana'.prueba = {p}
       /\ ventana'.abierta = ventana.abierta
  <2>1. DOMAIN ventana = Campos
    BY DEF IInv, VentanaBuena
  <2> QED BY <1>8, <2>1 DEF Campos
<1>14. VentanaBuena(directorio, ventana)'
  <2>1. VentanaBuena(directorio, ventana)
    BY DEF IInv
  <2> QED BY <1>1, <1>9, <1>13, <2>1 DEF VentanaBuena
<1>15. CanalBueno(txns, directorio, canal)' /\ AvisosBuenos(txns, directorio, avisos)'
  BY <1>10, <1>12 DEF IInv
<1>16. ProcesoInv'
  BY <1>1, <1>10, <1>12, <1>13 DEF IInv, ProcesoInv
<1>17. VistaInv'
  BY <1>10, <1>12, <1>13 DEF IInv, VistaInv, Respondida
<1> QED BY <1>12, <1>14, <1>15, <1>16, <1>17 DEF IInv

\* The last alias of the file is the first of the list.
LEMMA AlReves ==
    ASSUME NEW s \in Seq(Aliases)
    PROVE  Reverse(s) \in Seq(Aliases) /\ Len(Reverse(s)) = Len(s)
<1> DEFINE r == [i \in 1..Len(s) |-> s[(Len(s) - i) + 1]]
<1>1. Reverse(s) = r
  BY DEF Reverse
<1>2. \A i \in 1..Len(s) : (Len(s) - i) + 1 \in 1..Len(s)
  OBVIOUS
<1>3. r \in Seq(Aliases) /\ Len(r) = Len(s)
  BY <1>2
<1> QED BY <1>1, <1>3

\* The selected row stays selected.
LEMMA ListarDe ==
    ASSUME NEW v, DOMAIN v = Campos, v.combo \in Seq(Aliases), v.activo \in 0..Len(v.combo),
           NEW aliases \in Seq(Aliases), NEW w, w = Listar(v, aliases)
    PROVE  /\ DOMAIN w = Campos /\ w.sensible = v.sensible /\ w.abierta = v.abierta /\ w.vista = v.vista
           /\ w.prueba = v.prueba /\ w.combo \in Seq(Aliases) /\ w.activo \in 0..Len(w.combo)
           /\ (w.activo = 0 <=> v.activo = 0)
           /\ w.activo # 0 => w.combo[w.activo] = v.combo[v.activo]
<1> DEFINE r == Reverse(aliases)
           n == Len(aliases)
           k == v.activo
           m == IF k = 0 THEN 0 ELSE k + n
           c == v.combo
<1>1. r \in Seq(Aliases) /\ Len(r) = n /\ n \in Nat
  BY AlReves
<1>2. w = [v EXCEPT !.combo = r \o c, !.activo = m]
  BY DEF Listar
<1> HIDE DEF r, n, m
<1>3. /\ DOMAIN w = Campos /\ w.sensible = v.sensible /\ w.abierta = v.abierta /\ w.vista = v.vista
      /\ w.prueba = v.prueba /\ w.combo = r \o c /\ w.activo = m
  BY <1>2 DEF Campos
<1>4. m = IF k = 0 THEN 0 ELSE k + n
  BY DEF m
<1>5. c \in Seq(Aliases) /\ k \in 0..Len(c)
  OBVIOUS
<1> HIDE DEF c, k
<1>6. r \o c \in Seq(Aliases) /\ Len(r \o c) = n + Len(c)
  <2>1. r \o c \in Seq(Aliases)
    BY <1>1, <1>5
  <2>2. EsSecuencia(r) /\ EsSecuencia(c)
    BY <1>1, <1>5 DEF EsSecuencia
  <2>3. Len(r \o c) = Len(r) + Len(c)
    BY <2>2, SecuenciaUnida
  <2> QED BY <1>1, <2>1, <2>3
<1>7. m \in 0..n + Len(c) /\ (m = 0 <=> k = 0)
  BY <1>1, <1>4, <1>5
<1>8. ASSUME m # 0 PROVE (r \o c)[m] = c[k]
  <2>1. k \in 1..Len(c) /\ m = n + k
    BY <1>1, <1>4, <1>5, <1>8
  <2>2. EsSecuencia(r) /\ EsSecuencia(c)
    BY <1>1, <1>5 DEF EsSecuencia
  <2>3. (r \o c)[Len(r) + k] = c[k]
    BY <2>1, <2>2, UnidaSegunda
  <2> QED BY <1>1, <2>1, <2>3
<1> QED BY <1>3, <1>6, <1>7, <1>8 DEF c, k

\* Atender: the last copy on its way is shown, or the row that is selected moves with its alias.
LEMMA AtenderInv ==
    ASSUME IInv, Atender
    PROVE  IInv'
<1> DEFINE a == Head(avisos)
<1>1. /\ ventana.abierta /\ pc # "fin" /\ avisos # << >> /\ avisos' = Tail(avisos) /\ canal' = canal
      /\ UNCHANGED Ajeno /\ agregadas' = agregadas
      /\ ventana' = IF a.tipo = "cuenta"
                    THEN [ventana EXCEPT !.vista = {Mostrar(a.de, a.cuenta, a.saldo)}, !.prueba = {}]
                    ELSE Listar(ventana, a.aliases)
  BY DEF Atender, Ajeno, red, wallet, limites
<1>2. agregadas' \in 0..MaxAgregadas
  BY <1>1 DEF IInv, LimitesInv
<1>3. /\ Legible' /\ RedInv' /\ CuentasBuenas(txns, directorio, cuentas)' /\ ArchivoInv' /\ LimitesInv'
      /\ pc' = pc /\ cuentas' = cuentas /\ txns' = txns /\ directorio' = directorio /\ porEnviar' = porEnviar
  BY <1>1, <1>2, LoAjeno
<1>4. /\ AvisosBuenos(txns, directorio, avisos) /\ VentanaBuena(directorio, ventana)
      /\ CanalBueno(txns, directorio, canal)
  BY DEF IInv
<1>5. /\ AvisosBuenos(txns, directorio, Tail(avisos)) /\ a.tipo \in {"cuenta", "iniciar"}
      /\ a.tipo = "cuenta" => CuentaBuena(txns, directorio, a.cuenta)
      /\ a.tipo = "iniciar" => a.aliases \in Seq(Aliases)
  BY <1>1, <1>4, AvisosMenguan
<1>6. CanalBueno(txns, directorio, canal)' /\ AvisosBuenos(txns, directorio, avisos)'
  BY <1>1, <1>3, <1>4, <1>5
<1>7. pc = "espera"
  BY <1>1 DEF IInv, ProcesoInv
<1>8. ProcesoInv'
  BY <1>3, <1>7 DEF ProcesoInv
<1>9. AlDia(avisos, ventana.vista, cuentas) /\ (ventana.activo # 0 => Respondida)
  BY <1>1, <1>7 DEF IInv, VistaInv
<1>10. EsSecuencia(avisos)
  BY <1>4 DEF AvisosBuenos
<1>11. /\ a.tipo = "cuenta" => AlDia(Tail(avisos), {Mostrar(a.de, a.cuenta, a.saldo)}, cuentas)
       /\ a.tipo # "cuenta" => AlDia(Tail(avisos), ventana.vista, cuentas)
       /\ EnCamino(avisos) => EnCamino(Tail(avisos)) \/ a.tipo = "cuenta"
  BY <1>1, <1>9, <1>10, AlDiaAtendida
<1>12. DOMAIN ventana = Campos /\ ventana.combo \in Seq(Aliases) /\ ventana.activo \in 0..Len(ventana.combo)
  BY <1>4 DEF VentanaBuena
<1>13. ASSUME a.tipo = "cuenta" PROVE VentanaBuena(directorio, ventana)' /\ VistaInv'
  <2> DEFINE x == Mostrar(a.de, a.cuenta, a.saldo)
  <2>1. \A fila \in Range(x.filas) : fila.info.bloque = Nada \/ EnDisco(directorio, fila.info)
    BY <1>5, <1>13, FilasDe
  <2>2. AlDia(Tail(avisos), {x}, cuentas)
    BY <1>11, <1>13
  <2>3. ventana' = [ventana EXCEPT !.vista = {x}, !.prueba = {}]
    BY <1>1, <1>13
  <2> HIDE DEF x
  <2>4. /\ DOMAIN ventana' = Campos /\ ventana'.combo = ventana.combo /\ ventana'.activo = ventana.activo
        /\ ventana'.sensible = ventana.sensible /\ ventana'.vista = {x} /\ ventana'.prueba = {}
        /\ ventana'.abierta = ventana.abierta
    BY <1>12, <2>3 DEF Campos
  <2>5. VentanaBuena(directorio, ventana)'
    BY <1>3, <1>4, <2>1, <2>4 DEF VentanaBuena
  <2>6. AlDia(avisos, ventana.vista, cuentas)'
    BY <1>1, <1>3, <2>2, <2>4
  <2>7. (ventana.activo # 0 => Respondida)'
    <3>1. ventana'.vista # {} /\ pc' = "espera"
      BY <1>3, <1>7, <2>4
    <3> QED BY <3>1 DEF Respondida
  <2> QED BY <2>5, <2>6, <2>7 DEF VistaInv
<1>14. ASSUME a.tipo # "cuenta" PROVE VentanaBuena(directorio, ventana)' /\ VistaInv'
  <2>1. a.aliases \in Seq(Aliases) /\ ventana' = Listar(ventana, a.aliases)
    BY <1>1, <1>5, <1>14
  <2>2. /\ DOMAIN ventana' = Campos /\ ventana'.sensible = ventana.sensible /\ ventana'.abierta = ventana.abierta
        /\ ventana'.vista = ventana.vista /\ ventana'.prueba = ventana.prueba
        /\ ventana'.combo \in Seq(Aliases) /\ ventana'.activo \in 0..Len(ventana'.combo)
        /\ (ventana'.activo = 0 <=> ventana.activo = 0)
        /\ ventana'.activo # 0 => ventana'.combo[ventana'.activo] = ventana.combo[ventana.activo]
    BY <1>12, <2>1, ListarDe
  <2>3. VentanaBuena(directorio, ventana)'
    <3>1. /\ ventana.sensible \in BOOLEAN /\ ventana.abierta \in BOOLEAN
          /\ (ventana.sensible => ventana.activo # 0)
      BY <1>4 DEF VentanaBuena
    <3>2. ventana'.sensible \in BOOLEAN
      BY <2>2, <3>1
    <3>3. ventana'.abierta \in BOOLEAN
      BY <2>2, <3>1
    <3>4. ventana'.sensible => ventana'.activo # 0
      BY <2>2, <3>1
    <3> QED BY <1>3, <1>4, <2>2, <3>2, <3>3, <3>4, VentanaCambia
  <2>4. AlDia(avisos, ventana.vista, cuentas)'
    BY <1>1, <1>3, <1>11, <1>14, <2>2
  <2>5. (ventana.activo # 0 => Respondida)'
    BY <1>1, <1>3, <1>9, <1>11, <1>14, <2>2 DEF Respondida
  <2> QED BY <2>4, <2>3, <2>5 DEF VistaInv
<1> QED BY <1>3, <1>6, <1>8, <1>13, <1>14 DEF IInv

-----------------------------------------------------------------------------
(* What the listener does. *)

\* The file of the accounts stays as good as it was.
LEMMA ArchivoSigue ==
    ASSUME IInv, Crece(txns, directorio, txns', directorio'), cuentas' = cuentas, archivo' = archivo, pc' = pc
    PROVE  CuentasBuenas(txns, directorio, cuentas)' /\ ArchivoInv'
<1>1. cuentas' = cuentas /\ archivo' = archivo /\ pc' = pc
  OBVIOUS
<1>2. \A cs : CuentasBuenas(txns, directorio, cs) => CuentasBuenas(txns', directorio', cs)
  BY CuentasSiguen
<1>3. CuentasBuenas(txns, directorio, cuentas)'
  BY <1>1, <1>2 DEF IInv
<1>4. ArchivoInv'
  <2>1. CASE archivo = {} /\ (pc = "espera" => cuentas = << >>)
    BY <1>1, <2>1 DEF ArchivoInv
  <2>2. CASE \E cs : /\ CuentasBuenas(txns, directorio, cs) /\ (pc = "espera" => cuentas = cs)
                     /\ \E orden \in SetToSeqs(DOMAIN cs) : archivo = {Guardar(cs, orden)}
    <3>1. PICK cs : /\ CuentasBuenas(txns, directorio, cs) /\ (pc = "espera" => cuentas = cs)
                    /\ \E orden \in SetToSeqs(DOMAIN cs) : archivo = {Guardar(cs, orden)}
      BY <2>2
    <3>2. CuentasBuenas(txns', directorio', cs)
      BY <1>2, <3>1
    <3> QED BY <1>1, <3>1, <3>2 DEF ArchivoInv
  <2> QED BY <2>1, <2>2 DEF IInv, ArchivoInv
<1> QED BY <1>3, <1>4

\* The network grows, and the wallet and the window stay.
LEMMA RedCrece ==
    ASSUME IInv, Crece(txns, directorio, txns', directorio'), UNCHANGED <<avisos, ventana, wallet, panico, limites>>
    PROVE  /\ Legible' /\ CuentasBuenas(txns, directorio, cuentas)' /\ ArchivoInv' /\ VentanaBuena(directorio, ventana)'
           /\ AvisosBuenos(txns, directorio, avisos)' /\ LimitesInv' /\ CanalBueno(txns', directorio', canal)
<1>1. /\ avisos' = avisos /\ ventana' = ventana /\ pc' = pc /\ cuentas' = cuentas /\ archivo' = archivo
      /\ panico' = panico /\ UNCHANGED limites
  BY DEF wallet
<1>2. Legible'
  BY DEF IInv, Legible
<1>3. CuentasBuenas(txns, directorio, cuentas)' /\ ArchivoInv'
  BY <1>1, ArchivoSigue
<1>4. ASSUME NEW x, EnDisco(directorio, x) PROVE EnDisco(directorio', x)
  <2>1. PICK n \in 1..Len(directorio) :
           NombresBloques[n] = x.bloque /\ \E k \in 1..Len(directorio[n]) : x.txn = Palabra(directorio[n][k])
    BY <1>4 DEF EnDisco
  <2>2. n \in 1..Len(directorio') /\ directorio'[n] = directorio[n]
    BY DEF Crece
  <2> QED BY <2>1, <2>2 DEF EnDisco
<1>5. VentanaBuena(directorio, ventana)'
  <2>1. VentanaBuena(directorio, ventana)
    BY DEF IInv
  <2> DEFINE v == ventana
  <2>2. VentanaBuena(directorio', v)
    <3>1. VentanaBuena(directorio, v)
      BY <2>1
    <3> HIDE DEF v
    <3>2. \A w \in v.vista : \A fila \in Range(w.filas) : fila.info.bloque = Nada \/ EnDisco(directorio', fila.info)
      BY <1>4, <3>1 DEF VentanaBuena
    <3>3. \A p \in v.prueba : EnDisco(directorio', p)
      BY <1>4, <3>1 DEF VentanaBuena
    <3> QED BY <3>1, <3>2, <3>3 DEF VentanaBuena
  <2> QED BY <1>1, <2>2
<1>6. AvisosBuenos(txns, directorio, avisos)' /\ CanalBueno(txns', directorio', canal)
  BY <1>1, AvisosSiguen, CanalSigue DEF IInv
<1>7. LimitesInv'
  BY <1>1 DEF IInv, LimitesInv, limites
<1> QED BY <1>2, <1>3, <1>5, <1>6, <1>7

\* LlegaTxn: a transaction whose signer and name a file can hold.
LEMMA LlegaTxnInv ==
    ASSUME IInv, LlegaTxn
    PROVE  IInv'
<1>1. /\ pc # "fin" /\ UNCHANGED <<avisos, ventana, wallet, panico, limites>>
      /\ directorio' = directorio /\ porEnviar' = porEnviar
  BY DEF LlegaTxn
<1>2. PICK t \in DOMAIN Ajenas \ DOMAIN txns :
         txns' = Con(txns, t, Ajenas[t]) /\ canal' = Append(canal, [tipo |-> "txn", txn |-> t])
  BY DEF LlegaTxn
<1>3. /\ DOMAIN txns' = {t} \cup DOMAIN txns /\ txns'[t] = Ajenas[t]
      /\ \A x \in DOMAIN txns : txns'[x] = txns[x]
  <2> DEFINE u == Con(txns, t, Ajenas[t])
  <2>1. /\ DOMAIN u = {t} \cup DOMAIN txns /\ u[t] = Ajenas[t]
        /\ \A x \in DOMAIN txns : x # t => u[x] = txns[x]
    <3> DEFINE a == Ajenas[t]
               tx == txns
    <3> HIDE DEF a, tx
    <3>1. LET w == Con(tx, t, a)
          IN  /\ DOMAIN w = {t} \cup DOMAIN tx /\ w[t] = a
              /\ \A x \in DOMAIN tx : x # t => w[x] = tx[x]
      BY DEF Con
    <3> QED BY <3>1 DEF a, tx
  <2>2. txns' = u
    BY <1>2
  <2> HIDE DEF u
  <2> QED BY <2>1, <2>2
<1>4. Crece(txns, directorio, txns', directorio')
  <2>1. Len(directorio) \in Nat
    BY Secuencia DEF IInv, RedInv
  <2> QED BY <1>1, <1>3, <2>1 DEF Crece
<1>5. /\ Legible' /\ CuentasBuenas(txns, directorio, cuentas)' /\ ArchivoInv' /\ VentanaBuena(directorio, ventana)'
      /\ LimitesInv'
  BY <1>1, <1>4, RedCrece
<1>6. RedInv'
  <2>1. IsFiniteSet(DOMAIN txns')
    BY <1>3, FS_AddElement DEF IInv, RedInv
  <2>2. DOMAIN txns' \subseteq DOMAIN Ajenas \cup Range(Propias)
    BY <1>3 DEF IInv, RedInv
  <2>3. Limpia(Ajenas[t].firma) /\ EsSecuencia(Ajenas[t].paga)
    <3>1. Limpia(Ajenas[t].firma)
      BY DEF IInv, Legible
    <3>2. EsSecuencia(Ajenas[t].paga)
      BY VentanaAssumption DEF EsSecuencia
    <3> QED BY <3>1, <3>2
  <2>4. \A x \in DOMAIN txns' : Limpia(txns'[x].firma) /\ EsSecuencia(txns'[x].paga)
    BY <1>3, <2>3 DEF IInv, RedInv
  <2>5. \A n \in 1..Len(directorio) :
           EsSecuencia(directorio[n]) /\ \A k \in 1..Len(directorio[n]) : directorio[n][k] \in DOMAIN txns'
    BY <1>3 DEF IInv, RedInv
  <2> QED BY <1>1, <2>1, <2>2, <2>4, <2>5 DEF IInv, RedInv
<1> DEFINE e == [tipo |-> "txn", txn |-> t]
<1>7. e.tipo = "txn" /\ e.txn = t /\ canal' = Append(canal, e)
  BY <1>2
<1> HIDE DEF e
<1>8. EventoBueno(txns', directorio', e) /\ e.tipo # "agregar"
  BY <1>3, <1>7 DEF EventoBueno
<1>9. UNCHANGED <<avisos, ventana, pc, cuentas>>
  BY <1>1 DEF wallet
<1>10. CanalBueno(txns, directorio, canal)' /\ AvisosBuenos(txns, directorio, avisos)' /\ ProcesoInv' /\ VistaInv'
  BY <1>1, <1>4, <1>7, <1>8, <1>9, EventoInv
<1> QED BY <1>5, <1>6, <1>10 DEF IInv

\* LlegaBloque: a block of transactions of the network.
LEMMA LlegaBloqueInv ==
    ASSUME IInv, LlegaBloque
    PROVE  IInv'
<1>1. /\ pc # "fin" /\ UNCHANGED <<avisos, ventana, wallet, panico, limites>>
      /\ txns' = txns /\ canal' = canal /\ porEnviar' = {Len(directorio')}
      /\ Len(directorio) < Len(NombresBloques)
  BY DEF LlegaBloque
<1>2. PICK ts \in SUBSET DOMAIN txns : \E b \in SetToSeqs(ts) : directorio' = Append(directorio, b)
  <2> DEFINE Usadas == UNION {Range(directorio[i]) : i \in DOMAIN directorio}
  <2>1. PICK ts \in SUBSET (DOMAIN txns \ Usadas) : \E b \in SetToSeqs(ts) : directorio' = Append(directorio, b)
    BY DEF LlegaBloque
  <2> HIDE DEF Usadas
  <2>2. ts \in SUBSET DOMAIN txns
    BY <2>1
  <2> QED BY <2>1, <2>2
<1>3. PICK b \in SetToSeqs(ts) : directorio' = Append(directorio, b)
  BY <1>2
<1>4. EsSecuencia(b) /\ \A k \in 1..Len(b) : b[k] \in DOMAIN txns
  <2>1. IsFiniteSet(ts)
    BY FS_Subset DEF IInv, RedInv
  <2>2. EsSecuencia(b) /\ b \in Seq(ts)
    BY <2>1, OrdenDe
  <2> QED BY <2>2
<1>5. /\ EsSecuencia(directorio) /\ Len(directorio) \in Nat /\ Len(NombresBloques) \in Nat
  BY Secuencia, VentanaAssumption DEF IInv, RedInv
<1>6. /\ EsSecuencia(directorio') /\ Len(directorio') = Len(directorio) + 1
      /\ directorio'[Len(directorio) + 1] = b
      /\ \A n \in 1..Len(directorio) : directorio'[n] = directorio[n]
  BY <1>3, <1>5, SecuenciaCrece
<1>7. Crece(txns, directorio, txns', directorio')
  BY <1>1, <1>5, <1>6 DEF Crece
<1>8. /\ Legible' /\ CuentasBuenas(txns, directorio, cuentas)' /\ ArchivoInv' /\ VentanaBuena(directorio, ventana)'
      /\ LimitesInv' /\ AvisosBuenos(txns, directorio, avisos)' /\ CanalBueno(txns, directorio, canal)'
  BY <1>1, <1>7, RedCrece
<1>9. RedInv'
  <2>1. ASSUME NEW n \in 1..Len(directorio')
        PROVE  EsSecuencia(directorio'[n]) /\ \A k \in 1..Len(directorio'[n]) : directorio'[n][k] \in DOMAIN txns
    <3>1. CASE n = Len(directorio) + 1
      BY <1>4, <1>6, <3>1
    <3>2. CASE n # Len(directorio) + 1
      <4>1. n \in 1..Len(directorio)
        BY <1>5, <1>6, <3>2
      <4> QED BY <1>6, <4>1 DEF IInv, RedInv
    <3> QED BY <3>1, <3>2
  <2>2. Len(directorio') <= Len(NombresBloques)
    BY <1>1, <1>5, <1>6
  <2>3. porEnviar' \subseteq 1..Len(directorio')
    BY <1>1, <1>5, <1>6
  <2> QED BY <1>1, <1>6, <2>1, <2>2, <2>3 DEF IInv, RedInv
<1>10. avisos' = avisos /\ ventana' = ventana /\ pc' = pc /\ cuentas' = cuentas
  BY <1>1 DEF wallet
<1>11. ProcesoInv' /\ VistaInv'
  BY <1>1, <1>10 DEF IInv, ProcesoInv, VistaInv, Respondida
<1> QED BY <1>8, <1>9, <1>11 DEF IInv

\* EnviarBloque: a block that is on disk.
LEMMA EnviarBloqueInv ==
    ASSUME IInv, EnviarBloque
    PROVE  IInv'
<1>1. /\ UNCHANGED <<avisos, ventana, wallet, panico, limites>>
      /\ txns' = txns /\ directorio' = directorio /\ porEnviar' = {}
  BY DEF EnviarBloque
<1>2. PICK i \in porEnviar : canal' = Append(canal, [tipo |-> "bloque", bloque |-> i])
  BY DEF EnviarBloque
<1>3. Crece(txns, directorio, txns', directorio')
  <2>1. Len(directorio) \in Nat
    BY Secuencia DEF IInv, RedInv
  <2> QED BY <1>1, <2>1 DEF Crece
<1>4. /\ Legible' /\ CuentasBuenas(txns, directorio, cuentas)' /\ ArchivoInv' /\ VentanaBuena(directorio, ventana)'
      /\ LimitesInv'
  BY <1>1, <1>3, RedCrece
<1>5. RedInv'
  BY <1>1 DEF IInv, RedInv
<1> DEFINE e == [tipo |-> "bloque", bloque |-> i]
<1>6. e.tipo = "bloque" /\ e.bloque = i /\ canal' = Append(canal, e)
  BY <1>2
<1> HIDE DEF e
<1>7. EventoBueno(txns', directorio', e) /\ e.tipo # "agregar"
  BY <1>1, <1>6 DEF EventoBueno, IInv, RedInv
<1>8. UNCHANGED <<avisos, ventana, pc, cuentas>> /\ pc # "fin"
  BY <1>1 DEF wallet, IInv, ProcesoInv
<1>9. CanalBueno(txns, directorio, canal)' /\ AvisosBuenos(txns, directorio, avisos)' /\ ProcesoInv' /\ VistaInv'
  BY <1>3, <1>6, <1>7, <1>8, EventoInv
<1> QED BY <1>4, <1>5, <1>9 DEF IInv

-----------------------------------------------------------------------------
(* What the main thread does. *)

\* CargarWallets: the file gives the accounts that were saved.
LEMMA CargarWalletsInv ==
    ASSUME IInv, CargarWallets
    PROVE  IInv'
<1>1. pc = "inicio" /\ txns' = txns /\ directorio' = directorio /\ archivo' = archivo /\ UNCHANGED limites
  BY DEF CargarWallets
<1>2. avisos = << >> /\ cuentas = << >> /\ ventana.vista = {}
  BY <1>1 DEF IInv, ProcesoInv
<1>3. CASE /\ archivo = {} /\ pc' = "espera"
           /\ UNCHANGED <<porEnviar, canal, avisos, ventana, cuentas, aplicados, panico>>
  <2>1. Legible'
    BY DEF IInv, Legible
  <2>2. RedInv' /\ ArchivoInv' /\ LimitesInv'
    BY <1>1, <1>2, <1>3 DEF IInv, RedInv, ArchivoInv, LimitesInv, limites
  <2>3. VentanaBuena(directorio, ventana)' /\ CanalBueno(txns, directorio, canal)'
    BY <1>1, <1>3 DEF IInv
  <2>4. AvisosBuenos(txns, directorio, avisos)' /\ CuentasBuenas(txns, directorio, cuentas)'
    BY <1>1, <1>3 DEF IInv
  <2>5. ProcesoInv'
    BY <1>3 DEF ProcesoInv
  <2>6. VistaInv'
    <3>1. AlDia(avisos, ventana.vista, cuentas)'
      BY <1>2, <1>3, NingunoEsBueno
    <3>2. (ventana.activo # 0 => Respondida)' \/ ~ventana.abierta
      BY <1>1, <1>3 DEF IInv, VistaInv, Respondida
    <3> QED BY <1>3, <3>1, <3>2 DEF VistaInv
  <2> QED BY <2>1, <2>2, <2>3, <2>4, <2>5, <2>6 DEF IInv
<1>4. CASE \E texto \in archivo :
            LET lectura == Cargar(texto)
            IN  IF ~lectura.entera THEN Panico("load")
                ELSE /\ pc' = "espera" /\ cuentas' = lectura.cuentas
                     /\ \E orden \in SetToSeqs(DOMAIN lectura.cuentas) :
                           avisos' = Append(avisos, [tipo |-> "iniciar", aliases |-> orden])
                     /\ UNCHANGED <<porEnviar, canal, ventana, aplicados, panico>>
  <2>1. archivo # {}
    BY <1>4
  <2>2. PICK cs : /\ CuentasBuenas(txns, directorio, cs)
                  /\ \E o \in SetToSeqs(DOMAIN cs) : archivo = {Guardar(cs, o)}
    BY <2>1 DEF IInv, ArchivoInv
  <2>3. PICK o \in SetToSeqs(DOMAIN cs) : archivo = {Guardar(cs, o)}
    BY <2>2
  <2>4. Cargar(Guardar(cs, o)).entera /\ Cargar(Guardar(cs, o)).cuentas = cs
    BY <2>2, <2>3, ArchivoSeLee, BuenasLegibles DEF IInv
  <2>5. LET lectura == Cargar(Guardar(cs, o))
        IN  IF ~lectura.entera THEN Panico("load")
            ELSE /\ pc' = "espera" /\ cuentas' = lectura.cuentas
                 /\ \E orden \in SetToSeqs(DOMAIN lectura.cuentas) :
                       avisos' = Append(avisos, [tipo |-> "iniciar", aliases |-> orden])
                 /\ UNCHANGED <<porEnviar, canal, ventana, aplicados, panico>>
    BY <1>4, <2>3
  <2>6. /\ pc' = "espera" /\ cuentas' = cs /\ UNCHANGED <<porEnviar, canal, ventana, panico>>
        /\ \E orden \in SetToSeqs(DOMAIN cs) : avisos' = Append(avisos, [tipo |-> "iniciar", aliases |-> orden])
    BY <2>4, <2>5
  <2>7. PICK orden \in SetToSeqs(DOMAIN cs) : avisos' = Append(avisos, [tipo |-> "iniciar", aliases |-> orden])
    BY <2>6
  <2>8. orden \in Seq(Aliases)
    <3>1. IsFiniteSet(DOMAIN cs) /\ DOMAIN cs \subseteq Aliases
      BY <2>2 DEF CuentasBuenas
    <3>2. orden \in Seq(DOMAIN cs)
      BY <3>1, OrdenDe
    <3> QED BY <3>1, <3>2
  <2> DEFINE e == [tipo |-> "iniciar", aliases |-> orden]
  <2>9. e.tipo = "iniciar" /\ e.aliases = orden /\ avisos' = Append(avisos, e)
    BY <2>7
  <2> HIDE DEF e
  <2>10. e.tipo \in {"cuenta", "iniciar"} /\ e.tipo # "cuenta"
    BY <2>9
  <2>11. AvisosBuenos(txns, directorio, avisos)'
    <3>1. AvisosBuenos(txns, directorio, avisos)
      BY DEF IInv
    <3>2. AvisosBuenos(txns, directorio, Append(avisos, e))
      BY <2>8, <2>9, <2>10, <3>1, AvisosCrecen
    <3> QED BY <1>1, <2>9, <3>2
  <2>12. Legible'
    BY DEF IInv, Legible
  <2>13. RedInv' /\ LimitesInv'
    BY <1>1, <2>6 DEF IInv, RedInv, LimitesInv, limites
  <2>14. VentanaBuena(directorio, ventana)' /\ CanalBueno(txns, directorio, canal)'
    BY <1>1, <2>6 DEF IInv
  <2>15. CuentasBuenas(txns, directorio, cuentas)'
    BY <1>1, <2>2, <2>6
  <2>16. ArchivoInv'
    BY <1>1, <2>2, <2>3, <2>6 DEF ArchivoInv
  <2>17. ProcesoInv'
    BY <2>6 DEF ProcesoInv
  <2>18. VistaInv'
    <3>1. AlDia(avisos, {}, cs) /\ EsSecuencia(avisos)
      BY <1>2, NingunoEsBueno, SecuenciaVacia
    <3>2. AlDia(Append(avisos, e), {}, cs)
      BY <2>10, <3>1, AlDiaConLista
    <3>3. AlDia(avisos, ventana.vista, cuentas)'
      BY <1>2, <2>6, <2>9, <3>2
    <3>4. (ventana.activo # 0 => Respondida)' \/ ~ventana.abierta
      BY <1>1, <2>6 DEF IInv, VistaInv, Respondida
    <3> QED BY <2>6, <3>3, <3>4 DEF VistaInv
  <2> QED BY <2>11, <2>12, <2>13, <2>14, <2>15, <2>16, <2>17, <2>18 DEF IInv
<1> QED BY <1>3, <1>4 DEF CargarWallets

\* An event that is taken: what it does to the accounts, their file and the notices is good.
LEMMA TomadoInv ==
    ASSUME IInv, pc = "espera", canal # << >>, canal' = Tail(canal), UNCHANGED <<ventana, pc, panico, limites>>,
           RedInv', Crece(txns, directorio, txns', directorio'),
           CuentasBuenas(txns, directorio, cuentas)', ArchivoInv', AvisosBuenos(txns, directorio, avisos)',
           VentanaBuena(directorio, ventana)',
           ventana.abierta => AlDia(avisos', ventana.vista, cuentas'),
           EnCamino(avisos) => EnCamino(avisos'),
           \A a : a \in DOMAIN cuentas' => a \in DOMAIN cuentas \/ Pedida(canal', a),
           Head(canal).tipo = "cargar" => Head(canal).alias \notin DOMAIN cuentas' \/ EnCamino(avisos')
    PROVE  IInv'
<1>1. Legible'
  BY DEF IInv, Legible
<1>2. CanalBueno(txns, directorio, canal)'
  <2>1. CanalBueno(txns', directorio', canal)
    BY CanalSigue DEF IInv
  <2> QED BY <2>1, CanalMengua
<1>3. \A a : Pedida(canal, a) => Pedida(canal', a) \/ (Head(canal).tipo = "cargar" /\ Head(canal).alias = a)
  BY CanalMengua DEF IInv
<1>4. ProcesoInv'
  BY DEF ProcesoInv
<1>5. VistaInv'
  <2>1. Respondida => Respondida'
    BY <1>3 DEF Respondida
  <2> QED BY <2>1 DEF IInv, VistaInv
<1>6. LimitesInv'
  BY DEF IInv, LimitesInv, limites
<1> QED BY <1>1, <1>2, <1>4, <1>5, <1>6 DEF IInv

\* The accounts and their file, after an event.
LEMMA CambiarInv ==
    ASSUME IInv, Crece(txns, directorio, txns', directorio'), pc = "espera", pc' = pc,
           NEW cs, CuentasBuenas(txns', directorio', cs), NEW debe \in BOOLEAN, Cambiar(cs, debe), ~debe => cs = cuentas
    PROVE  CuentasBuenas(txns, directorio, cuentas)' /\ ArchivoInv' /\ cuentas' = cs
<1>1. cuentas' = cs
  BY DEF Cambiar
<1>2. CASE debe
  <2>1. PICK orden \in SetToSeqs(DOMAIN cs) : archivo' = {Guardar(cs, orden)}
    BY <1>2 DEF Cambiar
  <2>2. CuentasBuenas(txns, directorio, cuentas)'
    BY <1>1
  <2> QED BY <1>1, <2>1, <2>2 DEF ArchivoInv
<1>3. CASE ~debe
  <2>1. cuentas' = cuentas /\ archivo' = archivo
    BY <1>1, <1>3 DEF Cambiar
  <2> QED BY <1>1, <2>1, ArchivoSigue
<1> QED BY <1>2, <1>3

\* AgregarWallet: an account that is new has been asked for next.
LEMMA AgregarWalletInv ==
    ASSUME IInv, AgregarWallet
    PROVE  IInv'
<1> DEFINE e == Head(canal)
           nueva == CuentaNueva(e.dir, Privada(e.dir))
           cs == Con(cuentas, e.alias, nueva)
<1>1. /\ pc = "espera" /\ canal # << >> /\ e.tipo = "agregar" /\ canal' = Tail(canal)
      /\ UNCHANGED <<red, avisos, ventana, pc, panico, limites>>
      /\ IF e.dir \in Direcciones /\ e.alias \notin DOMAIN cuentas THEN Cambiar(cs, TRUE) ELSE Rechazar
  BY DEF AgregarWallet, Tomar
<1>2. /\ txns' = txns /\ directorio' = directorio /\ porEnviar' = porEnviar /\ avisos' = avisos /\ ventana' = ventana
      /\ pc' = pc
  BY <1>1 DEF red
<1>3. Crece(txns, directorio, txns', directorio')
  <2>1. Len(directorio) \in Nat
    BY Secuencia DEF IInv, RedInv
  <2> QED BY <1>2, <2>1 DEF Crece
<1>4. RedInv'
  BY <1>2 DEF IInv, RedInv
<1>5. e.alias \in Aliases /\ Pedida(canal', e.alias)
  <2>1. /\ EventoBueno(txns, directorio, e) /\ (e.tipo = "agregar" => Pedida(Tail(canal), e.alias))
    BY <1>1, CanalMengua DEF IInv
  <2> QED BY <1>1, <2>1 DEF EventoBueno
<1>6. AvisosBuenos(txns, directorio, avisos)' /\ VentanaBuena(directorio, ventana)'
  BY <1>2 DEF IInv
<1>7. ventana.abierta => AlDia(avisos, ventana.vista, cuentas)
  BY <1>1 DEF IInv, VistaInv
<1>8. CuentasBuenas(txns, directorio, cuentas)
  BY DEF IInv
<1>9. /\ CuentasBuenas(txns, directorio, cuentas)' /\ ArchivoInv'
      /\ DOMAIN cuentas' \subseteq {e.alias} \cup DOMAIN cuentas
      /\ ventana.abierta => AlDia(avisos, ventana.vista, cuentas')
  <2>1. CASE e.dir \in Direcciones /\ e.alias \notin DOMAIN cuentas
    <3> DEFINE a == e.alias
    <3>1. Cambiar(cs, TRUE)
      BY <1>1, <2>1
    <3>2. CuentaBuena(txns, directorio, nueva)
      BY <2>1, NuevaBuena
    <3>3. cs = Con(cuentas, a, nueva) /\ a \in Aliases /\ a \notin DOMAIN cuentas
      BY <1>5, <2>1
    <3> HIDE DEF cs, nueva, a
    <3>4. /\ DOMAIN cs = {a} \cup DOMAIN cuentas /\ cs[a] = nueva
          /\ \A c \in DOMAIN cuentas : cs[c] = cuentas[c]
          /\ cs = [c \in DOMAIN cs |-> cs[c]]
      BY <3>3 DEF Con
    <3>5. CuentasBuenas(txns, directorio, cs)
      <4>1. IsFiniteSet(DOMAIN cs)
        BY <1>8, <3>4, FS_AddElement DEF CuentasBuenas
      <4>2. DOMAIN cs \subseteq Aliases
        BY <1>8, <3>3, <3>4 DEF CuentasBuenas
      <4>3. \A c \in DOMAIN cs : CuentaBuena(txns, directorio, cs[c])
        BY <1>8, <3>2, <3>4 DEF CuentasBuenas
      <4> QED BY <3>4, <4>1, <4>2, <4>3 DEF CuentasBuenas
    <3>6. CuentasBuenas(txns, directorio, cuentas)' /\ ArchivoInv' /\ cuentas' = cs
      BY <1>1, <1>2, <1>3, <3>1, <3>5, CambiarInv
    <3>7. ventana.abierta => AlDia(avisos, ventana.vista, cs)
      BY <1>7, <3>4, AlDiaConOtra
    <3> QED BY <3>4, <3>6, <3>7 DEF a
  <2>2. CASE ~(e.dir \in Direcciones /\ e.alias \notin DOMAIN cuentas)
    <3>1. cuentas' = cuentas /\ archivo' = archivo
      BY <1>1, <2>2 DEF Rechazar
    <3>2. CuentasBuenas(txns, directorio, cuentas)' /\ ArchivoInv'
      BY <1>2, <1>3, <3>1, ArchivoSigue
    <3> QED BY <1>7, <3>1, <3>2
  <2> QED BY <2>1, <2>2
<1> QED BY <1>1, <1>2, <1>3, <1>4, <1>5, <1>6, <1>9, TomadoInv

\* A copy of an account, on its way to the window.
LEMMA ConCopia ==
    ASSUME NEW tx, NEW dr, NEW av, AvisosBuenos(tx, dr, av), NEW cs, CuentasBuenas(tx, dr, cs),
           NEW alias \in DOMAIN cs, NEW vista, NEW saldo, NEW av2, av2 = Append(av, Aviso(alias, cs[alias], saldo))
    PROVE  AvisosBuenos(tx, dr, av2) /\ EnCamino(av2) /\ AlDia(av2, vista, cs)
<1> DEFINE c == cs[alias]
           e == Aviso(alias, c, saldo)
<1>1. CuentaBuena(tx, dr, c)
  BY DEF CuentasBuenas
<1>2. e.tipo = "cuenta" /\ e.cuenta = c
  BY DEF Aviso
<1>3. EsSecuencia(av)
  BY DEF AvisosBuenos
<1>4. AlDia(Append(av, e), vista, cs) /\ EnCamino(Append(av, e))
  BY <1>3, AlDiaConCopia
<1>5. av2 = Append(av, e)
  OBVIOUS
<1> HIDE DEF c, e
<1>6. e.tipo \in {"cuenta", "iniciar"} /\ e.tipo # "iniciar"
  BY <1>2
<1>7. AvisosBuenos(tx, dr, Append(av, e))
  BY <1>1, <1>2, <1>6, AvisosCrecen
<1> QED BY <1>4, <1>5, <1>7
\* CargarWallet: the account is on its way, or there is none.
LEMMA CargarWalletInv ==
    ASSUME IInv, CargarWallet
    PROVE  IInv'
<1> DEFINE alias == Head(canal).alias
<1>1. /\ pc = "espera" /\ canal # << >> /\ Head(canal).tipo = "cargar" /\ canal' = Tail(canal)
      /\ UNCHANGED <<red, ventana, wallet, panico, limites>>
      /\ avisos' = IF alias \in DOMAIN cuentas
                   THEN Append(avisos, Aviso(alias, cuentas[alias], aplicados)) ELSE avisos
  BY DEF CargarWallet, Tomar
<1>2. /\ txns' = txns /\ directorio' = directorio /\ porEnviar' = porEnviar /\ cuentas' = cuentas /\ ventana' = ventana
      /\ pc' = pc /\ archivo' = archivo
  BY <1>1 DEF red, wallet
<1>3. Crece(txns, directorio, txns', directorio')
  <2>1. Len(directorio) \in Nat
    BY Secuencia DEF IInv, RedInv
  <2> QED BY <1>2, <2>1 DEF Crece
<1>4. RedInv'
  BY <1>2 DEF IInv, RedInv
<1>5. CuentasBuenas(txns, directorio, cuentas)' /\ ArchivoInv'
  BY <1>2, <1>3, ArchivoSigue
<1>6. VentanaBuena(directorio, ventana)'
  BY <1>2 DEF IInv
<1>7. AvisosBuenos(txns, directorio, avisos) /\ EsSecuencia(avisos)
  BY DEF IInv, AvisosBuenos
<1>8. ventana.abierta => AlDia(avisos, ventana.vista, cuentas)
  BY <1>1 DEF IInv, VistaInv
<1>9. /\ AvisosBuenos(txns, directorio, avisos') /\ (alias \in DOMAIN cuentas => EnCamino(avisos'))
      /\ EnCamino(avisos) => EnCamino(avisos')
      /\ ventana.abierta => AlDia(avisos', ventana.vista, cuentas)
  <2>1. CASE alias \notin DOMAIN cuentas
    BY <1>1, <1>7, <1>8, <2>1
  <2>2. CASE alias \in DOMAIN cuentas
    <3>1. avisos' = Append(avisos, Aviso(alias, cuentas[alias], aplicados))
      BY <1>1, <2>2
    <3>2. CuentasBuenas(txns, directorio, cuentas)
      BY DEF IInv
    <3> QED BY <1>7, <2>2, <3>1, <3>2, ConCopia
  <2> QED BY <2>1, <2>2
<1>10. AvisosBuenos(txns, directorio, avisos)'
  BY <1>2, <1>9
<1> QED BY <1>1, <1>2, <1>3, <1>4, <1>5, <1>6, <1>9, <1>10, TomadoInv

\* An account of the wallet changes.
LEMMA PonerBien ==
    ASSUME NEW tx, NEW dr, NEW cs, CuentasBuenas(tx, dr, cs), NEW alias \in DOMAIN cs,
           NEW c, CuentaBuena(tx, dr, c), NEW cs2, cs2 = [cs EXCEPT ![alias] = c]
    PROVE  CuentasBuenas(tx, dr, cs2) /\ DOMAIN cs2 = DOMAIN cs
<1>1. cs = [x \in DOMAIN cs |-> cs[x]]
  BY DEF CuentasBuenas
<1>2. /\ DOMAIN cs2 = DOMAIN cs /\ cs2 = [x \in DOMAIN cs |-> cs2[x]] /\ cs2[alias] = c
      /\ \A x \in DOMAIN cs : x # alias => cs2[x] = cs[x]
  BY <1>1
<1>3. \A x \in DOMAIN cs2 : CuentaBuena(tx, dr, cs2[x])
  BY <1>2 DEF CuentasBuenas
<1> QED BY <1>2, <1>3 DEF CuentasBuenas

\* The accounts of a transfer, that is pending for the sender and for who receives it.
LEMMA TransferenciaBuena ==
    ASSUME Legible, NEW tx, NEW dr, CuentasBuenas(tx, dr, cuentas), NEW e, e.alias \in DOMAIN cuentas,
           e.label \in Etiquetas, e.dir \in DOMAIN Pagos \ Cortas, NEW t \in DOMAIN tx, t \notin Range(Claves),
           NEW cs \in ConTransferencia(e, t)
    PROVE  CuentasBuenas(tx, dr, cs) /\ DOMAIN cs = DOMAIN cuentas
<1> DEFINE alias == e.alias
           emisor == cuentas[alias].dir
           envio == Entrada(t, e.label, "total", e.dir)
           recibo == Entrada(t, e.label, "importe", <<emisor>>)
<1>1. CuentaBuena(tx, dr, cuentas[alias]) /\ emisor \in Direcciones
  BY DEF CuentasBuenas, CuentaBuena
<1>2. PICK d : e.dir = <<d>> /\ Limpia(d)
  <2>1. e.dir \in Seq(Range(e.dir)) /\ Len(e.dir) = 1 /\ Limpia(e.dir[1])
    BY VentanaAssumption DEF Legible, EsTexto
  <2>2. e.dir = <<e.dir[1]>>
    BY <2>1
  <2> QED BY <2>1, <2>2
<1>11. Limpia(emisor)
  BY <1>1 DEF Legible
<1>3. EsTexto(e.label) /\ e.label # << >> /\ \A palabra \in Range(e.label) : Limpia(palabra)
  BY VentanaAssumption DEF Legible
<1>4. PICK s, r, a, b : /\ s = "SENDING" /\ r = "RECEIVING" /\ a = "total" /\ b = "importe"
                        /\ s # "SENT" /\ r # "SENT" /\ s \in Range(Secciones) /\ r \in Range(Secciones)
                        /\ a \in {"total", "importe"} /\ b \in {"total", "importe"}
  BY SeccionesDe
<1>5. EntradaBuena(tx, dr, s, envio) /\ EntradaBuena(tx, dr, r, recibo)
  <2>1. EntradaBuena(tx, dr, s, Entrada(t, e.label, a, e.dir))
    BY <1>2, <1>3, <1>4, EntradaNueva
  <2>2. EntradaBuena(tx, dr, r, Entrada(t, e.label, b, <<emisor>>))
    BY <1>3, <1>4, <1>11, EntradaNueva
  <2> QED BY <1>4, <2>1, <2>2
<1> DEFINE enviada == ConEntrada(cuentas[alias], s, envio)
           conEnvio == [cuentas EXCEPT ![alias] = enviada]
<1>6. CuentaBuena(tx, dr, enviada)
  BY <1>1, <1>4, <1>5, ConEntradaBuena
<1>7. \/ cs = conEnvio
      \/ \E c \in DOMAIN cuentas : cs = [conEnvio EXCEPT ![c] = ConEntrada(conEnvio[c], r, recibo)]
  <2>1. /\ conEnvio = [cuentas EXCEPT ![e.alias] = ConEntrada(@, "SENDING", envio)]
    BY <1>4
  <2> DEFINE R == {c \in DOMAIN cuentas : <<cuentas[c].dir>> = e.dir}
             D == [cuentas EXCEPT ![e.alias] = ConEntrada(@, "SENDING", envio)]
  <2>2. cs \in IF R = {} THEN {D} ELSE {[D EXCEPT ![c] = ConEntrada(@, "RECEIVING", recibo)] : c \in R}
    BY DEF ConTransferencia
  <2>3. R \subseteq DOMAIN cuentas
    OBVIOUS
  <2> HIDE DEF R, D, recibo
  <2>4. \/ cs = D
        \/ \E c \in DOMAIN cuentas : cs = [D EXCEPT ![c] = ConEntrada(@, "RECEIVING", recibo)]
    BY <2>2, <2>3
  <2>5. D = conEnvio
    BY <2>1 DEF D
  <2> HIDE DEF conEnvio
  <2>6. CASE cs = D
    BY <2>5, <2>6
  <2>7. ASSUME NEW c \in DOMAIN cuentas, cs = [D EXCEPT ![c] = ConEntrada(@, "RECEIVING", recibo)]
        PROVE  cs = [conEnvio EXCEPT ![c] = ConEntrada(conEnvio[c], r, recibo)]
    BY <1>4, <2>5, <2>7
  <2> QED BY <2>4, <2>6, <2>7
<1> HIDE DEF enviada, recibo
<1>8. CuentasBuenas(tx, dr, conEnvio) /\ DOMAIN conEnvio = DOMAIN cuentas
  BY <1>6, PonerBien
<1> HIDE DEF conEnvio
<1>9. CASE cs = conEnvio
  BY <1>8, <1>9
<1>10. ASSUME NEW c \in DOMAIN cuentas, cs = [conEnvio EXCEPT ![c] = ConEntrada(conEnvio[c], r, recibo)]
       PROVE  CuentasBuenas(tx, dr, cs) /\ DOMAIN cs = DOMAIN cuentas
  <2>1. CuentaBuena(tx, dr, conEnvio[c])
    BY <1>8 DEF CuentasBuenas
  <2>2. CuentaBuena(tx, dr, ConEntrada(conEnvio[c], r, recibo))
    BY <1>4, <1>5, <2>1, ConEntradaBuena
  <2> QED BY <1>8, <1>10, <2>2, PonerBien
<1> QED BY <1>7, <1>9, <1>10

\* RealizarTransferencia: the names of the transaction, of who signs and of whom it pays fit in a file.
LEMMA RealizarTransferenciaInv ==
    ASSUME IInv, RealizarTransferencia
    PROVE  IInv'
<1> DEFINE e == Head(canal)
           usadas == Cardinality(DOMAIN txns \cap Range(Propias))
           t == Propias[usadas + 1]
           emisor == cuentas[e.alias].dir
           destino == Pagos[e.dir]
<1>1. /\ pc = "espera" /\ canal # << >> /\ e.tipo = "enviar" /\ canal' = Tail(canal)
      /\ UNCHANGED <<directorio, porEnviar, ventana, pc, aplicados, panico, limites>>
  BY DEF RealizarTransferencia, Tomar
<1>2. e.alias \in Aliases /\ e.label \in Etiquetas /\ e.dir \in DOMAIN Pagos
  <2>1. EventoBueno(txns, directorio, e)
    BY <1>1, CanalMengua DEF IInv
  <2> QED BY <1>1, <2>1 DEF EventoBueno
<1>3. Len(directorio) \in Nat
  BY Secuencia DEF IInv, RedInv
<1>4. VentanaBuena(directorio, ventana)'
  BY <1>1 DEF IInv
<1>5. AvisosBuenos(txns, directorio, avisos)
  BY DEF IInv
<1>6. ventana.abierta => AlDia(avisos, ventana.vista, cuentas)
  BY <1>1 DEF IInv, VistaInv
<1>7. CASE Rechazar /\ UNCHANGED <<txns, avisos>>
  <2>1. txns' = txns /\ avisos' = avisos /\ cuentas' = cuentas /\ archivo' = archivo
    BY <1>7 DEF Rechazar
  <2>2. Crece(txns, directorio, txns', directorio')
    BY <1>1, <1>3, <2>1 DEF Crece
  <2>3. RedInv'
    BY <1>1, <2>1 DEF IInv, RedInv
  <2>4. CuentasBuenas(txns, directorio, cuentas)' /\ ArchivoInv'
    BY <1>1, <2>1, <2>2, ArchivoSigue
  <2>5. AvisosBuenos(txns, directorio, avisos)'
    BY <1>1, <1>5, <2>1
  <2> QED BY <1>1, <1>4, <1>6, <2>1, <2>2, <2>3, <2>4, <2>5, TomadoInv
<1>8. CASE /\ e.alias \in DOMAIN cuentas /\ e.dir \notin Cortas /\ usadas < Len(Propias)
           /\ \E paga \in {<<destino>>, <<destino, emisor>>} : txns' = Con(txns, t, [firma |-> emisor, paga |-> paga])
           /\ \E cs \in ConTransferencia(e, t) :
                 Cambiar(cs, TRUE) /\ avisos' = Append(avisos, Aviso(e.alias, cs[e.alias], aplicados))
  <2>1. PICK paga \in {<<destino>>, <<destino, emisor>>} : txns' = Con(txns, t, [firma |-> emisor, paga |-> paga])
    BY <1>8
  <2>2. PICK cs \in ConTransferencia(e, t) :
           Cambiar(cs, TRUE) /\ avisos' = Append(avisos, Aviso(e.alias, cs[e.alias], aplicados))
    BY <1>8
  <2>3. t \in Range(Propias)
    <3>1. usadas \in Nat
      <4>1. IsFiniteSet(DOMAIN txns \cap Range(Propias))
        BY FS_Subset DEF IInv, RedInv
      <4> QED BY <4>1, FS_CardinalityType
    <3>2. DOMAIN Propias = 1..Len(Propias) /\ Len(Propias) \in Nat
      BY VentanaAssumption
    <3>3. usadas < Len(Propias)
      BY <1>8
    <3> HIDE DEF usadas
    <3>4. usadas + 1 \in DOMAIN Propias
      BY <3>1, <3>2, <3>3
    <3> QED BY <3>4 DEF Range
  <2>4. Limpia(emisor) /\ EsSecuencia(paga)
    <3>1. CuentaBuena(txns, directorio, cuentas[e.alias])
      BY <1>8 DEF IInv, CuentasBuenas
    <3>2. emisor \in Direcciones
      BY <3>1 DEF CuentaBuena
    <3>3. Limpia(emisor)
      BY <3>2 DEF IInv, Legible
    <3>4. paga \in Seq({destino, emisor})
      <4> DEFINE d == destino
                 m == emisor
      <4> HIDE DEF d, m
      <4>1. <<d>> \in Seq({d, m}) /\ <<d, m>> \in Seq({d, m})
        OBVIOUS
      <4> QED BY <2>1, <4>1 DEF d, m
    <3> QED BY <3>3, <3>4 DEF EsSecuencia
  <2> DEFINE trx == [firma |-> emisor, paga |-> paga]
  <2>5. trx.firma = emisor /\ trx.paga = paga
    OBVIOUS
  <2>6. txns' = Con(txns, t, trx)
    BY <2>1
  <2>7. t \in DOMAIN Ajenas \cup Range(Propias) /\ t \notin Range(Claves)
    BY <2>3 DEF IInv, Legible
  <2>8. e.alias \in DOMAIN cuentas /\ e.dir \in DOMAIN Pagos \ Cortas
    BY <1>2, <1>8
  <2> HIDE DEF t, trx, emisor, usadas, destino
  <2>9. /\ DOMAIN txns' = {t} \cup DOMAIN txns /\ txns'[t] = trx
        /\ \A x \in DOMAIN txns : x # t => txns'[x] = txns[x]
    <3> DEFINE tx == txns
    <3> HIDE DEF tx
    <3>1. LET w == Con(tx, t, trx)
          IN  DOMAIN w = {t} \cup DOMAIN tx /\ w[t] = trx /\ \A x \in DOMAIN tx : x # t => w[x] = tx[x]
      BY DEF Con
    <3> QED BY <2>6, <3>1 DEF tx
  <2>10. Crece(txns, directorio, txns', directorio')
    BY <1>1, <1>3, <2>9 DEF Crece
  <2>11. RedInv'
    <3>1. IsFiniteSet(DOMAIN txns')
      BY <2>9, FS_AddElement DEF IInv, RedInv
    <3>2. DOMAIN txns' \subseteq DOMAIN Ajenas \cup Range(Propias)
      BY <2>7, <2>9 DEF IInv, RedInv
    <3>3. \A x \in DOMAIN txns' : Limpia(txns'[x].firma) /\ EsSecuencia(txns'[x].paga)
      BY <2>4, <2>5, <2>9 DEF IInv, RedInv
    <3>4. \A n \in 1..Len(directorio) :
             EsSecuencia(directorio[n]) /\ \A k \in 1..Len(directorio[n]) : directorio[n][k] \in DOMAIN txns'
      BY <2>9 DEF IInv, RedInv
    <3> QED BY <1>1, <3>1, <3>2, <3>3, <3>4 DEF IInv, RedInv
  <2>12. CuentasBuenas(txns', directorio', cs) /\ DOMAIN cs = DOMAIN cuentas
    <3>1. CuentasBuenas(txns', directorio', cuentas)
      BY <2>10, CuentasSiguen DEF IInv
    <3>2. t \in DOMAIN txns'
      BY <2>9
    <3>3. Legible
      BY DEF IInv
    <3> QED BY <1>2, <2>2, <2>7, <2>8, <3>1, <3>2, <3>3, TransferenciaBuena
  <2>13. CuentasBuenas(txns, directorio, cuentas)' /\ ArchivoInv' /\ cuentas' = cs
    BY <1>1, <2>2, <2>10, <2>12, CambiarInv
  <2>14. /\ AvisosBuenos(txns', directorio', avisos') /\ EnCamino(avisos')
         /\ AlDia(avisos', ventana.vista, cs)
    <3>1. AvisosBuenos(txns', directorio', avisos)
      BY <1>5, <2>10, AvisosSiguen
    <3> QED BY <2>2, <2>8, <2>12, <3>1, ConCopia
  <2>15. AvisosBuenos(txns, directorio, avisos)'
    BY <2>14
  <2> QED BY <1>1, <1>4, <2>10, <2>11, <2>12, <2>13, <2>14, <2>15, TomadoInv
<1> QED BY <1>7, <1>8 DEF RealizarTransferencia

\* What a step of the wallet leaves is that of the pass of an event over the outputs of ts.
Pasada(fin, ts) ==
    /\ EstadoBueno(fin) /\ cuentas' = fin.cs /\ avisos' = fin.avisos /\ aplicados' = fin.aplicados
    /\ \/ Recien(fin)
       \/ \A j \in 1..Len(ts), c \in DOMAIN cuentas :
             \A i \in 1..Len(txns[ts[j]].paga) : txns[ts[j]].paga[i] # cuentas[c].dir

\* What a pass over the outputs leaves, saved if it did anything.
LEMMA ConcluirInv ==
    ASSUME IInv, pc = "espera", canal # << >>, canal' = Tail(canal), UNCHANGED <<red, ventana, pc, panico, limites>>,
           Head(canal).tipo # "cargar",
           NEW fin, EstadoBueno(fin), Cambiar(fin.cs, fin.avisos # avisos), avisos' = fin.avisos
    PROVE  IInv'
<1>1. txns' = txns /\ directorio' = directorio /\ porEnviar' = porEnviar /\ ventana' = ventana
  BY DEF red
<1>2. Crece(txns, directorio, txns', directorio')
  <2>1. Len(directorio) \in Nat
    BY Secuencia DEF IInv, RedInv
  <2> QED BY <1>1, <2>1 DEF Crece
<1>3. RedInv'
  BY <1>1 DEF IInv, RedInv
<1>4. /\ CuentasBuenas(txns, directorio, fin.cs) /\ AvisosBuenos(txns, directorio, fin.avisos)
      /\ DOMAIN fin.cs = DOMAIN cuentas /\ (ventana.abierta => AlDia(fin.avisos, ventana.vista, fin.cs))
      /\ EnCamino(avisos) => EnCamino(fin.avisos)
  BY DEF EstadoBueno
<1>5. CuentasBuenas(txns, directorio, cuentas)' /\ ArchivoInv' /\ cuentas' = fin.cs
  <2> DEFINE debe == fin.avisos # avisos
             cs == fin.cs
  <2>1. ~debe => cs = cuentas
    <3>1. /\ EsSecuencia(avisos) /\ ((fin.avisos = avisos /\ cs = cuentas) \/ Len(fin.avisos) > Len(avisos))
      BY DEF EstadoBueno, Recien
    <3>2. Len(avisos) \in Nat
      BY <3>1, Secuencia
    <3>3. ~(Len(avisos) > Len(avisos))
      BY <3>2
    <3> QED BY <3>1, <3>3
  <2>2. debe \in BOOLEAN /\ Cambiar(cs, debe)
    OBVIOUS
  <2>3. CuentasBuenas(txns', directorio', cs)
    BY <1>1, <1>4
  <2> HIDE DEF debe, cs
  <2>4. CuentasBuenas(txns, directorio, cuentas)' /\ ArchivoInv' /\ cuentas' = cs
    BY <1>2, <2>1, <2>2, <2>3, CambiarInv
  <2> QED BY <2>4 DEF cs
<1>6. AvisosBuenos(txns, directorio, avisos)'
  BY <1>1, <1>4
<1>7. VentanaBuena(directorio, ventana)'
  BY <1>1 DEF IInv
<1> QED BY <1>1, <1>2, <1>3, <1>4, <1>5, <1>6, <1>7, TomadoInv

\* Before the first output.
LEMMA IntactasBuenas ==
    ASSUME IInv, pc = "espera", NEW evento
    PROVE  EstadoBueno(Intactas(evento))
<1> DEFINE e == Intactas(evento)
<1>1. e.cs = cuentas /\ e.avisos = avisos
  BY DEF Intactas
<1> HIDE DEF e
<1>2. ventana.abierta => AlDia(avisos, ventana.vista, cuentas)
  BY DEF IInv, VistaInv
<1>3. EsSecuencia(avisos)
  BY DEF IInv, AvisosBuenos
<1>4. EstadoBueno(e)
  BY <1>1, <1>2, <1>3 DEF IInv, EstadoBueno
<1> QED BY <1>4 DEF e

\* RecibirTxn: a pass over the outputs of a transaction.
LEMMA RecibirTxnInv ==
    ASSUME IInv, RecibirTxn
    PROVE  IInv' /\ \E fin : Pasada(fin, <<Head(canal).txn>>) /\ fin.aplicados = aplicados
<1> DEFINE evento == Head(canal)
           t == evento.txn
           ts == <<t>>
<1>1. /\ pc = "espera" /\ canal # << >> /\ Head(canal).tipo = "txn" /\ canal' = Tail(canal)
      /\ UNCHANGED <<red, ventana, pc, panico, limites>>
      /\ Concluir({Recorrer(<<Head(canal).txn>>, orden, evento) : orden \in SetToSeqs(DOMAIN cuentas)})
  BY DEF RecibirTxn, Tomar
<1>2. PICK orden \in SetToSeqs(DOMAIN cuentas) :
         /\ Cambiar(Recorrer(ts, orden, evento).cs, Recorrer(ts, orden, evento).avisos # avisos)
         /\ avisos' = Recorrer(ts, orden, evento).avisos /\ aplicados' = Recorrer(ts, orden, evento).aplicados
  BY <1>1 DEF Concluir
<1>3. /\ t \in DOMAIN txns /\ t \notin Range(Claves) /\ Limpia(txns[t].firma) /\ EsSecuencia(txns[t].paga)
  <2>1. EventoBueno(txns, directorio, Head(canal))
    BY <1>1, CanalMengua DEF IInv
  <2>2. t \in DOMAIN txns
    BY <1>1, <2>1 DEF EventoBueno
  <2> QED BY <2>2 DEF IInv, RedInv, Legible
<1>4. EsSecuencia(ts) /\ Len(ts) = 1 /\ ts[1] = t
  BY DeUna
<1>5. EstadoBueno(Intactas(evento)) /\ Legible
  BY <1>1, IntactasBuenas DEF IInv
<1>10. evento.tipo = "txn"
  BY <1>1
<1>11. Intactas(evento).aplicados = aplicados
  BY <1>10 DEF Intactas
<1> HIDE DEF ts, t, evento
<1>6. ASSUME NEW j \in 1..Len(ts)
      PROVE  /\ ts[j] \in DOMAIN txns /\ EsSecuencia(txns[ts[j]].paga)
             /\ \A c : CuentaBuena(txns, directorio, c) => CuentaBuena(txns, directorio, Pagada(c, ts[j], evento))
  <2>1. ts[j] = t
    BY <1>4
  <2>2. ASSUME NEW c, CuentaBuena(txns, directorio, c) PROVE CuentaBuena(txns, directorio, Pagada(c, t, evento))
    <3>1. Pagada(c, t, evento) = Recibida(c, t)
      BY <1>10 DEF Pagada
    <3>2. CuentaBuena(txns, directorio, Recibida(c, t))
      BY <1>3, <1>5, <2>2, RecibidaBien
    <3> QED BY <3>1, <3>2
  <2> QED BY <1>3, <2>1, <2>2
<1> DEFINE fin == Recorrer(ts, orden, evento)
<1>7. /\ EstadoBueno(fin) /\ fin.aplicados = aplicados
      /\ \/ Recien(fin)
         \/ \A j \in 1..Len(ts), c \in DOMAIN cuentas :
               \A i \in 1..Len(txns[ts[j]].paga) : txns[ts[j]].paga[i] # cuentas[c].dir
  BY <1>4, <1>5, <1>6, <1>11, PasoDeEvento
<1>8. Cambiar(fin.cs, fin.avisos # avisos) /\ avisos' = fin.avisos /\ aplicados' = fin.aplicados
  BY <1>2
<1> HIDE DEF fin
<1>9. Head(canal).tipo # "cargar"
  BY <1>1
<1>12. Pasada(fin, ts)
  BY <1>7, <1>8 DEF Pasada, Cambiar
<1>13. IInv'
  BY <1>1, <1>7, <1>8, <1>9, ConcluirInv
<1> QED BY <1>7, <1>12, <1>13 DEF ts, t, evento

\* RecibirBloque: a pass over the outputs of a block.
LEMMA RecibirBloqueInv ==
    ASSUME IInv, RecibirBloque
    PROVE  /\ IInv' /\ Head(canal).bloque \in 1..Len(directorio)
           /\ \E fin : /\ Pasada(fin, directorio[Head(canal).bloque])
                       /\ fin.aplicados = Append(aplicados, Head(canal).bloque)
<1> DEFINE evento == Head(canal)
           n == evento.bloque
           ts == directorio[n]
<1>1. /\ pc = "espera" /\ canal # << >> /\ Head(canal).tipo = "bloque" /\ canal' = Tail(canal)
      /\ UNCHANGED <<red, ventana, pc, panico, limites>>
      /\ Concluir({Recorrer(ts, orden, evento) :
                   orden \in SetToSeqs(DOMAIN cuentas)})
  BY DEF RecibirBloque, Tomar
<1>2. n \in 1..Len(directorio) /\ n \in DOMAIN NombresBloques
  <2>1. EventoBueno(txns, directorio, Head(canal))
    BY <1>1, CanalMengua DEF IInv
  <2>2. n \in 1..Len(directorio)
    BY <1>1, <2>1 DEF EventoBueno
  <2>3. /\ DOMAIN NombresBloques = 1..Len(NombresBloques) /\ Len(NombresBloques) \in Nat /\ Len(directorio) \in Nat
        /\ Len(directorio) <= Len(NombresBloques)
    BY Secuencia, VentanaAssumption DEF IInv, RedInv
  <2> QED BY <2>2, <2>3
<1>3. /\ EsSecuencia(ts) /\ \A j \in 1..Len(ts) : ts[j] \in DOMAIN txns
      /\ \A j \in 1..Len(ts) : EsSecuencia(txns[ts[j]].paga)
  BY <1>2 DEF IInv, RedInv
<1>4. EstadoBueno(Intactas(evento)) /\ Legible
  BY <1>1, IntactasBuenas DEF IInv
<1>5. PICK orden \in SetToSeqs(DOMAIN cuentas) :
         /\ Cambiar(Recorrer(ts, orden, evento).cs, Recorrer(ts, orden, evento).avisos # avisos)
         /\ avisos' = Recorrer(ts, orden, evento).avisos /\ aplicados' = Recorrer(ts, orden, evento).aplicados
  BY <1>1 DEF Concluir
<1>10. Intactas(evento).aplicados = Append(aplicados, n)
  BY <1>1 DEF Intactas
<1> DEFINE fin == Recorrer(ts, orden, evento)
<1>9. ASSUME NEW j \in 1..Len(ts), NEW c, CuentaBuena(txns, directorio, c)
      PROVE  CuentaBuena(txns, directorio, Pagada(c, ts[j], evento))
  <2>1. Pagada(c, ts[j], evento) = Confirmar(c, directorio[n][j], NombresBloques[n])
    BY <1>1 DEF Pagada
  <2> HIDE DEF n
  <2> QED BY <1>2, <1>3, <1>4, <1>9, <2>1, ConfirmarBien
<1>6. /\ EstadoBueno(fin) /\ fin.aplicados = Append(aplicados, n)
      /\ \/ Recien(fin)
         \/ \A j \in 1..Len(ts), c \in DOMAIN cuentas :
               \A i \in 1..Len(txns[ts[j]].paga) : txns[ts[j]].paga[i] # cuentas[c].dir
  <2> HIDE DEF ts, evento, n
  <2> QED BY <1>3, <1>4, <1>9, <1>10, PasoDeEvento
<1>7. Cambiar(fin.cs, fin.avisos # avisos) /\ avisos' = fin.avisos /\ aplicados' = fin.aplicados
  BY <1>5
<1> HIDE DEF fin
<1>8. Head(canal).tipo # "cargar"
  BY <1>1
<1>11. Pasada(fin, ts)
  <2> HIDE DEF ts
  <2> QED BY <1>6, <1>7 DEF Pasada, Cambiar
<1>12. IInv'
  BY <1>1, <1>6, <1>7, <1>8, ConcluirInv
<1> QED BY <1>2, <1>6, <1>11, <1>12

-----------------------------------------------------------------------------
(* The process, and the theorems. *)

\* Reiniciar: another process, with the file of the one before.
LEMMA ReiniciarInv ==
    ASSUME IInv, Reiniciar
    PROVE  IInv'
<1>1. /\ pc = "fin" /\ vidas < MaxVidas /\ vidas' = vidas + 1 /\ pc' = "inicio"
      /\ UNCHANGED <<red, canal, avisos, ventana, cuentas, archivo, aplicados, panico, agregadas>>
  BY DEF Reiniciar
<1>2. /\ txns' = txns /\ directorio' = directorio /\ porEnviar' = porEnviar /\ canal' = canal /\ avisos' = avisos
      /\ ventana' = ventana /\ cuentas' = cuentas /\ archivo' = archivo /\ panico' = panico /\ agregadas' = agregadas
  BY <1>1 DEF red
<1>3. Crece(txns, directorio, txns', directorio')
  <2>1. Len(directorio) \in Nat
    BY Secuencia DEF IInv, RedInv
  <2> QED BY <1>2, <2>1 DEF Crece
<1>4. Legible'
  BY DEF IInv, Legible
<1>5. RedInv'
  BY <1>2 DEF IInv, RedInv
<1>6. /\ VentanaBuena(directorio, ventana)' /\ CanalBueno(txns, directorio, canal)'
      /\ AvisosBuenos(txns, directorio, avisos)' /\ CuentasBuenas(txns, directorio, cuentas)'
  BY <1>2 DEF IInv
<1>7. ArchivoInv'
  <2>1. pc # "espera" /\ pc' # "espera"
    BY <1>1
  <2> QED BY <1>2, <2>1 DEF IInv, ArchivoInv
<1>8. ProcesoInv'
  <2>1. avisos = << >> /\ cuentas = << >> /\ ventana.vista = {}
    BY <1>1 DEF IInv, ProcesoInv
  <2> QED BY <1>1, <1>2, <2>1 DEF ProcesoInv
<1>9. VistaInv'
  <2>1. ventana'.activo = 0
    BY <1>1, <1>2 DEF IInv, ProcesoInv, VentanaNueva
  <2> QED BY <1>1, <2>1 DEF VistaInv
<1>10. LimitesInv'
  <2>1. vidas' \in 1..MaxVidas
    BY <1>1, VentanaAssumption DEF IInv, LimitesInv
  <2> QED BY <1>2, <2>1 DEF IInv, LimitesInv
<1> QED BY <1>4, <1>5, <1>6, <1>7, <1>8, <1>9, <1>10 DEF IInv

\* The invariant of the beginning.
LEMMA InitInv ==
    ASSUME Legible, Init
    PROVE  IInv
<1>1. /\ txns = << >> /\ directorio = << >> /\ porEnviar = {} /\ canal = << >> /\ avisos = << >>
      /\ ventana = VentanaNueva /\ pc = "inicio" /\ cuentas = << >> /\ archivo \in ArchivosIniciales
      /\ panico = "no" /\ agregadas = 0 /\ vidas = 1 /\ aplicados = << >>
  BY DEF Init
<1>2. RedInv
  <2>1. DOMAIN txns = {} /\ IsFiniteSet({})
    BY <1>1, FS_EmptySet
  <2>2. EsSecuencia(directorio) /\ Len(directorio) = 0
    BY <1>1, SecuenciaVacia
  <2>3. Len(NombresBloques) \in Nat
    BY VentanaAssumption
  <2> QED BY <1>1, <2>1, <2>2, <2>3 DEF RedInv
<1>3. VentanaBuena(directorio, ventana) /\ ventana.activo = 0 /\ ventana.vista = {}
  BY <1>1, VentanaNuevaBuena
<1>4. CanalBueno(txns, directorio, canal) /\ AvisosBuenos(txns, directorio, avisos)
  BY <1>1, NingunoEsBueno
<1>5. CuentasBuenas(txns, directorio, cuentas)
  BY <1>1, SinCuentas
<1>6. ArchivoInv
  <2> DEFINE cs == [c \in DOMAIN Iniciales |-> CuentaNueva(Iniciales[c], Privada(Iniciales[c]))]
  <2>1. pc # "espera"
    BY <1>1
  <2>2. CuentasBuenas(txns, directorio, cs)
    <3>1. \A c \in DOMAIN cs : CuentaBuena(txns, directorio, cs[c])
      <4>1. ASSUME NEW c \in DOMAIN Iniciales
            PROVE  CuentaBuena(txns, directorio, CuentaNueva(Iniciales[c], Privada(Iniciales[c])))
        <5>1. Iniciales[c] \in Direcciones
          BY VentanaAssumption
        <5> QED BY <5>1, NuevaBuena
      <4> QED BY <4>1
    <3>2. DOMAIN cs = DOMAIN Iniciales /\ cs = [c \in DOMAIN cs |-> cs[c]]
      OBVIOUS
    <3> HIDE DEF cs
    <3> QED BY <3>1, <3>2, VentanaAssumption DEF CuentasBuenas
  <2>3. archivo = {} \/ \E orden \in SetToSeqs(DOMAIN cs) : archivo = {Guardar(cs, orden)}
    BY <1>1 DEF ArchivosIniciales
  <2> HIDE DEF cs
  <2> QED BY <2>1, <2>2, <2>3 DEF ArchivoInv
<1>7. ProcesoInv
  BY <1>1, <1>3 DEF ProcesoInv
<1>8. VistaInv
  BY <1>1, <1>3 DEF VistaInv
<1>9. LimitesInv
  BY <1>1, VentanaAssumption DEF LimitesInv
<1> QED BY <1>2, <1>3, <1>4, <1>5, <1>6, <1>7, <1>8, <1>9 DEF IInv

\* Every step keeps the invariant.
LEMMA PasoInv ==
    ASSUME IInv, [Next]_vars
    PROVE  IInv'
<1>1. CASE Agregar BY <1>1, AgregarInv
<1>2. CASE Elegir BY <1>2, ElegirInv
<1>3. CASE Enviar BY <1>3, EnviarInv
<1>4. CASE PedirPrueba BY <1>4, PedirPruebaInv
<1>5. CASE Cerrar BY <1>5, CerrarInv
<1>6. CASE Atender BY <1>6, AtenderInv
<1>7. CASE LlegaTxn BY <1>7, LlegaTxnInv
<1>8. CASE LlegaBloque BY <1>8, LlegaBloqueInv
<1>9. CASE EnviarBloque BY <1>9, EnviarBloqueInv
<1>10. CASE CargarWallets BY <1>10, CargarWalletsInv
<1>11. CASE AgregarWallet BY <1>11, AgregarWalletInv
<1>12. CASE CargarWallet BY <1>12, CargarWalletInv
<1>13. CASE RealizarTransferencia BY <1>13, RealizarTransferenciaInv
<1>14. CASE RecibirTxn BY <1>14, RecibirTxnInv
<1>15. CASE RecibirBloque BY <1>15, RecibirBloqueInv
<1>16. CASE CerrarWallet BY <1>16, TerminarInv DEF CerrarWallet
<1>17. CASE Caer BY <1>17, TerminarInv DEF Caer
<1>18. CASE Reiniciar BY <1>18, ReiniciarInv
<1>20. CASE TransferirACorta BY <1>20, TransferirACortaInv
<1>19. CASE UNCHANGED vars
  <2>1. UNCHANGED Ajeno /\ agregadas' = agregadas /\ canal' = canal /\ avisos' = avisos /\ ventana' = ventana
    BY <1>19 DEF vars, Ajeno, limites, red, wallet
  <2>2. agregadas' \in 0..MaxAgregadas
    BY <2>1 DEF IInv, LimitesInv
  <2>3. /\ Legible' /\ RedInv' /\ CuentasBuenas(txns, directorio, cuentas)' /\ ArchivoInv' /\ LimitesInv'
        /\ pc' = pc /\ cuentas' = cuentas /\ txns' = txns /\ directorio' = directorio /\ porEnviar' = porEnviar
    BY <2>1, <2>2, LoAjeno
  <2>4. /\ VentanaBuena(directorio, ventana)' /\ CanalBueno(txns, directorio, canal)'
        /\ AvisosBuenos(txns, directorio, avisos)'
    BY <2>1, <2>3 DEF IInv
  <2>5. ProcesoInv' /\ VistaInv'
    BY <2>1, <2>3 DEF IInv, ProcesoInv, VistaInv, Respondida
  <2> QED BY <2>3, <2>4, <2>5 DEF IInv
<1> QED
  BY <1>1, <1>2, <1>3, <1>4, <1>5, <1>6, <1>7, <1>8, <1>9, <1>10, <1>11, <1>12, <1>13, <1>14, <1>15, <1>16, <1>17,
     <1>18, <1>19, <1>20 DEF Next

-----------------------------------------------------------------------------
(* What the balances take into account. *)

\* No output of the block is to the address.
NoPaga(tx, dr, b, dir) == \A k \in 1..Len(dr[b]) : \A i \in 1..Len(tx[dr[b][k]].paga) : tx[dr[b][k]].paga[i] # dir

\* The blocks of saldo are the first of al, and the others pay nothing to the address.
SaldoAl(tx, dr, al, saldo, dir) ==
    /\ EsSecuencia(saldo) /\ Len(saldo) <= Len(al)
    /\ \A i \in 1..Len(saldo) : saldo[i] = al[i]
    /\ \A i \in Len(saldo) + 1..Len(al) : NoPaga(tx, dr, al[i], dir)

\* The balance of the last account on its way to the window; if there is none, that of
\* the one that is shown.
Saldos(tx, dr, al, av, vista, cs) ==
    /\ \A n \in 1..Len(av) : av[n].tipo = "cuenta" /\ (\A j \in n + 1..Len(av) : av[j].tipo # "cuenta") =>
          SaldoAl(tx, dr, al, av[n].saldo, av[n].cuenta.dir)
    /\ ~EnCamino(av) => \A v \in vista : SaldoAl(tx, dr, al, v.saldo, cs[v.de].dir)

\* The blocks that the wallet has applied are on disk, and it has none if it does not run.
AplicadosInv ==
    /\ EsSecuencia(aplicados) /\ \A i \in 1..Len(aplicados) : aplicados[i] \in 1..Len(directorio)
    /\ pc # "espera" => aplicados = << >>

\* The names of the transfers are used in their order.
NombresInv == \E k \in 0..Len(Propias) : \A i \in 1..Len(Propias) : Propias[i] \in DOMAIN txns <=> i <= k

\* The inductive invariant of the balances, that rests on the one of the lists.
SaldosInv ==
    /\ AplicadosInv /\ NombresInv
    /\ pc = "espera" /\ ventana.abierta => Saldos(txns, directorio, aplicados, avisos, ventana.vista, cuentas)

\* The blocks and the transactions that are on disk stay as they were.
Conserva(tx, dr, tx2, dr2) ==
    \A n \in 1..Len(dr) : /\ n \in 1..Len(dr2) /\ dr2[n] = dr[n]
                          /\ \A k \in 1..Len(dr[n]) : tx2[dr[n][k]] = tx[dr[n][k]]

\* A balance of now.
LEMMA SaldoDeAhora ==
    ASSUME NEW tx, NEW dr, NEW al, EsSecuencia(al), NEW dir
    PROVE  SaldoAl(tx, dr, al, al, dir)
<1>1. Len(al) \in Nat
  BY Secuencia
<1>2. \A i \in Len(al) + 1..Len(al) : FALSE
  BY <1>1
<1> QED BY <1>1, <1>2 DEF SaldoAl

\* A balance takes into account what it did when the network grows.
LEMMA SaldoSigue ==
    ASSUME NEW tx, NEW dr, NEW tx2, NEW dr2, Conserva(tx, dr, tx2, dr2), NEW al, EsSecuencia(al),
           \A i \in 1..Len(al) : al[i] \in 1..Len(dr), NEW saldo, NEW dir, SaldoAl(tx, dr, al, saldo, dir)
    PROVE  SaldoAl(tx2, dr2, al, saldo, dir)
<1>1. Len(al) \in Nat /\ Len(saldo) \in Nat
  BY Secuencia DEF SaldoAl
<1>2. ASSUME NEW i \in Len(saldo) + 1..Len(al) PROVE NoPaga(tx2, dr2, al[i], dir)
  <2>1. i \in 1..Len(al)
    BY <1>1
  <2>2. NoPaga(tx, dr, al[i], dir) /\ al[i] \in 1..Len(dr)
    BY <2>1 DEF SaldoAl
  <2>3. dr2[al[i]] = dr[al[i]] /\ \A k \in 1..Len(dr[al[i]]) : tx2[dr[al[i]][k]] = tx[dr[al[i]][k]]
    BY <2>2 DEF Conserva
  <2> DEFINE n == al[i]
  <2>4. NoPaga(tx, dr, n, dir)
    BY <2>2
  <2>5. dr2[n] = dr[n] /\ \A k \in 1..Len(dr[n]) : tx2[dr[n][k]] = tx[dr[n][k]]
    BY <2>3
  <2> HIDE DEF n
  <2>6. ASSUME NEW k \in 1..Len(dr2[n]), NEW j \in 1..Len(tx2[dr2[n][k]].paga)
        PROVE  tx2[dr2[n][k]].paga[j] # dir
    <3>1. k \in 1..Len(dr[n]) /\ tx2[dr2[n][k]] = tx[dr[n][k]]
      BY <2>5
    <3> QED BY <2>4, <3>1 DEF NoPaga
  <2>7. NoPaga(tx2, dr2, n, dir)
    BY <2>6 DEF NoPaga
  <2> QED BY <2>7 DEF n
<1> QED BY <1>2 DEF SaldoAl

\* Another block that pays nothing to the address.
LEMMA SaldoConBloque ==
    ASSUME NEW tx, NEW dr, NEW al, EsSecuencia(al), NEW saldo, NEW dir, SaldoAl(tx, dr, al, saldo, dir),
           NEW b, NoPaga(tx, dr, b, dir)
    PROVE  SaldoAl(tx, dr, Append(al, b), saldo, dir)
<1> DEFINE al2 == Append(al, b)
<1>1. Len(al) \in Nat /\ Len(saldo) \in Nat
  BY Secuencia DEF SaldoAl
<1>2. Len(al2) = Len(al) + 1 /\ al2[Len(al) + 1] = b /\ \A i \in 1..Len(al) : al2[i] = al[i]
  BY SecuenciaCrece
<1> HIDE DEF al2
<1>3. ASSUME NEW i \in Len(saldo) + 1..Len(al2) PROVE NoPaga(tx, dr, al2[i], dir)
  <2>1. CASE i = Len(al) + 1
    BY <1>2, <2>1
  <2>2. CASE i # Len(al) + 1
    <3>1. i \in 1..Len(al) /\ i \in Len(saldo) + 1..Len(al)
      BY <1>1, <1>2, <2>2
    <3>2. al2[i] = al[i]
      BY <1>2, <3>1
    <3> QED BY <3>1, <3>2 DEF SaldoAl
  <2> QED BY <2>1, <2>2
<1>4. EsSecuencia(saldo) /\ Len(saldo) <= Len(al) /\ \A i \in 1..Len(saldo) : saldo[i] = al[i]
  BY DEF SaldoAl
<1>5. Len(saldo) <= Len(al2)
  BY <1>1, <1>2, <1>4
<1>6. ASSUME NEW i \in 1..Len(saldo) PROVE saldo[i] = al2[i]
  <2>1. i \in 1..Len(al)
    BY <1>1, <1>4
  <2> QED BY <1>2, <1>4, <2>1
<1>7. SaldoAl(tx, dr, al2, saldo, dir)
  BY <1>3, <1>4, <1>5, <1>6 DEF SaldoAl
<1> QED BY <1>7 DEF al2

\* The network grows.
LEMMA SaldosSiguen ==
    ASSUME NEW tx, NEW dr, NEW tx2, NEW dr2, Conserva(tx, dr, tx2, dr2), NEW al, EsSecuencia(al),
           \A i \in 1..Len(al) : al[i] \in 1..Len(dr), NEW av, NEW vista, NEW cs, Saldos(tx, dr, al, av, vista, cs)
    PROVE  Saldos(tx2, dr2, al, av, vista, cs)
<1>1. ASSUME NEW saldo, NEW dir, SaldoAl(tx, dr, al, saldo, dir) PROVE SaldoAl(tx2, dr2, al, saldo, dir)
  BY <1>1, SaldoSigue
<1> QED BY <1>1 DEF Saldos

\* The last notice is of an account with its balance of now.
LEMMA SaldosDeAhora ==
    ASSUME NEW tx, NEW dr, NEW al, EsSecuencia(al), NEW av, EsSecuencia(av), Len(av) # 0,
           av[Len(av)].tipo = "cuenta", av[Len(av)].saldo = al, NEW vista, NEW cs
    PROVE  Saldos(tx, dr, al, av, vista, cs)
<1>1. Len(av) \in Nat \ {0}
  BY Secuencia
<1>2. EnCamino(av)
  BY <1>1 DEF EnCamino
<1>3. ASSUME NEW n \in 1..Len(av), \A j \in n + 1..Len(av) : av[j].tipo # "cuenta" PROVE n = Len(av)
  <2>1. ASSUME n # Len(av) PROVE FALSE
    <3>1. Len(av) \in n + 1..Len(av)
      BY <1>1, <2>1
    <3> QED BY <1>3, <3>1
  <2> QED BY <2>1
<1>4. ASSUME NEW n \in 1..Len(av), \A j \in n + 1..Len(av) : av[j].tipo # "cuenta"
      PROVE  SaldoAl(tx, dr, al, av[n].saldo, av[n].cuenta.dir)
  <2>1. av[n].saldo = al
    BY <1>3, <1>4
  <2> QED BY <2>1, SaldoDeAhora
<1> QED BY <1>2, <1>4 DEF Saldos

\* A notice of an account, that is last.
LEMMA SaldosConCopia ==
    ASSUME NEW tx, NEW dr, NEW al, EsSecuencia(al), NEW av, EsSecuencia(av), NEW alias, NEW c, NEW vista, NEW cs
    PROVE  Saldos(tx, dr, al, Append(av, Aviso(alias, c, al)), vista, cs)
<1> DEFINE a == Aviso(alias, c, al)
           b == Append(av, a)
<1>1. a.tipo = "cuenta" /\ a.saldo = al
  BY DEF Aviso
<1> HIDE DEF a
<1>2. EsSecuencia(b) /\ Len(b) = Len(av) + 1 /\ b[Len(av) + 1] = a /\ Len(av) \in Nat
  BY Secuencia, SecuenciaCrece
<1> HIDE DEF b
<1>3. Len(b) # 0 /\ b[Len(b)] = a
  BY <1>2
<1>4. Saldos(tx, dr, al, b, vista, cs)
  BY <1>1, <1>2, <1>3, SaldosDeAhora
<1> QED BY <1>4 DEF b, a

\* What the window takes, and shows if it is an account.
LEMMA SaldosAtendidos ==
    ASSUME NEW tx, NEW dr, NEW al, NEW av, EsSecuencia(av), av # << >>, NEW vista, NEW cs, AlDia(av, vista, cs),
           Saldos(tx, dr, al, av, vista, cs)
    PROVE  /\ Head(av).tipo = "cuenta" =>
                 Saldos(tx, dr, al, Tail(av), {Mostrar(Head(av).de, Head(av).cuenta, Head(av).saldo)}, cs)
           /\ Head(av).tipo # "cuenta" => Saldos(tx, dr, al, Tail(av), vista, cs)
<1> DEFINE b == Tail(av)
           n == Len(av)
           h == Head(av)
<1>1. EsSecuencia(b) /\ Len(b) = n - 1 /\ n \in Nat \ {0} /\ h = av[1] /\ \A i \in 1..n - 1 : b[i] = av[i + 1]
  BY SinElPrimero
<1> HIDE DEF b, n, h
<1>2. ASSUME NEW i \in 1..Len(b), b[i].tipo = "cuenta", \A j \in i + 1..Len(b) : b[j].tipo # "cuenta"
      PROVE  SaldoAl(tx, dr, al, b[i].saldo, b[i].cuenta.dir)
  <2>1. i + 1 \in 1..n /\ b[i] = av[i + 1]
    BY <1>1
  <2>2. ASSUME NEW j \in (i + 1) + 1..n PROVE av[j].tipo # "cuenta"
    <3>1. j - 1 \in i + 1..Len(b) /\ j - 1 \in 1..n - 1 /\ (j - 1) + 1 = j
      BY <1>1, <2>1
    <3>2. b[j - 1] = av[j]
      BY <1>1, <3>1
    <3> QED BY <1>2, <3>1, <3>2
  <2> DEFINE m == i + 1
  <2>3. m \in 1..Len(av) /\ av[m].tipo = "cuenta" /\ \A j \in m + 1..Len(av) : av[j].tipo # "cuenta"
    BY <1>2, <2>1, <2>2 DEF n
  <2> HIDE DEF m
  <2>4. SaldoAl(tx, dr, al, av[m].saldo, av[m].cuenta.dir)
    BY <2>3 DEF Saldos
  <2> QED BY <2>1, <2>4 DEF m
<1>3. ASSUME ~EnCamino(b), NEW j \in 1 + 1..n PROVE av[j].tipo # "cuenta"
  <2>1. j - 1 \in 1..Len(b) /\ j - 1 \in 1..n - 1 /\ (j - 1) + 1 = j
    BY <1>1
  <2>2. b[j - 1] = av[j]
    BY <1>1, <2>1
  <2> QED BY <1>3, <2>1, <2>2 DEF EnCamino
<1>4. ASSUME h.tipo = "cuenta" PROVE Saldos(tx, dr, al, b, {Mostrar(h.de, h.cuenta, h.saldo)}, cs)
  <2>1. ASSUME ~EnCamino(b), NEW v \in {Mostrar(h.de, h.cuenta, h.saldo)}
        PROVE  SaldoAl(tx, dr, al, v.saldo, cs[v.de].dir)
    <3>1. v.de = h.de /\ v.saldo = h.saldo
      BY MostrarDe
    <3>2. 1 \in 1..n /\ av[1].tipo = "cuenta" /\ \A j \in 1 + 1..n : av[j].tipo # "cuenta"
      BY <1>1, <1>3, <1>4, <2>1
    <3>3. av[1].cuenta = cs[av[1].de]
      BY <3>2 DEF AlDia, n
    <3>4. SaldoAl(tx, dr, al, av[1].saldo, av[1].cuenta.dir)
      BY <3>2 DEF Saldos, n
    <3> QED BY <1>1, <3>1, <3>3, <3>4
  <2> QED BY <1>2, <2>1 DEF Saldos
<1>5. ASSUME h.tipo # "cuenta" PROVE Saldos(tx, dr, al, b, vista, cs)
  <2>1. ASSUME ~EnCamino(b) PROVE ~EnCamino(av)
    <3>1. ASSUME NEW j \in 1..n PROVE av[j].tipo # "cuenta"
      <4>1. j = 1 \/ j \in 1 + 1..n
        BY <1>1
      <4> QED BY <1>1, <1>3, <1>5, <2>1, <4>1
    <3> QED BY <3>1 DEF EnCamino, n
  <2> QED BY <1>2, <2>1 DEF Saldos
<1> QED BY <1>4, <1>5 DEF b, h

\* Another account changes nothing of the balances on their way or shown.
LEMMA SaldosConOtra ==
    ASSUME NEW tx, NEW dr, NEW al, NEW av, NEW vista, NEW cs, AlDia(av, vista, cs),
           Saldos(tx, dr, al, av, vista, cs), NEW cs2, \A c \in DOMAIN cs : cs2[c] = cs[c]
    PROVE  Saldos(tx, dr, al, av, vista, cs2)
<1>1. ASSUME ~EnCamino(av), NEW v \in vista PROVE cs2[v.de] = cs[v.de]
  BY <1>1 DEF AlDia
<1> QED BY <1>1 DEF Saldos

\* A block that pays nothing to any account.
LEMMA SaldosConBloque ==
    ASSUME NEW tx, NEW dr, NEW al, EsSecuencia(al), NEW av, NEW vista, NEW cs, AlDia(av, vista, cs),
           Saldos(tx, dr, al, av, vista, cs), NEW b, \A c \in DOMAIN cs : NoPaga(tx, dr, b, cs[c].dir)
    PROVE  Saldos(tx, dr, Append(al, b), av, vista, cs)
<1>1. ASSUME NEW saldo, NEW c \in DOMAIN cs, SaldoAl(tx, dr, al, saldo, cs[c].dir)
      PROVE  SaldoAl(tx, dr, Append(al, b), saldo, cs[c].dir)
  BY <1>1, SaldoConBloque
<1>2. ASSUME NEW n \in 1..Len(av), av[n].tipo = "cuenta", \A j \in n + 1..Len(av) : av[j].tipo # "cuenta"
      PROVE  SaldoAl(tx, dr, Append(al, b), av[n].saldo, av[n].cuenta.dir)
  <2>1. av[n].de \in DOMAIN cs /\ av[n].cuenta = cs[av[n].de]
    BY <1>2 DEF AlDia
  <2>2. SaldoAl(tx, dr, al, av[n].saldo, av[n].cuenta.dir)
    BY <1>2 DEF Saldos
  <2> QED BY <1>1, <2>1, <2>2
<1>3. ASSUME ~EnCamino(av), NEW v \in vista PROVE SaldoAl(tx, dr, Append(al, b), v.saldo, cs[v.de].dir)
  <2>1. v.de \in DOMAIN cs
    BY <1>3 DEF AlDia
  <2>2. SaldoAl(tx, dr, al, v.saldo, cs[v.de].dir)
    BY <1>3 DEF Saldos
  <2> QED BY <1>1, <2>1, <2>2
<1> QED BY <1>2, <1>3 DEF Saldos

\* What a pass leaves, if the window gets a copy.
LEMMA RecienAlDia ==
    ASSUME NEW fin, EstadoBueno(fin), Recien(fin), NEW al, EsSecuencia(al), fin.aplicados = al, NEW tx, NEW dr, NEW cs
    PROVE  Saldos(tx, dr, al, fin.avisos, ventana.vista, cs)
<1> DEFINE av == fin.avisos
<1>1. EsSecuencia(av) /\ EsSecuencia(avisos)
  BY DEF EstadoBueno, AvisosBuenos
<1>2. Len(av) > Len(avisos) /\ av[Len(av)].tipo = "cuenta" /\ av[Len(av)].saldo = al
  BY DEF Recien
<1> HIDE DEF av
<1>3. Len(av) # 0
  BY <1>1, <1>2, Secuencia
<1>4. Saldos(tx, dr, al, av, ventana.vista, cs)
  BY <1>1, <1>2, <1>3, SaldosDeAhora
<1> QED BY <1>4 DEF av

\* The transfers that have a name are as many as the last of the names that are used.
LEMMA UsadasDe ==
    ASSUME NEW k \in 0..Len(Propias), \A i \in 1..Len(Propias) : Propias[i] \in DOMAIN txns <=> i <= k
    PROVE  Cardinality(DOMAIN txns \cap Range(Propias)) = k
<1> DEFINE D == DOMAIN txns \cap Range(Propias)
           f == [i \in 1..k |-> Propias[i]]
<1>1. Len(Propias) \in Nat /\ DOMAIN Propias = 1..Len(Propias) /\ k \in Nat
  BY VentanaAssumption
<1>2. ASSUME NEW i \in 1..k PROVE f[i] = Propias[i] /\ i \in 1..Len(Propias) /\ f[i] \in D
  <2>1. i \in 1..Len(Propias)
    BY <1>1
  <2> QED BY <1>1, <2>1 DEF Range
<1>3. ASSUME NEW t \in D PROVE \E i \in 1..k : f[i] = t
  <2>1. PICK i \in 1..Len(Propias) : Propias[i] = t
    BY <1>1 DEF Range
  <2>2. i \in 1..k
    BY <1>1, <2>1
  <2> QED BY <2>1, <2>2
<1>4. ASSUME NEW i \in 1..k, NEW j \in 1..k, f[i] = f[j] PROVE i = j
  BY <1>1, <1>2, <1>4, VentanaAssumption
<1>5. f \in [1..k -> D] /\ DOMAIN f = 1..k
  BY <1>2
<1> HIDE DEF f, D
<1>6. f \in Bijection(1..k, D)
  BY <1>3, <1>4, <1>5 DEF Bijection, Injection, Surjection, IsInjective
<1>7. ExistsBijection(1..k, D)
  BY <1>6 DEF ExistsBijection
<1> QED BY <1>1, <1>7, FS_CountingElements DEF D

\* What the listener adds changes no block that is on disk.
LEMMA ConservaDe ==
    ASSUME IInv, NEW tx2, NEW dr2, Crece(txns, directorio, tx2, dr2), \A t \in DOMAIN txns : tx2[t] = txns[t]
    PROVE  Conserva(txns, directorio, tx2, dr2)
<1>1. ASSUME NEW n \in 1..Len(directorio)
      PROVE  /\ n \in 1..Len(dr2) /\ dr2[n] = directorio[n]
             /\ \A k \in 1..Len(directorio[n]) : tx2[directorio[n][k]] = txns[directorio[n][k]]
  <2>1. n \in 1..Len(dr2) /\ dr2[n] = directorio[n]
    BY DEF Crece
  <2>2. \A k \in 1..Len(directorio[n]) : directorio[n][k] \in DOMAIN txns
    BY DEF IInv, RedInv
  <2> QED BY <2>1, <2>2
<1> QED BY <1>1 DEF Conserva

\* Nothing that the balances depend on changes.
LEMMA SaldosQuietos ==
    ASSUME SaldosInv, UNCHANGED <<txns, directorio, pc, cuentas, aplicados, avisos>>,
           ventana'.vista = ventana.vista, ventana'.abierta = ventana.abierta
    PROVE  SaldosInv'
<1>1. AplicadosInv' /\ NombresInv'
  BY DEF SaldosInv, AplicadosInv, NombresInv
<1>2. pc = "espera" /\ ventana.abierta => Saldos(txns, directorio, aplicados, avisos, ventana.vista, cuentas)
  BY DEF SaldosInv
<1> QED BY <1>1, <1>2 DEF SaldosInv

\* The process ends.
LEMMA SaldosAlTerminar ==
    ASSUME SaldosInv, Terminar, UNCHANGED <<txns, directorio>>
    PROVE  SaldosInv'
<1>1. pc' = "fin" /\ aplicados' = << >> /\ txns' = txns
  BY DEF Terminar
<1>2. AplicadosInv'
  <2>1. EsSecuencia(aplicados') /\ Len(aplicados') = 0
    BY <1>1, SecuenciaVacia
  <2>2. \A i \in 1..0 : FALSE
    OBVIOUS
  <2> QED BY <1>1, <2>1, <2>2 DEF AplicadosInv
<1>3. NombresInv'
  BY <1>1 DEF SaldosInv, NombresInv
<1>4. pc' # "espera"
  BY <1>1
<1> QED BY <1>2, <1>3, <1>4 DEF SaldosInv

\* The network grows, and nobody reads it.
LEMMA SaldosDeRed ==
    ASSUME IInv, SaldosInv, Crece(txns, directorio, txns', directorio'), \A t \in DOMAIN txns : txns'[t] = txns[t],
           NombresInv', UNCHANGED <<pc, cuentas, aplicados, avisos, ventana>>
    PROVE  SaldosInv'
<1>1. Conserva(txns, directorio, txns', directorio')
  BY ConservaDe
<1>2. EsSecuencia(aplicados) /\ \A i \in 1..Len(aplicados) : aplicados[i] \in 1..Len(directorio)
  BY DEF SaldosInv, AplicadosInv
<1>3. AplicadosInv'
  <2>1. \A i \in 1..Len(aplicados) : aplicados[i] \in 1..Len(directorio')
    BY <1>2 DEF Crece
  <2> QED BY <1>2, <2>1 DEF SaldosInv, AplicadosInv
<1>4. ASSUME pc = "espera", ventana.abierta
      PROVE  Saldos(txns', directorio', aplicados, avisos, ventana.vista, cuentas)
  <2>1. Saldos(txns, directorio, aplicados, avisos, ventana.vista, cuentas)
    BY <1>4 DEF SaldosInv
  <2> QED BY <1>1, <1>2, <2>1, SaldosSiguen
<1> QED BY <1>3, <1>4 DEF SaldosInv

\* Agregar, Elegir, Enviar and PedirPrueba: the account in the window stays, or nothing does.
LEMMA SaldosDelUsuario ==
    ASSUME IInv, SaldosInv, Agregar \/ Elegir \/ Enviar \/ PedirPrueba
    PROVE  SaldosInv'
<1>1. DOMAIN ventana = Campos
  BY DEF IInv, VentanaBuena
<1>2. CASE Agregar
  <2>1. /\ UNCHANGED <<txns, directorio, pc, cuentas, aplicados, avisos>>
        /\ \E alias \in Aliases :
              ventana' = [ventana EXCEPT !.combo = <<alias>> \o @, !.activo = 1, !.sensible = TRUE]
    BY <1>2 DEF Agregar, red, wallet
  <2>2. ventana'.vista = ventana.vista /\ ventana'.abierta = ventana.abierta
    BY <1>1, <2>1 DEF Campos
  <2> QED BY <2>1, <2>2, SaldosQuietos
<1>3. CASE Elegir
  <2>1. /\ UNCHANGED <<txns, directorio, pc, cuentas, aplicados, avisos>>
        /\ \E i : ventana' = [ventana EXCEPT !.activo = i, !.sensible = TRUE]
    BY <1>3 DEF Elegir, red, wallet
  <2>2. ventana'.vista = ventana.vista /\ ventana'.abierta = ventana.abierta
    BY <1>1, <2>1 DEF Campos
  <2> QED BY <2>1, <2>2, SaldosQuietos
<1>4. CASE Enviar
  <2>1. txns' = txns /\ directorio' = directorio
    BY <1>4 DEF Enviar
  <2>2. CASE ventana.activo = 0
    <3>1. Terminar
      BY <1>4, <2>2 DEF Enviar, Panico
    <3> QED BY <2>1, <3>1, SaldosAlTerminar
  <2>3. CASE ventana.activo # 0
    <3>1. UNCHANGED <<pc, cuentas, aplicados, avisos, ventana>>
      BY <1>4, <2>3 DEF Enviar
    <3> QED BY <2>1, <3>1, SaldosQuietos
  <2> QED BY <2>2, <2>3
<1>5. CASE PedirPrueba
  <2>1. txns' = txns /\ directorio' = directorio
    BY <1>5 DEF PedirPrueba
  <2>2. \/ Terminar
        \/ /\ UNCHANGED <<pc, cuentas, aplicados, avisos>>
           /\ \E p : ventana' = [ventana EXCEPT !.prueba = p]
    BY <1>5 DEF PedirPrueba, Panico
  <2>3. CASE Terminar
    BY <2>1, <2>3, SaldosAlTerminar
  <2>4. CASE /\ UNCHANGED <<pc, cuentas, aplicados, avisos>>
             /\ \E p : ventana' = [ventana EXCEPT !.prueba = p]
    <3>1. ventana'.vista = ventana.vista /\ ventana'.abierta = ventana.abierta
      BY <1>1, <2>4 DEF Campos
    <3> QED BY <2>1, <2>4, <3>1, SaldosQuietos
  <2> QED BY <2>2, <2>3, <2>4
<1> QED BY <1>2, <1>3, <1>4, <1>5

\* Cerrar: a closed window promises nothing.
LEMMA SaldosAlCerrar ==
    ASSUME SaldosInv, Cerrar
    PROVE  SaldosInv'
<1>1. UNCHANGED <<txns, directorio, pc, aplicados>> /\ ventana' = [VentanaNueva EXCEPT !.abierta = FALSE]
  BY DEF Cerrar, red, wallet
<1>2. ~ventana'.abierta
  BY <1>1, VentanaNuevaBuena
<1>3. AplicadosInv' /\ NombresInv'
  BY <1>1 DEF SaldosInv, AplicadosInv, NombresInv
<1> QED BY <1>2, <1>3 DEF SaldosInv

\* Atender: what the window takes is what was on its way.
LEMMA SaldosAlAtender ==
    ASSUME IInv, SaldosInv, Atender
    PROVE  SaldosInv'
<1> DEFINE a == Head(avisos)
<1>1. /\ ventana.abierta /\ pc # "fin" /\ avisos # << >> /\ avisos' = Tail(avisos)
      /\ ventana' = IF a.tipo = "cuenta"
                    THEN [ventana EXCEPT !.vista = {Mostrar(a.de, a.cuenta, a.saldo)}, !.prueba = {}]
                    ELSE Listar(ventana, a.aliases)
      /\ UNCHANGED <<txns, directorio, pc, cuentas, aplicados>>
  BY DEF Atender, red, wallet
<1>2. pc = "espera"
  BY <1>1 DEF IInv, ProcesoInv
<1>3. /\ AlDia(avisos, ventana.vista, cuentas) /\ EsSecuencia(avisos)
      /\ Saldos(txns, directorio, aplicados, avisos, ventana.vista, cuentas)
  BY <1>1, <1>2 DEF IInv, VistaInv, AvisosBuenos, SaldosInv
<1>4. /\ a.tipo = "cuenta" =>
            Saldos(txns, directorio, aplicados, Tail(avisos), {Mostrar(a.de, a.cuenta, a.saldo)}, cuentas)
      /\ a.tipo # "cuenta" => Saldos(txns, directorio, aplicados, Tail(avisos), ventana.vista, cuentas)
  BY <1>1, <1>3, SaldosAtendidos
<1>5. DOMAIN ventana = Campos
  BY DEF IInv, VentanaBuena
<1>6. Saldos(txns, directorio, aplicados, Tail(avisos), ventana'.vista, cuentas)
  <2>1. CASE a.tipo = "cuenta"
    <3> DEFINE x == Mostrar(a.de, a.cuenta, a.saldo)
    <3>1. ventana' = [ventana EXCEPT !.vista = {x}, !.prueba = {}]
      BY <1>1, <2>1
    <3> HIDE DEF x
    <3>2. ventana'.vista = {x}
      BY <1>5, <3>1 DEF Campos
    <3> QED BY <1>4, <2>1, <3>2 DEF x
  <2>2. CASE a.tipo # "cuenta"
    <3>1. ventana' = Listar(ventana, a.aliases)
      BY <1>1, <2>2
    <3>2. ventana'.vista = ventana.vista
      BY <1>5, <3>1 DEF Campos, Listar
    <3> QED BY <1>4, <2>2, <3>2
  <2> QED BY <2>1, <2>2
<1>7. AplicadosInv' /\ NombresInv'
  BY <1>1 DEF SaldosInv, AplicadosInv, NombresInv
<1> QED BY <1>1, <1>6, <1>7 DEF SaldosInv

\* LlegaTxn: a transaction of others, with another name than those of this wallet.
LEMMA SaldosConTxn ==
    ASSUME IInv, SaldosInv, LlegaTxn
    PROVE  SaldosInv'
<1>1. directorio' = directorio /\ UNCHANGED <<pc, cuentas, aplicados, avisos, ventana>>
  BY DEF LlegaTxn, wallet
<1>2. PICK t \in DOMAIN Ajenas \ DOMAIN txns : txns' = Con(txns, t, Ajenas[t])
  BY DEF LlegaTxn
<1>3. DOMAIN txns' = {t} \cup DOMAIN txns /\ \A x \in DOMAIN txns : txns'[x] = txns[x]
  <2> DEFINE a == Ajenas[t]
             tx == txns
  <2> HIDE DEF a, tx
  <2>1. LET w == Con(tx, t, a) IN DOMAIN w = {t} \cup DOMAIN tx /\ \A x \in DOMAIN tx : x # t => w[x] = tx[x]
    BY DEF Con
  <2> QED BY <1>2, <2>1 DEF a, tx
<1>4. Crece(txns, directorio, txns', directorio')
  <2>1. Len(directorio) \in Nat
    BY Secuencia DEF IInv, RedInv
  <2> QED BY <1>1, <1>3, <2>1 DEF Crece
<1>5. NombresInv'
  <2>1. PICK k \in 0..Len(Propias) : \A i \in 1..Len(Propias) : Propias[i] \in DOMAIN txns <=> i <= k
    BY DEF SaldosInv, NombresInv
  <2>2. \A i \in 1..Len(Propias) : Propias[i] # t
    BY VentanaAssumption DEF Range
  <2>3. \A i \in 1..Len(Propias) : Propias[i] \in DOMAIN txns' <=> i <= k
    BY <1>3, <2>1, <2>2
  <2> QED BY <2>3 DEF NombresInv
<1> QED BY <1>1, <1>3, <1>4, <1>5, SaldosDeRed

\* LlegaBloque: a block on disk, that the wallet has not applied.
LEMMA SaldosConBloqueNuevo ==
    ASSUME IInv, SaldosInv, LlegaBloque
    PROVE  SaldosInv'
<1>1. txns' = txns /\ UNCHANGED <<pc, cuentas, aplicados, avisos, ventana>>
  BY DEF LlegaBloque, wallet
<1>2. \E b : directorio' = Append(directorio, b)
  BY DEF LlegaBloque
<1>3. Crece(txns, directorio, txns', directorio')
  <2>1. PICK b : directorio' = Append(directorio, b)
    BY <1>2
  <2>2. EsSecuencia(directorio) /\ Len(directorio) \in Nat
    BY Secuencia DEF IInv, RedInv
  <2>3. /\ Len(directorio') = Len(directorio) + 1
        /\ \A n \in 1..Len(directorio) : directorio'[n] = directorio[n]
    BY <2>1, <2>2, SecuenciaCrece
  <2> QED BY <1>1, <2>2, <2>3 DEF Crece
<1>4. NombresInv'
  BY <1>1 DEF SaldosInv, NombresInv
<1> QED BY <1>1, <1>3, <1>4, SaldosDeRed

\* CargarWallets: nothing is shown yet.
LEMMA SaldosAlCargar ==
    ASSUME IInv, SaldosInv, CargarWallets
    PROVE  SaldosInv'
<1>1. pc = "inicio" /\ txns' = txns /\ directorio' = directorio
  BY DEF CargarWallets
<1>2. avisos = << >> /\ ventana.vista = {}
  BY <1>1 DEF IInv, ProcesoInv
<1>3. \/ Terminar
      \/ /\ UNCHANGED <<ventana, aplicados>>
         /\ avisos' = avisos \/ \E orden : avisos' = Append(avisos, [tipo |-> "iniciar", aliases |-> orden])
  BY DEF CargarWallets, Panico
<1>4. CASE Terminar
  BY <1>1, <1>4, SaldosAlTerminar
<1>5. CASE /\ UNCHANGED <<ventana, aplicados>>
           /\ avisos' = avisos \/ \E orden : avisos' = Append(avisos, [tipo |-> "iniciar", aliases |-> orden])
  <2>1. \A i \in 1..Len(avisos') : avisos'[i].tipo # "cuenta"
    <3>1. CASE avisos' = avisos
      BY <1>2, <3>1
    <3>2. ASSUME NEW orden, avisos' = Append(avisos, [tipo |-> "iniciar", aliases |-> orden])
          PROVE  \A i \in 1..Len(avisos') : avisos'[i].tipo # "cuenta"
      <4> DEFINE e == [tipo |-> "iniciar", aliases |-> orden]
      <4>1. e.tipo # "cuenta"
        OBVIOUS
      <4>2. Len(avisos) = 0 /\ avisos' = Append(avisos, e)
        BY <1>2, <3>2
      <4> HIDE DEF e
      <4>3. Len(avisos') = 1 /\ avisos'[1] = e
        BY <1>2, <4>2, SecuenciaVacia, SecuenciaCrece
      <4> QED BY <4>1, <4>3
    <3> QED BY <1>5, <3>1, <3>2
  <2>2. Saldos(txns', directorio', aplicados', avisos', ventana'.vista, cuentas')
    BY <1>2, <1>5, <2>1 DEF Saldos
  <2>3. AplicadosInv' /\ NombresInv'
    <3>1. aplicados = << >>
      BY <1>1 DEF SaldosInv, AplicadosInv
    <3> QED BY <1>1, <1>5, <3>1 DEF SaldosInv, AplicadosInv, NombresInv
  <2> QED BY <2>2, <2>3 DEF SaldosInv
<1> QED BY <1>3, <1>4, <1>5

\* AgregarWallet: another account, that is in no notice.
LEMMA SaldosConCuenta ==
    ASSUME IInv, SaldosInv, AgregarWallet
    PROVE  SaldosInv'
<1> DEFINE e == Head(canal)
           nueva == CuentaNueva(e.dir, Privada(e.dir))
<1>1. /\ pc = "espera" /\ UNCHANGED <<txns, directorio, avisos, ventana, pc, aplicados>>
      /\ IF e.dir \in Direcciones /\ e.alias \notin DOMAIN cuentas
         THEN cuentas' = Con(cuentas, e.alias, nueva) ELSE cuentas' = cuentas
  BY DEF AgregarWallet, Tomar, red, Cambiar, Rechazar
<1>2. \A c \in DOMAIN cuentas : cuentas'[c] = cuentas[c]
  <2>1. CASE e.dir \in Direcciones /\ e.alias \notin DOMAIN cuentas
    <3>1. PICK a, x : cuentas' = Con(cuentas, a, x) /\ a \notin DOMAIN cuentas
      BY <1>1, <2>1
    <3> QED BY <3>1 DEF Con
  <2>2. CASE ~(e.dir \in Direcciones /\ e.alias \notin DOMAIN cuentas)
    BY <1>1, <2>2
  <2> QED BY <2>1, <2>2
<1>3. AplicadosInv' /\ NombresInv'
  BY <1>1 DEF SaldosInv, AplicadosInv, NombresInv
<1>4. ASSUME ventana.abierta PROVE Saldos(txns, directorio, aplicados, avisos, ventana.vista, cuentas')
  <2>1. AlDia(avisos, ventana.vista, cuentas) /\ Saldos(txns, directorio, aplicados, avisos, ventana.vista, cuentas)
    BY <1>1, <1>4 DEF IInv, VistaInv, SaldosInv
  <2> QED BY <1>2, <2>1, SaldosConOtra
<1> QED BY <1>1, <1>3, <1>4 DEF SaldosInv

\* CargarWallet: the account is on its way with its balance of now, or there is none.
LEMMA SaldosDeCopia ==
    ASSUME IInv, SaldosInv, CargarWallet
    PROVE  SaldosInv'
<1> DEFINE alias == Head(canal).alias
<1>1. /\ UNCHANGED <<txns, directorio, ventana, pc, cuentas, aplicados>>
      /\ avisos' = IF alias \in DOMAIN cuentas
                   THEN Append(avisos, Aviso(alias, cuentas[alias], aplicados)) ELSE avisos
  BY DEF CargarWallet, Tomar, red, wallet
<1>2. CASE avisos' = avisos
  BY <1>1, <1>2, SaldosQuietos
<1>3. CASE avisos' = Append(avisos, Aviso(alias, cuentas[alias], aplicados))
  <2>1. EsSecuencia(avisos) /\ EsSecuencia(aplicados)
    BY DEF IInv, AvisosBuenos, SaldosInv, AplicadosInv
  <2>2. Saldos(txns, directorio, aplicados, avisos', ventana.vista, cuentas)
    BY <1>3, <2>1, SaldosConCopia
  <2>3. AplicadosInv' /\ NombresInv'
    BY <1>1 DEF SaldosInv, AplicadosInv, NombresInv
  <2> QED BY <1>1, <2>2, <2>3 DEF SaldosInv
<1> QED BY <1>1, <1>2, <1>3

\* RealizarTransferencia: a transaction with a new name, and its sender on its way.
LEMMA SaldosConTransferencia ==
    ASSUME IInv, SaldosInv, RealizarTransferencia
    PROVE  SaldosInv'
<1> DEFINE e == Head(canal)
           usadas == Cardinality(DOMAIN txns \cap Range(Propias))
           t == Propias[usadas + 1]
<1>1. UNCHANGED <<directorio, ventana, pc, aplicados>>
  BY DEF RealizarTransferencia
<1>2. CASE Rechazar /\ UNCHANGED <<txns, avisos>>
  <2>1. UNCHANGED <<txns, directorio, pc, cuentas, aplicados, avisos>>
    BY <1>1, <1>2 DEF Rechazar
  <2> QED BY <1>1, <2>1, SaldosQuietos
<1>3. CASE /\ usadas < Len(Propias) /\ \E trx : txns' = Con(txns, t, trx)
           /\ \E c : avisos' = Append(avisos, Aviso(e.alias, c, aplicados))
  <2>1. PICK k \in 0..Len(Propias) : \A i \in 1..Len(Propias) : Propias[i] \in DOMAIN txns <=> i <= k
    BY DEF SaldosInv, NombresInv
  <2>2. usadas = k
    BY <2>1, UsadasDe
  <2>3. Len(Propias) \in Nat /\ DOMAIN Propias = 1..Len(Propias)
    BY VentanaAssumption
  <2> HIDE DEF usadas
  <2>4. t = Propias[k + 1] /\ k + 1 \in 1..Len(Propias) /\ t \notin DOMAIN txns
    BY <1>3, <2>1, <2>2, <2>3
  <2>5. PICK trx : txns' = Con(txns, t, trx)
    BY <1>3
  <2>6. PICK c : avisos' = Append(avisos, Aviso(e.alias, c, aplicados))
    BY <1>3
  <2> HIDE DEF t
  <2>7. DOMAIN txns' = {t} \cup DOMAIN txns /\ \A x \in DOMAIN txns : txns'[x] = txns[x]
    <3> DEFINE tx == txns
    <3> HIDE DEF tx
    <3>1. LET w == Con(tx, t, trx) IN DOMAIN w = {t} \cup DOMAIN tx /\ \A x \in DOMAIN tx : x # t => w[x] = tx[x]
      BY DEF Con
    <3> QED BY <2>4, <2>5, <3>1 DEF tx
  <2>8. NombresInv'
    <3>1. ASSUME NEW i \in 1..Len(Propias) PROVE Propias[i] \in DOMAIN txns' <=> i <= k + 1
      <4>1. Propias[i] = t <=> i = k + 1
        BY <2>3, <2>4, VentanaAssumption
      <4>2. Propias[i] \in DOMAIN txns <=> i <= k
        BY <2>1
      <4> QED BY <2>3, <2>7, <4>1, <4>2
    <3>2. k + 1 \in 0..Len(Propias)
      BY <2>3, <2>4
    <3> QED BY <3>1, <3>2 DEF NombresInv
  <2>9. AplicadosInv'
    BY <1>1 DEF SaldosInv, AplicadosInv
  <2>10. Saldos(txns', directorio, aplicados, avisos', ventana.vista, cuentas')
    <3>1. EsSecuencia(avisos) /\ EsSecuencia(aplicados)
      BY DEF IInv, AvisosBuenos, SaldosInv, AplicadosInv
    <3> QED BY <2>6, <3>1, SaldosConCopia
  <2> QED BY <1>1, <2>8, <2>9, <2>10 DEF SaldosInv
<1> QED BY <1>2, <1>3 DEF RealizarTransferencia

\* RecibirTxn: those that are paid are on their way with the balance of now.
LEMMA SaldosAlRecibirTxn ==
    ASSUME IInv, SaldosInv, RecibirTxn
    PROVE  SaldosInv'
<1>1. UNCHANGED <<txns, directorio, ventana, pc>>
  BY DEF RecibirTxn, red
<1>2. PICK fin : Pasada(fin, <<Head(canal).txn>>) /\ fin.aplicados = aplicados
  BY RecibirTxnInv
<1>3. /\ cuentas' = fin.cs /\ avisos' = fin.avisos /\ aplicados' = aplicados
      /\ (fin.avisos = avisos /\ fin.cs = cuentas) \/ Recien(fin)
  BY <1>2 DEF Pasada, EstadoBueno
<1>4. CASE fin.avisos = avisos /\ fin.cs = cuentas
  BY <1>1, <1>3, <1>4, SaldosQuietos
<1>5. CASE Recien(fin)
  <2>1. Saldos(txns, directorio, aplicados, avisos', ventana.vista, cuentas')
    BY <1>2, <1>3, <1>5, RecienAlDia DEF Pasada, SaldosInv, AplicadosInv
  <2>2. AplicadosInv' /\ NombresInv'
    BY <1>1, <1>3 DEF SaldosInv, AplicadosInv, NombresInv
  <2> QED BY <1>1, <1>3, <2>1, <2>2 DEF SaldosInv
<1> QED BY <1>3, <1>4, <1>5

\* RecibirBloque: an account that an output pays is on its way with the balance of now; and if
\* there is none, the block pays nobody.
LEMMA SaldosAlRecibirBloque ==
    ASSUME IInv, SaldosInv, RecibirBloque
    PROVE  SaldosInv'
<1> DEFINE b == Head(canal).bloque
<1>1. UNCHANGED <<txns, directorio, ventana, pc>> /\ pc = "espera"
  BY DEF RecibirBloque, Tomar, red
<1>2. b \in 1..Len(directorio) /\ \E fin : Pasada(fin, directorio[b]) /\ fin.aplicados = Append(aplicados, b)
  BY RecibirBloqueInv
<1> HIDE DEF b
<1>3. PICK fin : Pasada(fin, directorio[b]) /\ fin.aplicados = Append(aplicados, b)
  BY <1>2
<1>4. EsSecuencia(aplicados) /\ \A i \in 1..Len(aplicados) : aplicados[i] \in 1..Len(directorio)
  BY DEF SaldosInv, AplicadosInv
<1> DEFINE al == Append(aplicados, b)
<1>5. /\ EsSecuencia(al) /\ Len(al) = Len(aplicados) + 1 /\ al[Len(aplicados) + 1] = b
      /\ \A i \in 1..Len(aplicados) : al[i] = aplicados[i]
  BY <1>4, SecuenciaCrece
<1>6. cuentas' = fin.cs /\ avisos' = fin.avisos /\ aplicados' = al
  BY <1>3 DEF Pasada
<1>7. AplicadosInv'
  <2> HIDE DEF al
  <2>1. ASSUME NEW i \in 1..Len(al) PROVE al[i] \in 1..Len(directorio)
    <3>1. CASE i = Len(aplicados) + 1
      BY <1>2, <1>5, <3>1
    <3>2. CASE i # Len(aplicados) + 1
      <4>1. i \in 1..Len(aplicados)
        BY <1>4, <1>5, <3>2, Secuencia
      <4> QED BY <1>4, <1>5, <4>1
    <3> QED BY <3>1, <3>2
  <2> QED BY <1>1, <1>5, <1>6, <2>1 DEF AplicadosInv
<1>8. NombresInv'
  BY <1>1 DEF SaldosInv, NombresInv
<1>9. ASSUME ventana.abierta PROVE Saldos(txns, directorio, al, fin.avisos, ventana.vista, fin.cs)
  <2>1. CASE Recien(fin)
    BY <1>3, <1>5, <2>1, RecienAlDia DEF Pasada
  <2>2. CASE ~Recien(fin)
    <3>1. fin.avisos = avisos /\ fin.cs = cuentas
      BY <1>3, <2>2 DEF Pasada, EstadoBueno
    <3>2. \A c \in DOMAIN cuentas : NoPaga(txns, directorio, b, cuentas[c].dir)
      BY <1>3, <2>2 DEF Pasada, NoPaga
    <3>3. /\ AlDia(avisos, ventana.vista, cuentas)
          /\ Saldos(txns, directorio, aplicados, avisos, ventana.vista, cuentas)
      BY <1>1, <1>9 DEF IInv, VistaInv, SaldosInv
    <3>4. Saldos(txns, directorio, al, avisos, ventana.vista, cuentas)
      BY <1>4, <3>2, <3>3, SaldosConBloque
    <3> QED BY <3>1, <3>4
  <2> QED BY <2>1, <2>2
<1> QED BY <1>1, <1>6, <1>7, <1>8, <1>9 DEF SaldosInv

\* Reiniciar: a wallet that has applied nothing.
LEMMA SaldosAlReiniciar ==
    ASSUME SaldosInv, Reiniciar
    PROVE  SaldosInv'
<1>1. UNCHANGED <<txns, directorio, aplicados>> /\ pc = "fin" /\ pc' = "inicio"
  BY DEF Reiniciar, red
<1>2. AplicadosInv' /\ NombresInv'
  BY <1>1 DEF SaldosInv, AplicadosInv, NombresInv
<1> QED BY <1>1, <1>2 DEF SaldosInv

\* The balances of the beginning.
LEMMA InitSaldos ==
    ASSUME Init
    PROVE  SaldosInv
<1>1. txns = << >> /\ pc = "inicio" /\ aplicados = << >>
  BY DEF Init
<1>2. AplicadosInv
  <2>1. EsSecuencia(aplicados) /\ Len(aplicados) = 0
    BY <1>1, SecuenciaVacia
  <2>2. \A i \in 1..0 : FALSE
    OBVIOUS
  <2> QED BY <1>1, <2>1, <2>2 DEF AplicadosInv
<1>3. NombresInv
  <2>1. DOMAIN txns = {} /\ Len(Propias) \in Nat
    BY <1>1, VentanaAssumption
  <2>2. 0 \in 0..Len(Propias) /\ \A i \in 1..Len(Propias) : Propias[i] \in DOMAIN txns <=> i <= 0
    BY <2>1
  <2> QED BY <2>2 DEF NombresInv
<1> QED BY <1>1, <1>2, <1>3 DEF SaldosInv

\* Every step keeps the invariant of the balances.
LEMMA PasoSaldos ==
    ASSUME IInv, SaldosInv, [Next]_vars
    PROVE  SaldosInv'
<1>1. CASE Agregar \/ Elegir \/ Enviar \/ PedirPrueba BY <1>1, SaldosDelUsuario
<1>2. CASE Cerrar BY <1>2, SaldosAlCerrar
<1>3. CASE Atender BY <1>3, SaldosAlAtender
<1>4. CASE LlegaTxn BY <1>4, SaldosConTxn
<1>5. CASE LlegaBloque BY <1>5, SaldosConBloqueNuevo
<1>6. CASE EnviarBloque
  <2>1. UNCHANGED <<txns, directorio, pc, cuentas, aplicados, avisos, ventana>>
    BY <1>6 DEF EnviarBloque, wallet
  <2> QED BY <2>1, SaldosQuietos
<1>7. CASE CargarWallets BY <1>7, SaldosAlCargar
<1>8. CASE AgregarWallet BY <1>8, SaldosConCuenta
<1>9. CASE CargarWallet BY <1>9, SaldosDeCopia
<1>10. CASE RealizarTransferencia BY <1>10, SaldosConTransferencia
<1>11. CASE TransferirACorta BY <1>11, SaldosAlTerminar DEF TransferirACorta, Panico
<1>12. CASE RecibirTxn BY <1>12, SaldosAlRecibirTxn
<1>13. CASE RecibirBloque BY <1>13, SaldosAlRecibirBloque
<1>14. CASE CerrarWallet BY <1>14, SaldosAlTerminar DEF CerrarWallet
<1>15. CASE Caer BY <1>15, SaldosAlTerminar DEF Caer
<1>16. CASE Reiniciar BY <1>16, SaldosAlReiniciar
<1>17. CASE UNCHANGED vars
  <2>1. UNCHANGED <<txns, directorio, pc, cuentas, aplicados, avisos, ventana>>
    BY <1>17 DEF vars, red, wallet
  <2> QED BY <2>1, SaldosQuietos
<1> QED
  BY <1>1, <1>2, <1>3, <1>4, <1>5, <1>6, <1>7, <1>8, <1>9, <1>10, <1>11, <1>12, <1>13, <1>14, <1>15, <1>16, <1>17
     DEF Next

\* The invariants of the lists and of the balances hold in every behaviour of the window
\* and the wallet, for texts that a file can hold (gui.rs, gui_events.rs, wallet_events.rs).
THEOREM Inductivo == Legible /\ Spec => [](IInv /\ SaldosInv)
<1>1. Legible /\ Init => IInv /\ SaldosInv
  BY InitInv, InitSaldos
<1>2. IInv /\ SaldosInv /\ [Next]_vars => IInv' /\ SaldosInv'
  BY PasoInv, PasoSaldos
<1> QED BY <1>1, <1>2, PTL DEF Spec

\* The invariant gives the types.
LEMMA TipoDe ==
    ASSUME IInv, SaldosInv
    PROVE  TypeOK
<1>1. /\ pc \in {"inicio", "espera", "fin"}
      /\ panico \in {"no", "send", "merkle_proof", "load", "decode_bitcoin_adress"}
      /\ agregadas \in 0..MaxAgregadas /\ vidas \in 1..MaxVidas
  BY DEF IInv, ProcesoInv, LimitesInv
<1>2. /\ ventana.sensible \in BOOLEAN /\ ventana.abierta \in BOOLEAN
      /\ ventana.combo \in Seq(Aliases) /\ ventana.activo \in 0..Len(ventana.combo)
      /\ ventana.vista = {} \/ \E w : ventana.vista = {w}
      /\ ventana.prueba = {} \/ \E w : ventana.prueba = {w}
  BY DEF IInv, VentanaBuena
<1>3. Range(ventana.combo) \subseteq Aliases
  BY <1>2 DEF Range
<1>4. ASSUME NEW S, S = {} \/ \E w : S = {w} PROVE Cardinality(S) <= 1
  <2>1. CASE S = {}
    <3>1. Cardinality(S) = 0
      BY <2>1, FS_EmptySet
    <3> QED BY <3>1
  <2>2. ASSUME NEW w, S = {w} PROVE Cardinality(S) <= 1
    <3>1. Cardinality(S) = 1
      BY <2>2, FS_Singleton
    <3> QED BY <3>1
  <2> QED BY <1>4, <2>1, <2>2
<1>5. Cardinality(ventana.vista) <= 1 /\ Cardinality(ventana.prueba) <= 1
  BY <1>2, <1>4
<1>6. Cardinality(archivo) <= 1
  <2>1. archivo = {} \/ \E w : archivo = {w}
    BY DEF IInv, ArchivoInv
  <2> QED BY <1>4, <2>1
<1>7. DOMAIN cuentas \subseteq Aliases
  BY DEF IInv, CuentasBuenas
<1>8. ASSUME NEW c \in DOMAIN cuentas PROVE EsCuenta(cuentas[c])
  <2>1. ASSUME NEW s \in Range(Secciones), NEW e \in Range(cuentas[c].listas[s])
        PROVE  e.txn \in {Palabra(t) : t \in DOMAIN txns}
    <3> DEFINE l == cuentas[c].listas[s]
    <3>1. ListaBuena(txns, directorio, s, l)
      BY DEF IInv, CuentasBuenas, CuentaBuena
    <3>2. e \in Range(l)
      BY <2>1
    <3> HIDE DEF l
    <3>3. DOMAIN l = 1..Len(l)
      BY <3>1, Secuencia DEF ListaBuena
    <3>4. PICK i \in 1..Len(l) : e = l[i]
      BY <3>2, <3>3 DEF Range
    <3> QED BY <3>1, <3>4 DEF ListaBuena, EntradaBuena
  <2> QED BY <2>1 DEF EsCuenta
<1>9. porEnviar \subseteq DOMAIN directorio /\ DOMAIN directorio = 1..Len(directorio)
  BY Secuencia DEF IInv, RedInv
<1>10. Range(aplicados) \subseteq DOMAIN directorio
  <2>1. DOMAIN aplicados = 1..Len(aplicados)
    BY Secuencia DEF SaldosInv, AplicadosInv
  <2> QED BY <1>9, <2>1 DEF SaldosInv, AplicadosInv, Range
<1> QED BY <1>1, <1>2, <1>3, <1>5, <1>6, <1>7, <1>8, <1>9, <1>10 DEF TypeOK

\* The invariant gives that nobody panics.
LEMMA SinPanico ==
    ASSUME IInv
    PROVE  NadieEntraEnPanico
<1>1. DOMAIN directorio = 1..Len(directorio)
  BY Secuencia DEF IInv, RedInv
<1>2. panico = "no" \/ (panico = "decode_bitcoin_adress" /\ Cortas # {})
  BY DEF IInv, LimitesInv
<1>3. ASSUME NEW p \in ventana.prueba
      PROVE  \E i \in DOMAIN directorio :
                NombresBloques[i] = p.bloque /\ p.txn \in {Palabra(t) : t \in Range(directorio[i])}
  <2>1. EnDisco(directorio, p)
    BY DEF IInv, VentanaBuena
  <2>2. PICK n \in 1..Len(directorio) :
           NombresBloques[n] = p.bloque /\ \E k \in 1..Len(directorio[n]) : p.txn = Palabra(directorio[n][k])
    BY <2>1 DEF EnDisco
  <2>3. DOMAIN directorio[n] = 1..Len(directorio[n])
    BY Secuencia DEF IInv, RedInv
  <2>4. p.txn \in {Palabra(t) : t \in Range(directorio[n])}
    BY <2>2, <2>3 DEF Range
  <2> QED BY <1>1, <2>2, <2>4
<1> QED BY <1>2, <1>3 DEF NadieEntraEnPanico

\* The last of a finite set of numbers.
LEMMA Ultimo ==
    ASSUME NEW n \in Nat, NEW T \in SUBSET (1..n), T # {}
    PROVE  Max(T) \in T /\ \A y \in T : y <= Max(T)
<1> DEFINE U == {n - x : x \in T}
<1>1. U \in SUBSET Nat /\ U # {}
  <2>1. \A x \in T : x \in 1..n
    OBVIOUS
  <2>2. \A x \in T : n - x \in Nat
    BY <2>1
  <2>3. U \in SUBSET Nat
    BY <2>2
  <2>4. \E x : x \in T
    OBVIOUS
  <2> QED BY <2>3, <2>4
<1>2. PICK u \in U : \A y \in U : u <= y
  BY <1>1, Minimo
<1>3. PICK x \in T : u = n - x
  BY <1>2
<1>4. \A y \in T : y <= x
  <2>1. ASSUME NEW y \in T PROVE y <= x
    <3>1. n - x <= n - y
      BY <1>2, <1>3
    <3> QED BY <3>1
  <2> QED BY <2>1
<1> HIDE DEF U
<1>5. \E m \in T : \A y \in T : m >= y
  BY <1>3, <1>4
<1>6. Max(T) \in T /\ \A y \in T : Max(T) >= y
  BY <1>5 DEF Max
<1> QED BY <1>6

\* A balance that takes the first blocks into account is up to date.
LEMMA SaldoAlDiaDe ==
    ASSUME IInv, AplicadosInv, NEW saldo, NEW dir, SaldoAl(txns, directorio, aplicados, saldo, dir)
    PROVE  SaldoAlDia(saldo, dir)
<1>1. /\ EsSecuencia(saldo) /\ EsSecuencia(aplicados) /\ Len(saldo) <= Len(aplicados)
      /\ Len(saldo) \in Nat /\ Len(aplicados) \in Nat
  BY Secuencia DEF AplicadosInv, SaldoAl
<1>2. Len(saldo) \in 0..Len(saldo) /\ Len(saldo) \in 0..Len(aplicados)
  BY <1>1
<1>3. IsPrefix(saldo, aplicados)
  <2> DEFINE a == SubSeq(saldo, 1, Len(saldo))
             b == SubSeq(aplicados, 1, Len(saldo))
  <2>1. EsSecuencia(a) /\ Len(a) = Len(saldo) /\ \A i \in 1..Len(saldo) : a[i] = saldo[i]
    BY <1>1, <1>2, Primeros
  <2>2. EsSecuencia(b) /\ Len(b) = Len(saldo) /\ \A i \in 1..Len(saldo) : b[i] = aplicados[i]
    BY <1>1, <1>2, Primeros
  <2>3. \A i \in 1..Len(saldo) : saldo[i] = aplicados[i]
    BY DEF SaldoAl
  <2> HIDE DEF a, b
  <2>4. Len(a) = Len(b) /\ \A i \in 1..Len(a) : a[i] = b[i]
    BY <2>1, <2>2, <2>3
  <2>5. a = b
    BY <2>1, <2>2, <2>4, SecuenciasIguales
  <2> QED BY <1>1, <2>5 DEF IsPrefix, a, b
<1>4. ASSUME NEW i \in Len(saldo) + 1..Len(aplicados) PROVE ~Paga(aplicados[i], dir)
  <2> DEFINE n == aplicados[i]
  <2>1. NoPaga(txns, directorio, n, dir)
    BY DEF SaldoAl
  <2>2. i \in 1..Len(aplicados)
    BY <1>1
  <2>3. n \in 1..Len(directorio)
    BY <2>2 DEF AplicadosInv
  <2> HIDE DEF n
  <2>4. /\ EsSecuencia(directorio[n])
        /\ \A k \in 1..Len(directorio[n]) : directorio[n][k] \in DOMAIN txns
        /\ \A t \in DOMAIN txns : EsSecuencia(txns[t].paga)
    BY <2>3 DEF IInv, RedInv
  <2>5. DOMAIN directorio[n] = 1..Len(directorio[n])
    BY <2>4, Secuencia
  <2>6. ASSUME NEW k \in 1..Len(directorio[n]) PROVE dir \notin Range(txns[directorio[n][k]].paga)
    <3>1. EsSecuencia(txns[directorio[n][k]].paga)
      BY <2>4
    <3>2. DOMAIN txns[directorio[n][k]].paga = 1..Len(txns[directorio[n][k]].paga)
      BY <3>1, Secuencia
    <3> QED BY <2>1, <3>2 DEF NoPaga, Range
  <2>7. ~Paga(n, dir)
    BY <2>5, <2>6 DEF Paga
  <2> QED BY <2>7 DEF n
<1> QED BY <1>3, <1>4 DEF SaldoAlDia

\* The invariant gives what the window shows.
LEMMA VistaDe ==
    ASSUME IInv, SaldosInv
    PROVE  VistaAlDia
<1> SUFFICES ASSUME pc = "espera", ventana.abierta
             PROVE  LET enCamino == {i \in DOMAIN avisos : avisos[i].tipo = "cuenta"}
                        ultimo == avisos[Max(enCamino)]
                    IN  IF enCamino # {}
                        THEN ultimo.cuenta = cuentas[ultimo.de] /\ SaldoAlDia(ultimo.saldo, ultimo.cuenta.dir)
                        ELSE /\ \A v \in ventana.vista : v = Mostrar(v.de, cuentas[v.de], v.saldo)
                                                           /\ SaldoAlDia(v.saldo, cuentas[v.de].dir)
                             /\ canal = << >> /\ avisos = << >> /\ ventana.activo # 0 =>
                                   ventana.combo[ventana.activo] \notin DOMAIN cuentas \/ ventana.vista # {}
  BY DEF VistaAlDia
<1> DEFINE enCamino == {i \in DOMAIN avisos : avisos[i].tipo = "cuenta"}
           m == Max(enCamino)
<1>1. AlDia(avisos, ventana.vista, cuentas) /\ (ventana.activo # 0 => Respondida)
  BY DEF IInv, VistaInv
<1>2. DOMAIN avisos = 1..Len(avisos) /\ Len(avisos) \in Nat
  BY Secuencia DEF IInv, AvisosBuenos
<1>6. AplicadosInv /\ Saldos(txns, directorio, aplicados, avisos, ventana.vista, cuentas)
  BY DEF SaldosInv
<1>3. ASSUME enCamino # {}
      PROVE  avisos[m].cuenta = cuentas[avisos[m].de] /\ SaldoAlDia(avisos[m].saldo, avisos[m].cuenta.dir)
  <2>1. enCamino \in SUBSET (1..Len(avisos))
    BY <1>2
  <2>2. m \in enCamino /\ \A y \in enCamino : y <= m
    BY <1>2, <1>3, <2>1, Ultimo
  <2> HIDE DEF m
  <2>3. m \in 1..Len(avisos) /\ avisos[m].tipo = "cuenta"
    BY <1>2, <2>2
  <2>4. \A j \in m + 1..Len(avisos) : avisos[j].tipo # "cuenta"
    BY <1>2, <2>2, <2>3
  <2>5. SaldoAl(txns, directorio, aplicados, avisos[m].saldo, avisos[m].cuenta.dir)
    BY <1>6, <2>3, <2>4 DEF Saldos
  <2>6. SaldoAlDia(avisos[m].saldo, avisos[m].cuenta.dir)
    BY <1>6, <2>5, SaldoAlDiaDe
  <2> QED BY <1>1, <2>3, <2>4, <2>6 DEF AlDia
<1>4. ASSUME enCamino = {}
      PROVE  \A v \in ventana.vista : v = Mostrar(v.de, cuentas[v.de], v.saldo)
                                         /\ SaldoAlDia(v.saldo, cuentas[v.de].dir)
  <2>1. ~EnCamino(avisos)
    BY <1>2, <1>4 DEF EnCamino
  <2>2. ASSUME NEW v \in ventana.vista PROVE SaldoAlDia(v.saldo, cuentas[v.de].dir)
    <3>1. SaldoAl(txns, directorio, aplicados, v.saldo, cuentas[v.de].dir)
      BY <1>6, <2>1 DEF Saldos
    <3> QED BY <1>6, <3>1, SaldoAlDiaDe
  <2> QED BY <1>1, <2>1, <2>2 DEF AlDia
<1>5. ASSUME canal = << >>, avisos = << >>, ventana.activo # 0
      PROVE  ventana.combo[ventana.activo] \notin DOMAIN cuentas \/ ventana.vista # {}
  <2>1. ~EnCamino(avisos) /\ \A a : ~Pedida(canal, a)
    BY <1>5, NingunoEsBueno DEF Pedida
  <2> QED BY <1>1, <1>5, <2>1 DEF Respondida
<1> QED BY <1>3, <1>4, <1>5

\* The invariant gives that the file is read back.
LEMMA ArchivoDe ==
    ASSUME IInv
    PROVE  ArchivoSeRecarga
<1> SUFFICES ASSUME pc = "espera"
             PROVE  IF archivo = {} THEN cuentas = << >>
                    ELSE \A texto \in archivo :
                            LET lectura == Cargar(texto) IN lectura.entera /\ lectura.cuentas = cuentas
  BY DEF ArchivoSeRecarga
<1>1. CASE archivo = {}
  <2>1. cuentas = << >>
    BY <1>1 DEF IInv, ArchivoInv
  <2> QED BY <1>1, <2>1
<1>2. CASE archivo # {}
  <2>1. \E orden \in SetToSeqs(DOMAIN cuentas) : archivo = {Guardar(cuentas, orden)}
    BY <1>2 DEF IInv, ArchivoInv
  <2>2. PICK orden \in SetToSeqs(DOMAIN cuentas) : archivo = {Guardar(cuentas, orden)}
    BY <2>1
  <2>3. Cargar(Guardar(cuentas, orden)).entera /\ Cargar(Guardar(cuentas, orden)).cuentas = cuentas
    BY ArchivoSeLee, BuenasLegibles DEF IInv
  <2> QED BY <1>2, <2>2, <2>3
<1> QED BY <1>1, <1>2

\* The types, and that the lists hold transactions of the network, for any users, network
\* and deaths of the process, with texts that a file can hold (gui.rs, wallet_events.rs).
THEOREM TipoCorrecto == Legible /\ Spec => []TypeOK
  BY Inductivo, TipoDe, PTL

\* While what is typed is Legible, only a transfer to a text that decodes to fewer bytes than
\* a checksum can fail, in any interleaving of the user, the listener and the wallet: something
\* is selected when a transfer is sent, every file that is saved can be loaded, and the block
\* of a row is on disk and has its transaction (definir_logica_send_transaction,
\* decode_bitcoin_adress, load, definir_logica_merkle_proof).
THEOREM SinPanicos == Legible /\ Spec => []NadieEntraEnPanico
  BY Inductivo, SinPanico, PTL

\* The last account on its way to the window, or the one it shows, has the lists that the
\* wallet has; its balance and unspent outputs differ only by what is spent by blocks that
\* do not pay it; and the alias that is selected is shown at the end, if it has an account
\* (evento_* of wallet_events.rs, update_utxo, connect_changed).
THEOREM VistaCorrecta == Legible /\ Spec => []VistaAlDia
  BY Inductivo, VistaDe, PTL

\* What save writes, in any order of the accounts, load reads back, with any number of
\* accounts and entries, while aliases are one word and no word holds a keyword
\* (Wallet::save, Wallet::load).
THEOREM ArchivoCorrecto == Legible /\ Spec => []ArchivoSeRecarga
  BY Inductivo, ArchivoDe, PTL
===============================================================================
