--------------------------- MODULE Validacion_proofs ---------------------------
(***************************************************************************)
(* Theorems about Validacion, for every set of blocks, every base and      *)
(* every width of the target.                                              *)
(*                                                                         *)
(* LecturaInv keeps the indices of the parser inside of the bytes.  For    *)
(* the tree, PisosInv names the levels that proof_of_inclusion went        *)
(* through (it keeps only the last one) and says that those that           *)
(* merkle_proof builds again are the same, completed; CaminoInv is what    *)
(* the path has led to so far; FielInv, what each phase knows of the       *)
(* block, compared with what its sender wrote.                             *)
(*                                                                         *)
(* Before the invariants come the facts about the operators: a number is   *)
(* its digits in any base (the proof of work compares digits, and a        *)
(* compact size has them); the last of the levels is the root of the       *)
(* reference tree; and what is written of a transaction is read back.      *)
(***************************************************************************)
EXTENDS Validacion, TLAPS, WellFoundedInduction

(* Induction over the naturals, as a fact about sets. *)

\* A set of numbers has a least one.
LEMMA Minimo ==
    ASSUME NEW T \in SUBSET Nat, T # {}
    PROVE  \E x \in T : \A y \in T : x <= y
<1>1. PICK x \in T : \A y \in T : ~(<<y, x>> \in OpToRel(<, Nat))
  BY NatLessThanWellFounded, WFMin
<1>2. ASSUME NEW y \in T, y < x PROVE FALSE
  <2>1. <<y, x>> \in OpToRel(<, Nat)
    BY <1>2 DEF OpToRel
  <2> QED BY <1>1, <2>1
<1> QED BY <1>2

\* A set of numbers with 0, and with n + 1 if it has n, has them all.
LEMMA Induccion ==
    ASSUME NEW T \in SUBSET Nat, 0 \in T, \A n \in T : n + 1 \in T
    PROVE  T = Nat
<1> SUFFICES ASSUME T # Nat PROVE FALSE
  OBVIOUS
<1>1. PICK x \in Nat \ T : \A y \in Nat \ T : x <= y
  BY Minimo
<1>2. x - 1 \in Nat /\ x - 1 \notin Nat \ T
  BY <1>1
<1> QED BY <1>1, <1>2

\* The same, up to a number.
LEMMA InduccionHasta ==
    ASSUME NEW n \in Nat, NEW T, 0 \in T, \A i \in T : i \in 0..n - 1 => i + 1 \in T
    PROVE  \A i \in 0..n : i \in T
<1> DEFINE V == {i \in Nat : i <= n => i \in T}
<1>1. 0 \in V /\ V \in SUBSET Nat
  OBVIOUS
<1>2. ASSUME NEW i \in V PROVE i + 1 \in V
  OBVIOUS
<1>3. V = Nat
  <2> HIDE DEF V
  <2> QED BY <1>1, <1>2, Induccion
<1> QED BY <1>3

EsSecuencia(s) == \E S : s \in Seq(S)

\* What a sequence is, without its set.
LEMMA Secuencia ==
    ASSUME NEW s, EsSecuencia(s)
    PROVE  Len(s) \in Nat /\ DOMAIN s = 1..Len(s) /\ s = [i \in 1..Len(s) |-> s[i]]
<1>1. PICK S : s \in Seq(S)
  BY DEF EsSecuencia
<1> QED BY <1>1

\* A function over 1..n is a sequence.
LEMMA SecuenciaDe ==
    ASSUME NEW s, NEW n \in Nat, DOMAIN s = 1..n, s = [i \in 1..n |-> s[i]]
    PROVE  EsSecuencia(s) /\ Len(s) = n
<1> DEFINE S == {s[i] : i \in 1..n}
<1>1. s \in [1..n -> S]
  OBVIOUS
<1> HIDE DEF S
<1>2. s \in Seq(S)
  BY <1>1
<1> QED BY <1>2 DEF EsSecuencia

\* A sequence with one more at its end.
LEMMA SecuenciaCrece ==
    ASSUME NEW s, EsSecuencia(s), NEW x
    PROVE  /\ EsSecuencia(Append(s, x)) /\ Len(Append(s, x)) = Len(s) + 1
           /\ Append(s, x)[Len(s) + 1] = x
           /\ \A i \in 1..Len(s) : Append(s, x)[i] = s[i]
<1>1. PICK S : s \in Seq(S)
  BY DEF EsSecuencia
<1> DEFINE U == S \cup {x}
<1>2. s \in Seq(U) /\ x \in U
  BY <1>1
<1> HIDE DEF U
<1>3. Append(s, x) \in Seq(U)
  BY <1>2
<1> QED BY <1>2, <1>3 DEF EsSecuencia

\* The empty list is a sequence.
LEMMA SecuenciaVacia == EsSecuencia(<< >>)
<1>1. << >> \in Seq({})
  OBVIOUS
<1> QED BY <1>1 DEF EsSecuencia

\* The last of a sequence.
LEMMA UltimoDe ==
    ASSUME NEW s, EsSecuencia(s)
    PROVE  Last(s) = s[Len(s)]
  BY DEF Last
(* Powers, quotients and digits.                                           *)

\* f has the powers of b up to n.
PotenciasDe(f, b, n) == f = [i \in 0..n |-> IF i = 0 THEN 1 ELSE b * f[i - 1]]

\* There is such a function, and its values are positive.
LEMMA PotenciasExisten ==
    ASSUME NEW b \in Nat \ {0}, NEW n \in Nat
    PROVE  \E f : PotenciasDe(f, b, n) /\ \A i \in 0..n : f[i] \in Nat \ {0}
<1> DEFINE T == {m \in Nat : \E f : PotenciasDe(f, b, m) /\ \A i \in 0..m : f[i] \in Nat \ {0}}
<1>1. 0 \in T
  <2> DEFINE w == [i \in 0..0 |-> 1]
  <2>1. PotenciasDe(w, b, 0) /\ \A i \in 0..0 : w[i] \in Nat \ {0}
    BY DEF PotenciasDe
  <2> HIDE DEF w
  <2> QED BY <2>1
<1>2. ASSUME NEW m \in T PROVE m + 1 \in T
  <2>1. PICK f : PotenciasDe(f, b, m) /\ \A i \in 0..m : f[i] \in Nat \ {0}
    OBVIOUS
  <2>2. m \in Nat /\ f[m] \in Nat \ {0}
    BY <2>1
  <2> DEFINE x == b * f[m]
             w == [i \in 0..m + 1 |-> IF i = m + 1 THEN x ELSE f[i]]
  <2>3. x \in Nat \ {0}
    BY <2>2
  <2> HIDE DEF T, x
  <2>4. ASSUME NEW i \in 0..m + 1
        PROVE  w[i] = (IF i = 0 THEN 1 ELSE b * w[i - 1]) /\ w[i] \in Nat \ {0}
    <3>1. CASE i = m + 1
      <4>1. w[i] = x /\ w[i - 1] = f[m] /\ i # 0
        BY <2>2, <3>1
      <4> HIDE DEF w
      <4> QED BY <2>3, <4>1 DEF x
    <3>2. CASE i # m + 1
      <4>1. i \in 0..m /\ w[i] = f[i] /\ (i # 0 => w[i - 1] = f[i - 1])
        BY <2>2, <3>2
      <4>2. f[i] = IF i = 0 THEN 1 ELSE b * f[i - 1]
        BY <2>1, <4>1 DEF PotenciasDe
      <4>3. f[i] \in Nat \ {0}
        BY <2>1, <4>1
      <4> HIDE DEF w
      <4> QED BY <4>1, <4>2, <4>3
    <3> QED BY <3>1, <3>2
  <2>5. w = [i \in 0..m + 1 |-> w[i]]
    OBVIOUS
  <2> HIDE DEF w
  <2>6. PotenciasDe(w, b, m + 1) /\ \A i \in 0..m + 1 : w[i] \in Nat \ {0}
    BY <2>4, <2>5 DEF PotenciasDe
  <2> QED BY <2>2, <2>6 DEF T
<1>3. n \in T
  <2>1. T \in SUBSET Nat
    OBVIOUS
  <2> HIDE DEF T
  <2>2. T = Nat
    BY <1>1, <1>2, <2>1, Induccion
  <2> QED BY <2>2
<1> QED BY <1>3

\* Potencia is one such function at its end.
LEMMA PotenciaEs ==
    ASSUME NEW b \in Nat \ {0}, NEW n \in Nat
    PROVE  \E f : PotenciasDe(f, b, n) /\ Potencia(b, n) = f[n]
<1> DEFINE paso(h) == [i \in 0..n |-> IF i = 0 THEN 1 ELSE b * h[i - 1]]
           potencia == CHOOSE h : h = paso(h)
<1>1. Potencia(b, n) = potencia[n]
  BY DEF Potencia
<1>2. ASSUME NEW h PROVE PotenciasDe(h, b, n) <=> h = paso(h)
  BY DEF PotenciasDe
<1>3. PICK f : PotenciasDe(f, b, n)
  BY PotenciasExisten
<1> HIDE DEF paso
<1>4. \E h : h = paso(h)
  BY <1>2, <1>3
<1>5. potencia = paso(potencia)
  BY <1>4
<1> HIDE DEF potencia
<1> QED BY <1>1, <1>2, <1>5

\* Two of them agree where both are.
LEMMA PotenciasIguales ==
    ASSUME NEW b, NEW n \in Nat, NEW m \in Nat, n <= m, NEW f, NEW g,
           PotenciasDe(f, b, n), PotenciasDe(g, b, m)
    PROVE  f[n] = g[n]
<1> DEFINE T == {i \in Nat : i <= n => f[i] = g[i]}
<1>1. ASSUME NEW i \in 0..n
      PROVE  f[i] = (IF i = 0 THEN 1 ELSE b * f[i - 1]) /\ g[i] = IF i = 0 THEN 1 ELSE b * g[i - 1]
  BY DEF PotenciasDe
<1>2. 0 \in T
  BY <1>1
<1>3. ASSUME NEW i \in T PROVE i + 1 \in T
  <2>1. CASE i + 1 <= n
    <3>1. i + 1 \in 0..n /\ i + 1 # 0 /\ (i + 1) - 1 = i /\ f[i] = g[i]
      BY <2>1
    <3>2. f[i + 1] = b * f[i] /\ g[i + 1] = b * g[i]
      BY <1>1, <3>1
    <3> QED BY <3>1, <3>2
  <2>2. CASE ~(i + 1 <= n)
    BY <2>2
  <2> QED BY <2>1, <2>2
<1> HIDE DEF T
<1>4. T = Nat
  <2>1. T \in SUBSET Nat
    BY DEF T
  <2> QED BY <1>2, <1>3, <2>1, Induccion
<1> QED BY <1>4 DEF T

\* The powers, from the first one on.
LEMMA PotenciaDe ==
    ASSUME NEW b \in Nat \ {0}, NEW n \in Nat
    PROVE  /\ Potencia(b, n) \in Nat \ {0} /\ Potencia(b, 0) = 1
           /\ Potencia(b, n + 1) = b * Potencia(b, n)
<1>1. PICK f : PotenciasDe(f, b, n) /\ Potencia(b, n) = f[n]
  BY PotenciaEs
<1>2. PICK g : PotenciasDe(g, b, n + 1) /\ Potencia(b, n + 1) = g[n + 1]
  <2>1. n + 1 \in Nat
    OBVIOUS
  <2> QED BY <2>1, PotenciaEs
<1>3. PICK z : PotenciasDe(z, b, 0) /\ Potencia(b, 0) = z[0]
  <2>1. 0 \in Nat
    OBVIOUS
  <2> QED BY <2>1, PotenciaEs
<1>4. PICK p : PotenciasDe(p, b, n) /\ \A i \in 0..n : p[i] \in Nat \ {0}
  BY PotenciasExisten
<1>5. f[n] = p[n] /\ f[n] = g[n]
  <2>1. f[n] = p[n]
    BY <1>1, <1>4, PotenciasIguales
  <2>2. n + 1 \in Nat /\ n <= n + 1
    OBVIOUS
  <2>3. f[n] = g[n]
    BY <1>1, <1>2, <2>2, PotenciasIguales
  <2> QED BY <2>1, <2>3
<1>6. g[n + 1] = b * g[n]
  <2>1. n + 1 \in 0..n + 1 /\ n + 1 # 0 /\ (n + 1) - 1 = n
    OBVIOUS
  <2> QED BY <1>2, <2>1 DEF PotenciasDe
<1>7. z[0] = 1
  BY <1>3 DEF PotenciasDe
<1>8. p[n] \in Nat \ {0}
  BY <1>4
<1> QED BY <1>1, <1>2, <1>3, <1>5, <1>6, <1>7, <1>8

\* The powers of the base.
LEMMA TopeDe ==
    ASSUME NEW n \in Nat
    PROVE  Tope(n) \in Nat \ {0} /\ Tope(0) = 1 /\ Tope(n + 1) = Base * Tope(n)
<1>1. Base \in Nat \ {0}
  BY BaseAssumption
<1> QED BY <1>1, PotenciaDe DEF Tope

\* A power of a sum.
LEMMA TopeSuma ==
    ASSUME NEW n \in Nat, NEW m \in Nat
    PROVE  Tope(n + m) = Tope(n) * Tope(m)
<1> DEFINE T == {k \in Nat : Tope(n + k) = Tope(n) * Tope(k)}
<1>1. 0 \in T
  <2>1. Tope(n) \in Nat /\ Tope(0) = 1 /\ n + 0 = n
    BY TopeDe
  <2>2. Tope(n + 0) = Tope(n) * Tope(0)
    BY <2>1
  <2> QED BY <2>2
<1>2. ASSUME NEW k \in T PROVE k + 1 \in T
  <2>1. k \in Nat /\ n + k \in Nat /\ n + (k + 1) = (n + k) + 1
    OBVIOUS
  <2>2. Tope(n + k) = Tope(n) * Tope(k)
    OBVIOUS
  <2>3. Tope(k + 1) = Base * Tope(k) /\ Tope(k) \in Nat
    BY <2>1, TopeDe
  <2>4. Tope((n + k) + 1) = Base * Tope(n + k)
    BY <2>1, TopeDe
  <2>5. Tope(n) \in Nat
    BY TopeDe
  <2>6. Base * (Tope(n) * Tope(k)) = Tope(n) * (Base * Tope(k))
    <3> DEFINE x == Tope(n)
               y == Tope(k)
    <3>1. x \in Nat /\ y \in Nat /\ Base \in Nat
      BY <2>3, <2>5, BaseAssumption
    <3> HIDE DEF x, y
    <3>2. Base * (x * y) = x * (Base * y)
      BY <3>1
    <3> QED BY <3>2 DEF x, y
  <2>7. Tope(n + (k + 1)) = Tope(n) * Tope(k + 1)
    BY <2>1, <2>2, <2>3, <2>4, <2>6
  <2> QED BY <2>1, <2>7
<1>3. T = Nat
  <2>1. T \in SUBSET Nat
    OBVIOUS
  <2> HIDE DEF T
  <2> QED BY <1>1, <1>2, <2>1, Induccion
<1> QED BY <1>3

\* Quotient and rest are the only ones.
LEMMA DivisionUnica ==
    ASSUME NEW v \in Nat, NEW p \in Nat \ {0}, NEW q \in Nat, NEW r \in 0..p - 1, v = q * p + r
    PROVE  v \div p = q /\ v % p = r
  OBVIOUS

LEMMA Division ==
    ASSUME NEW v \in Nat, NEW p \in Nat \ {0}
    PROVE  v \div p \in Nat /\ v % p \in 0..p - 1 /\ v = (v \div p) * p + (v % p)
  OBVIOUS

\* The digits of the quotient: one more of them, and what is left.
LEMMA Digito ==
    ASSUME NEW v \in Nat, NEW p \in Nat \ {0}, NEW b \in Nat \ {0}
    PROVE  /\ v \div (b * p) = (v \div p) \div b
           /\ v % (b * p) = (v % p) + ((v \div p) % b) * p
<1> DEFINE q == v \div p
           r == v % p
           c == q \div b
           d == q % b
<1>1. q \in Nat /\ r \in 0..p - 1 /\ v = q * p + r
  BY Division
<1> HIDE DEF q, r
<1>2. c \in Nat /\ d \in 0..b - 1 /\ q = c * b + d
  BY <1>1, Division
<1> HIDE DEF c, d
<1> DEFINE bp == b * p
           s == r + d * p
<1>3. bp \in Nat \ {0} /\ s \in Nat
  BY <1>1, <1>2
<1>4. s <= bp - 1
  <2>1. d * p <= (b - 1) * p
    BY <1>2
  <2>2. (b - 1) * p = b * p - p
    OBVIOUS
  <2> QED BY <1>1, <1>2, <2>1, <2>2
<1>5. v = c * bp + s
  <2>1. v = (c * b + d) * p + r
    BY <1>1, <1>2
  <2>2. (c * b + d) * p = c * (b * p) + d * p
    BY <1>2
  <2> QED BY <1>1, <1>2, <2>1, <2>2
<1> HIDE DEF bp, s
<1>6. s \in 0..bp - 1
  BY <1>3, <1>4
<1>7. v \div bp = c /\ v % bp = s
  BY <1>2, <1>3, <1>5, <1>6, DivisionUnica
<1> QED BY <1>7 DEF bp, s, c, d, q, r

\* The i-th digit of v, the least significant one first.
Cifra(v, i) == (v \div Tope(i)) % Base

\* A digit more of a number: what it adds to the rest, and what it leaves of the quotient.
LEMMA UnaCifraMas ==
    ASSUME NEW v \in Nat, NEW i \in Nat
    PROVE  /\ Cifra(v, i) \in Digitos
           /\ v \div Tope(i) \in Nat /\ v % Tope(i) \in Nat
           /\ v \div Tope(i) = (v \div Tope(i + 1)) * Base + Cifra(v, i)
           /\ v % Tope(i + 1) = (v % Tope(i)) + Cifra(v, i) * Tope(i)
<1> DEFINE p == Tope(i)
           q == v \div p
<1>1. p \in Nat \ {0} /\ Tope(i + 1) = Base * p /\ Base \in Nat \ {0}
  BY TopeDe, BaseAssumption
<1> HIDE DEF p
<1>2. v \div (Base * p) = q \div Base /\ v % (Base * p) = (v % p) + (q % Base) * p
  BY <1>1, Digito
<1>3. q \in Nat /\ v % p \in Nat
  <2>1. v \div p \in Nat /\ v % p \in 0..p - 1
    BY <1>1, Division
  <2> QED BY <2>1
<1> HIDE DEF q
<1>4. q % Base \in 0..Base - 1 /\ q = (q \div Base) * Base + (q % Base)
  BY <1>1, <1>3, Division
<1>5. Cifra(v, i) = q % Base
  BY DEF Cifra, q, p
<1>6. v \div Tope(i) = q /\ Tope(i) = p
  BY DEF q, p
<1> QED BY <1>1, <1>2, <1>3, <1>4, <1>5, <1>6 DEF Digitos

\* A number below a power is its rest, and has nothing above it.
LEMMA Menor ==
    ASSUME NEW i \in Nat, NEW v \in 0..Tope(i) - 1
    PROVE  v \div Tope(i) = 0 /\ v % Tope(i) = v
<1> DEFINE p == Tope(i)
<1>1. p \in Nat \ {0}
  BY TopeDe
<1> HIDE DEF p
<1>2. v \in 0..p - 1
  BY DEF p
<1>3. v \in Nat /\ v = 0 * p + v /\ 0 \in Nat
  BY <1>1, <1>2
<1>4. v \div p = 0 /\ v % p = v
  BY <1>1, <1>2, <1>3, DivisionUnica
<1> QED BY <1>4 DEF p

\* The bytes of a number are its digits.
LEMMA LeBytesDe ==
    ASSUME NEW v \in Nat, NEW n \in Nat
    PROVE  /\ LeBytes(v, n) \in Seq(Digitos) /\ Len(LeBytes(v, n)) = n
           /\ \A i \in 1..n : LeBytes(v, n)[i] = Cifra(v, i - 1)
<1> DEFINE s == LeBytes(v, n)
<1>1. s = [i \in 1..n |-> Cifra(v, i - 1)]
  BY DEF LeBytes, Cifra
<1>2. ASSUME NEW i \in 1..n PROVE Cifra(v, i - 1) \in Digitos
  <2>1. i - 1 \in Nat
    OBVIOUS
  <2> QED BY <2>1, UnaCifraMas
<1> HIDE DEF s
<1>3. s \in [1..n -> Digitos]
  BY <1>1, <1>2
<1>4. s \in Seq(Digitos) /\ Len(s) = n
  BY <1>3
<1> QED BY <1>1, <1>4 DEF s

\* f sums the first i digits of b, for each i up to n.
SumasDe(f, b, n) == f = [i \in 0..n |-> IF i = 0 THEN 0 ELSE f[i - 1] + b[i] * Tope(i - 1)]

\* There are such sums, and they are whole numbers.
LEMMA SumasExisten ==
    ASSUME NEW b, NEW n \in Nat, \A i \in 1..n : b[i] \in Nat
    PROVE  /\ \E f : SumasDe(f, b, n)
           /\ \A f : SumasDe(f, b, n) => f[n] \in Nat
<1> DEFINE T == {m \in Nat : m <= n => /\ \E f : SumasDe(f, b, m)
                                       /\ \A f : SumasDe(f, b, n) => f[m] \in Nat}
<1>1. 0 \in T
  <2>1. SumasDe([i \in 0..0 |-> 0], b, 0)
    BY DEF SumasDe
  <2>2. ASSUME NEW f, SumasDe(f, b, n) PROVE f[0] = 0
    BY <2>2 DEF SumasDe
  <2> QED BY <2>1, <2>2
<1>2. ASSUME NEW m \in T PROVE m + 1 \in T
  <2> SUFFICES ASSUME m + 1 <= n
               PROVE  /\ \E f : SumasDe(f, b, m + 1)
                      /\ \A f : SumasDe(f, b, n) => f[m + 1] \in Nat
    OBVIOUS
  <2> DEFINE x == b[m + 1] * Tope(m)
  <2>1. x \in Nat
    <3>1. m \in Nat /\ m + 1 \in 1..n
      OBVIOUS
    <3>2. Tope(m) \in Nat
      BY <3>1, TopeDe
    <3>3. b[m + 1] \in Nat
      BY <3>1
    <3> QED BY <3>2, <3>3
  <2>2. m \in Nat /\ (m + 1) - 1 = m /\ m <= n
    OBVIOUS
  <2>3. /\ \E f : SumasDe(f, b, m)
        /\ \A f : SumasDe(f, b, n) => f[m] \in Nat
    BY <2>2
  <2> HIDE DEF T
  <2>4. PICK f : SumasDe(f, b, m)
    BY <2>3
  <2> DEFINE w == [i \in 0..m + 1 |-> IF i = m + 1 THEN f[m] + x ELSE f[i]]
  <2>5. ASSUME NEW i \in 0..m + 1 PROVE w[i] = IF i = 0 THEN 0 ELSE w[i - 1] + b[i] * Tope(i - 1)
    <3>1. CASE i = m + 1
      <4> HIDE DEF x
      <4>1. w[m + 1] = f[m] + x /\ w[m] = f[m]
        BY <2>2
      <4> HIDE DEF w
      <4>2. w[m + 1] = w[m] + x
        BY <4>1
      <4> QED BY <2>2, <3>1, <4>2 DEF x
    <3>2. CASE i # m + 1
      <4>1. i \in 0..m /\ w[i] = f[i] /\ (i # 0 => w[i - 1] = f[i - 1])
        BY <2>2, <3>2
      <4>2. f[i] = IF i = 0 THEN 0 ELSE f[i - 1] + b[i] * Tope(i - 1)
        BY <2>4, <4>1 DEF SumasDe
      <4> HIDE DEF w
      <4> QED BY <4>1, <4>2
    <3> QED BY <3>1, <3>2
  <2>6. w = [i \in 0..m + 1 |-> w[i]]
    OBVIOUS
  <2> HIDE DEF w
  <2>7. SumasDe(w, b, m + 1)
    BY <2>5, <2>6 DEF SumasDe
  <2>8. ASSUME NEW g, SumasDe(g, b, n) PROVE g[m + 1] \in Nat
    <3>1. m + 1 \in 0..n /\ m + 1 # 0
      BY <2>2
    <3>2. g[m + 1] = g[(m + 1) - 1] + b[m + 1] * Tope((m + 1) - 1)
      BY <2>8, <3>1 DEF SumasDe
    <3>3. g[m + 1] = g[m] + x
      BY <2>2, <3>2
    <3> HIDE DEF x
    <3>4. g[m] \in Nat
      BY <2>3, <2>8
    <3> QED BY <2>1, <3>3, <3>4
  <2> QED BY <2>7, <2>8
<1>3. n \in T
  <2>1. T \in SUBSET Nat
    OBVIOUS
  <2> HIDE DEF T
  <2>2. T = Nat
    BY <1>1, <1>2, <2>1, Induccion
  <2> QED BY <2>2
<1> QED BY <1>3

\* What DeLe adds up.
LEMMA DeLeEs ==
    ASSUME NEW b \in Seq(Nat)
    PROVE  \E f : SumasDe(f, b, Len(b)) /\ DeLe(b) = f[Len(b)]
<1> DEFINE n == Len(b)
           paso(h) == [i \in 0..Len(b) |-> IF i = 0 THEN 0 ELSE h[i - 1] + b[i] * Tope(i - 1)]
           suma == CHOOSE h : h = paso(h)
<1>1. DeLe(b) = suma[n]
  BY DEF DeLe
<1>2. ASSUME NEW h PROVE SumasDe(h, b, n) <=> h = paso(h)
  BY DEF SumasDe
<1>3. n \in Nat /\ \A i \in 1..n : b[i] \in Nat
  OBVIOUS
<1> HIDE DEF n, paso
<1>4. PICK f : SumasDe(f, b, n)
  BY <1>3, SumasExisten
<1>5. \E h : h = paso(h)
  BY <1>2, <1>4
<1>6. suma = paso(suma)
  BY <1>5
<1> HIDE DEF suma
<1> QED BY <1>1, <1>2, <1>6 DEF n

\* A number that is read is a whole number.
LEMMA DeLeDe ==
    ASSUME NEW b \in Seq(Nat)
    PROVE  DeLe(b) \in Nat
<1>1. PICK f : SumasDe(f, b, Len(b)) /\ DeLe(b) = f[Len(b)]
  BY DeLeEs
<1>2. Len(b) \in Nat /\ \A i \in 1..Len(b) : b[i] \in Nat
  OBVIOUS
<1> QED BY <1>1, <1>2, SumasExisten

\* The bytes of a number that fits in them give it back (to_le_bytes and from_le_bytes).
LEMMA DeLeLeBytes ==
    ASSUME NEW n \in Nat, NEW v \in 0..Tope(n) - 1
    PROVE  DeLe(LeBytes(v, n)) = v
<1> DEFINE b == LeBytes(v, n)
<1>1. v \in Nat
  OBVIOUS
<1>2. b \in Seq(Digitos) /\ Len(b) = n /\ \A i \in 1..n : b[i] = Cifra(v, i - 1)
  BY <1>1, LeBytesDe
<1>3. b \in Seq(Nat)
  <2>1. \A d \in Digitos : d \in Nat
    BY BaseAssumption DEF Digitos
  <2> HIDE DEF b
  <2>2. b \in [1..n -> Nat]
    BY <1>2, <2>1
  <2> QED BY <2>2
<1> HIDE DEF b
<1>4. PICK f : SumasDe(f, b, n) /\ DeLe(b) = f[n]
  BY <1>2, <1>3, DeLeEs
<1> DEFINE T == {m \in Nat : m <= n => f[m] = v % Tope(m)}
<1>5. 0 \in T
  <2>1. f[0] = 0
    BY <1>4 DEF SumasDe
  <2>2. v % Tope(0) = 0
    BY <1>1, TopeDe
  <2> QED BY <2>1, <2>2
<1>6. ASSUME NEW m \in T PROVE m + 1 \in T
  <2> SUFFICES ASSUME m + 1 <= n PROVE f[m + 1] = v % Tope(m + 1)
    OBVIOUS
  <2>1. m \in Nat /\ m + 1 \in 0..n /\ m + 1 \in 1..n /\ m + 1 # 0 /\ (m + 1) - 1 = m
    OBVIOUS
  <2>2. f[m] = v % Tope(m)
    OBVIOUS
  <2>3. f[m + 1] = f[m] + b[m + 1] * Tope(m)
    BY <1>4, <2>1 DEF SumasDe
  <2>4. b[m + 1] = Cifra(v, m)
    BY <1>2, <2>1
  <2>5. v % Tope(m + 1) = (v % Tope(m)) + Cifra(v, m) * Tope(m)
    BY <1>1, <2>1, UnaCifraMas
  <2> QED BY <2>2, <2>3, <2>4, <2>5
<1>7. n \in T
  <2>1. T \in SUBSET Nat
    OBVIOUS
  <2> HIDE DEF T
  <2>2. T = Nat
    BY <1>5, <1>6, <2>1, Induccion
  <2> QED BY <2>2
<1>8. v % Tope(n) = v
  BY Menor
<1> QED BY <1>4, <1>7, <1>8 DEF b

-----------------------------------------------------------------------------
(* The proof of work.                                                      *)

\* The bytes of a number, the most significant one first.
LEMMA BeBytesDe ==
    ASSUME NEW v \in Nat, NEW n \in Nat
    PROVE  \A j \in 1..n : BeBytes(v, n)[j] = Cifra(v, n - j)
<1> DEFINE s == LeBytes(v, n)
<1>1. s \in Seq(Digitos) /\ Len(s) = n /\ \A i \in 1..n : s[i] = Cifra(v, i - 1)
  BY LeBytesDe
<1> HIDE DEF s
<1>2. ASSUME NEW j \in 1..n PROVE Reverse(s)[j] = Cifra(v, n - j)
  <2>1. Reverse(s)[j] = s[(n - j) + 1]
    BY <1>1 DEF Reverse
  <2>2. (n - j) + 1 \in 1..n /\ ((n - j) + 1) - 1 = n - j
    OBVIOUS
  <2> QED BY <1>1, <2>1, <2>2
<1> QED BY <1>2 DEF BeBytes, s

\* The digits of a number moved d places: zeros first, and then its own.
LEMMA CifraDesplazada ==
    ASSUME NEW m \in Nat, NEW d \in Nat, NEW i \in Nat
    PROVE  Cifra(m * Tope(d), i) = IF i < d THEN 0 ELSE Cifra(m, i - d)
<1> DEFINE v == m * Tope(d)
<1>1. CASE i >= d
  <2> DEFINE k == i - d
             p == Tope(k)
             t == Tope(d)
             q == m \div p
             r == m % p
  <2>1. k \in Nat /\ i = k + d
    BY <1>1
  <2>2. p \in Nat \ {0} /\ t \in Nat \ {0} /\ Tope(i) = p * t
    <3> HIDE DEF k
    <3> QED BY <2>1, TopeDe, TopeSuma
  <2> HIDE DEF p, t
  <2>3. q \in Nat /\ r \in 0..p - 1 /\ m = q * p + r
    BY <2>2, Division
  <2> HIDE DEF q, r
  <2> DEFINE pt == p * t
             rt == r * t
  <2>4. pt \in Nat \ {0} /\ rt \in Nat
    BY <2>2, <2>3
  <2>5. rt <= pt - 1
    <3>1. r + 1 <= p /\ r \in Nat
      BY <2>2, <2>3
    <3>2. (r + 1) * t <= p * t
      BY <2>2, <3>1
    <3>3. (r + 1) * t = r * t + t
      BY <2>2, <3>1
    <3> QED BY <2>2, <2>4, <3>2, <3>3
  <2>6. m * t = q * pt + rt
    <3>1. m * t = (q * p + r) * t
      BY <2>3
    <3>2. (q * p + r) * t = q * (p * t) + r * t
      BY <2>2, <2>3
    <3> QED BY <3>1, <3>2
  <2>7. m * t \in Nat
    BY <2>2
  <2> HIDE DEF pt, rt
  <2>8. (m * t) \div pt = q
    <3>1. rt \in 0..pt - 1
      BY <2>4, <2>5
    <3> DEFINE mt == m * t
    <3>2. mt \in Nat /\ mt = q * pt + rt
      BY <2>6, <2>7
    <3> HIDE DEF mt
    <3>3. mt \div pt = q
      BY <2>3, <2>4, <3>1, <3>2, DivisionUnica
    <3> QED BY <3>3 DEF mt
  <2>9. Cifra(v, i) = q % Base
    <3>1. v = m * t /\ Tope(i) = pt
      BY <2>2 DEF pt, t
    <3> HIDE DEF v
    <3> QED BY <2>8, <3>1 DEF Cifra
  <2>10. Cifra(m, i - d) = q % Base
    BY DEF Cifra, q, p
  <2> QED BY <1>1, <2>9, <2>10
<1>2. CASE i < d
  <2> DEFINE k == d - (i + 1)
             p == Tope(i)
             t == Tope(k)
             q == m * t
  <2>1. k \in Nat /\ d = (i + 1) + k /\ i + 1 \in Nat
    BY <1>2
  <2>2. p \in Nat \ {0} /\ t \in Nat \ {0} /\ Tope(d) = (Base * p) * t
    <3> HIDE DEF k
    <3>1. Tope((i + 1) + k) = Tope(i + 1) * Tope(k)
      BY <2>1, TopeSuma
    <3>2. Tope(i + 1) = Base * Tope(i)
      BY TopeDe
    <3>3. Tope(i) \in Nat \ {0} /\ Tope(k) \in Nat \ {0}
      BY <2>1, TopeDe
    <3> QED BY <2>1, <3>1, <3>2, <3>3
  <2>3. Base \in Nat \ {0}
    BY BaseAssumption
  <2> HIDE DEF p, t
  <2>4. q \in Nat
    BY <2>2
  <2>5. v = (q * Base) * p
    <3>1. v = m * ((Base * p) * t)
      BY <2>2
    <3>2. m * ((Base * p) * t) = ((m * t) * Base) * p
      BY <2>2, <2>3
    <3> QED BY <3>1, <3>2
  <2> HIDE DEF q, v
  <2> DEFINE qb == q * Base
  <2>6. qb \in Nat /\ v = qb * p + 0 /\ v \in Nat
    <3>1. qb \in Nat
      BY <2>3, <2>4
    <3>2. v = qb * p
      BY <2>5
    <3> HIDE DEF qb
    <3>3. qb * p \in Nat
      BY <2>2, <3>1
    <3> QED BY <3>1, <3>2, <3>3
  <2>7. v \div p = qb
    <3>1. 0 \in 0..p - 1
      BY <2>2
    <3> HIDE DEF qb
    <3> QED BY <2>2, <2>6, <3>1, DivisionUnica
  <2>8. qb % Base = 0
    <3>1. 0 \in 0..Base - 1 /\ qb = q * Base + 0
      BY <2>3, <2>4
    <3> HIDE DEF qb
    <3> QED BY <2>3, <2>4, <2>6, <3>1, DivisionUnica
  <2>9. Cifra(v, i) = 0
    <3> HIDE DEF qb
    <3> QED BY <2>7, <2>8 DEF Cifra, p
  <2> QED BY <1>2, <2>9 DEF v
<1> QED BY <1>1, <1>2

\* Powers grow.
LEMMA TopeCrece ==
    ASSUME NEW n \in Nat, NEW m \in Nat, n <= m
    PROVE  Tope(n) <= Tope(m)
<1> DEFINE k == m - n
<1>1. k \in Nat /\ m = n + k
  OBVIOUS
<1> HIDE DEF k
<1>2. Tope(m) = Tope(n) * Tope(k) /\ Tope(n) \in Nat \ {0} /\ Tope(k) \in Nat \ {0}
  BY <1>1, TopeDe, TopeSuma
<1> QED BY <1>2

\* A number below a power has zeros from there on.
LEMMA CifraAlta ==
    ASSUME NEW i \in Nat, NEW v \in 0..Tope(i) - 1
    PROVE  Cifra(v, i) = 0
<1>1. v \div Tope(i) = 0
  BY Menor
<1> QED BY <1>1, BaseAssumption DEF Cifra

\* The target has the digits of the mantissa, moved as many places as the exponent says.
LEMMA TargetDe ==
    ASSUME NEW n_bits, n_bits.mantisa \in 0..Tope(3) - 1, ExponenteUtil(n_bits)
    PROVE  LET limite == n_bits.mantisa * Tope(Desplazamiento(n_bits)) IN
           /\ limite \in 0..Tope(LargoTarget) - 1
           /\ \A j \in 1..LargoTarget : Target(n_bits)[j] = Cifra(limite, LargoTarget - j)
<1> DEFINE d == Desplazamiento(n_bits)
           m == n_bits.mantisa
           L == LargoTarget
           limite == m * Tope(d)
<1>1. d \in 0..L - 4 /\ L \in Nat /\ m \in 0..Tope(3) - 1
  BY LargoTargetAssumption DEF ExponenteUtil
<1> HIDE DEF d, m, L
<1>2. m \in Nat /\ d \in Nat
  BY <1>1
<1>3. limite \in 0..Tope(L) - 1
  <2>1. Tope(3) \in Nat \ {0} /\ Tope(d) \in Nat \ {0} /\ Tope(L) \in Nat \ {0}
    BY <1>1, TopeDe
  <2>2. Tope(3 + d) = Tope(3) * Tope(d) /\ Tope(3 + d) <= Tope(L)
    <3> DEFINE k == 3 + d
    <3>1. 3 \in Nat /\ k \in Nat /\ k <= L /\ L \in Nat
      BY <1>1
    <3>2. Tope(3 + d) = Tope(3) * Tope(d)
      BY <1>2, <3>1, TopeSuma
    <3> HIDE DEF k
    <3>3. Tope(k) <= Tope(L)
      BY <3>1, TopeCrece
    <3> QED BY <3>2, <3>3 DEF k
  <2> DEFINE t3 == Tope(3)
             td == Tope(d)
             tl == Tope(L)
  <2>3. t3 \in Nat \ {0} /\ td \in Nat \ {0} /\ tl \in Nat \ {0} /\ t3 * td <= tl /\ m + 1 <= t3
    <3>1. m + 1 <= t3
      <4>1. t3 \in Nat
        BY <2>1
      <4>2. m \in 0..t3 - 1
        BY <1>1
      <4> HIDE DEF t3
      <4> QED BY <4>1, <4>2
    <3> QED BY <2>1, <2>2, <3>1
  <2> HIDE DEF t3, td, tl
  <2>4. (m + 1) * td <= t3 * td
    BY <1>2, <2>3
  <2>5. (m + 1) * td = m * td + td /\ m * td \in Nat
    BY <1>2, <2>3
  <2>6. m * td \in 0..tl - 1
    BY <2>3, <2>4, <2>5
  <2> QED BY <2>6 DEF td, tl
<1>4. ASSUME NEW j \in 1..L PROVE Target(n_bits)[j] = Cifra(limite, L - j)
  <2>1. L - j \in Nat
    BY <1>1
  <2>2. Cifra(limite, L - j) = IF L - j < d THEN 0 ELSE Cifra(m, (L - j) - d)
    BY <1>2, <2>1, CifraDesplazada
  <2>3. Target(n_bits)[j] = IF j \in (L - d - 4) + 1..L - d THEN BeBytes(m, 4)[j - (L - d - 4)] ELSE 0
    BY DEF Target, d, m, L
  <2> HIDE DEF limite
  <2>4. CASE j \in (L - d - 4) + 1..L - d
    <3>1. j - (L - d - 4) \in 1..4 /\ 4 - (j - (L - d - 4)) = (L - j) - d /\ ~(L - j < d)
      BY <1>1, <2>4
    <3>2. BeBytes(m, 4)[j - (L - d - 4)] = Cifra(m, 4 - (j - (L - d - 4)))
      BY <1>2, <3>1, BeBytesDe
    <3> QED BY <2>2, <2>3, <2>4, <3>1, <3>2
  <2>5. CASE L - j < d
    <3>1. ~(j \in (L - d - 4) + 1..L - d)
      BY <1>1, <2>5
    <3> QED BY <2>2, <2>3, <2>5, <3>1
  <2>6. CASE j < (L - d - 4) + 1
    <3> DEFINE k == (L - j) - d
    <3>1. k \in Nat /\ 3 <= k /\ ~(L - j < d) /\ ~(j \in (L - d - 4) + 1..L - d)
      BY <1>1, <2>6
    <3> HIDE DEF k
    <3>2. Tope(3) <= Tope(k) /\ Tope(3) \in Nat /\ Tope(k) \in Nat
      <4>1. 3 \in Nat
        OBVIOUS
      <4> QED BY <3>1, <4>1, TopeCrece, TopeDe
    <3>3. m \in 0..Tope(k) - 1
      BY <1>1, <3>2
    <3>4. Cifra(m, k) = 0
      BY <3>1, <3>3, CifraAlta
    <3> QED BY <2>2, <2>3, <3>1, <3>4 DEF k
  <2> QED BY <1>1, <2>4, <2>5, <2>6
<1> QED BY <1>3, <1>4 DEF d, m, L, limite

\* Of two numbers of n digits, the first digit in which they differ says which is smaller.
LEMMA PrimeraDistinta ==
    ASSUME NEW n \in Nat, NEW x \in 0..Tope(n) - 1, NEW y \in 0..Tope(n) - 1
    PROVE  (\E i \in 1..n : /\ Cifra(x, n - i) < Cifra(y, n - i)
                            /\ \A j \in 1..i - 1 : Cifra(x, n - j) = Cifra(y, n - j))
           <=> x < y
<1> DEFINE X(i) == Cifra(x, n - i)
           Y(i) == Cifra(y, n - i)
           Menos(k) == \E i \in 1..k : X(i) < Y(i) /\ \A j \in 1..i - 1 : X(j) = Y(j)
           Iguales(k) == \A j \in 1..k : X(j) = Y(j)
           qx(k) == x \div Tope(n - k)
           qy(k) == y \div Tope(n - k)
           T == {k \in Nat : k <= n => /\ Menos(k) <=> qx(k) < qy(k)
                                       /\ Iguales(k) <=> qx(k) = qy(k)}
<1>1. x \in Nat /\ y \in Nat
  OBVIOUS
<1>2. 0 \in T
  <2>1. qx(0) = 0 /\ qy(0) = 0
    <3>1. n - 0 = n
      OBVIOUS
    <3> QED BY <3>1, Menor
  <2>2. Iguales(0) /\ ~Menos(0)
    OBVIOUS
  <2> HIDE DEF Iguales, Menos, qx, qy
  <2> QED BY <2>1, <2>2
<1>3. ASSUME NEW k \in T PROVE k + 1 \in T
  <2> SUFFICES ASSUME k + 1 <= n
               PROVE  /\ Menos(k + 1) <=> qx(k + 1) < qy(k + 1)
                      /\ Iguales(k + 1) <=> qx(k + 1) = qy(k + 1)
    OBVIOUS
  <2>1. k \in Nat /\ n - (k + 1) \in Nat /\ n - k = (n - (k + 1)) + 1
    OBVIOUS
  <2>2. Menos(k) <=> qx(k) < qy(k)
    OBVIOUS
  <2>3. Iguales(k) <=> qx(k) = qy(k)
    OBVIOUS
  <2>4. /\ X(k + 1) \in Digitos /\ qx(k + 1) = qx(k) * Base + X(k + 1)
        /\ Y(k + 1) \in Digitos /\ qy(k + 1) = qy(k) * Base + Y(k + 1)
    <3> DEFINE i == n - (k + 1)
    <3>1. i \in Nat /\ n - k = i + 1
      BY <2>1
    <3> HIDE DEF i
    <3>2. /\ Cifra(x, i) \in Digitos /\ x \div Tope(i) = (x \div Tope(i + 1)) * Base + Cifra(x, i)
          /\ Cifra(y, i) \in Digitos /\ y \div Tope(i) = (y \div Tope(i + 1)) * Base + Cifra(y, i)
      BY <1>1, <3>1, UnaCifraMas
    <3> QED BY <3>1, <3>2 DEF i
  <2>5. qx(k) \in Nat /\ qy(k) \in Nat
    <3>1. n - k \in Nat
      BY <2>1
    <3> QED BY <1>1, <3>1, UnaCifraMas
  <2>6. Menos(k + 1) <=> Menos(k) \/ (X(k + 1) < Y(k + 1) /\ Iguales(k))
    <3> HIDE DEF X, Y
    <3>1. 1..k + 1 = 1..k \cup {k + 1} /\ (k + 1) - 1 = k
      BY <2>1
    <3> QED BY <3>1
  <2>7. Iguales(k + 1) <=> Iguales(k) /\ X(k + 1) = Y(k + 1)
    <3> HIDE DEF X, Y
    <3>1. 1..k + 1 = 1..k \cup {k + 1}
      BY <2>1
    <3> QED BY <3>1
  <2> DEFINE a == qx(k)
             b == qy(k)
             c == X(k + 1)
             d == Y(k + 1)
  <2>8. a \in Nat /\ b \in Nat /\ c \in 0..Base - 1 /\ d \in 0..Base - 1 /\ Base \in Nat \ {0}
    BY <2>4, <2>5, BaseAssumption DEF Digitos
  <2> HIDE DEF a, b, c, d
  <2>9. /\ a * Base + c < b * Base + d <=> a < b \/ (a = b /\ c < d)
        /\ a * Base + c = b * Base + d <=> a = b /\ c = d
    <3>1. CASE a = b
      BY <2>8, <3>1
    <3>2. CASE a < b
      <4>1. (a + 1) * Base <= b * Base /\ (a + 1) * Base = a * Base + Base
        BY <2>8, <3>2
      <4>2. a * Base \in Nat /\ b * Base \in Nat
        BY <2>8
      <4> QED BY <2>8, <3>2, <4>1, <4>2
    <3>3. CASE b < a
      <4>1. (b + 1) * Base <= a * Base /\ (b + 1) * Base = b * Base + Base
        BY <2>8, <3>3
      <4>2. a * Base \in Nat /\ b * Base \in Nat
        BY <2>8
      <4> QED BY <2>8, <3>3, <4>1, <4>2
    <3> QED BY <2>8, <3>1, <3>2, <3>3
  <2>10. qx(k + 1) = a * Base + c /\ qy(k + 1) = b * Base + d
    BY <2>4 DEF a, b, c, d
  <2>11. /\ Menos(k) <=> a < b
         /\ Iguales(k) <=> a = b
         /\ Menos(k + 1) <=> Menos(k) \/ (c < d /\ Iguales(k))
         /\ Iguales(k + 1) <=> Iguales(k) /\ c = d
    BY <2>2, <2>3, <2>6, <2>7 DEF a, b, c, d
  <2> HIDE DEF Menos, Iguales, qx, qy
  <2> QED BY <2>8, <2>9, <2>10, <2>11
<1>4. n \in T
  <2>1. T \in SUBSET Nat
    OBVIOUS
  <2> HIDE DEF T
  <2>2. T = Nat
    BY <1>2, <1>3, <2>1, Induccion
  <2> QED BY <2>2
<1>5. qx(n) = x /\ qy(n) = y
  <2>1. n - n = 0 /\ Tope(0) = 1
    BY TopeDe
  <2> QED BY <2>1
<1> QED BY <1>4, <1>5

\* A hash passes the comparison of bytes if and only if it is below the target as a number
\* (proof_of_work).
THEOREM CumpleEsMenor ==
    ASSUME NEW n_bits, n_bits.mantisa \in 0..Tope(3) - 1, ExponenteUtil(n_bits),
           NEW hash \in 0..Tope(LargoTarget) - 1
    PROVE  Cumple(n_bits, BeBytes(hash, LargoTarget))
           <=> hash < n_bits.mantisa * Tope(Desplazamiento(n_bits))
<1> DEFINE limite == n_bits.mantisa * Tope(Desplazamiento(n_bits))
           L == LargoTarget
<1>1. /\ limite \in 0..Tope(L) - 1
      /\ \A j \in 1..L : Target(n_bits)[j] = Cifra(limite, L - j)
  BY TargetDe
<1>2. L \in Nat /\ hash \in Nat
  BY LargoTargetAssumption
<1>3. \A j \in 1..L : BeBytes(hash, L)[j] = Cifra(hash, L - j)
  BY <1>2, BeBytesDe
<1> HIDE DEF limite, L
<1>4. Cumple(n_bits, BeBytes(hash, L))
      <=> \E i \in 1..L : /\ Cifra(hash, L - i) < Cifra(limite, L - i)
                          /\ \A j \in 1..i - 1 : Cifra(hash, L - j) = Cifra(limite, L - j)
  <2>1. \A i \in 1..L : \A j \in 1..i - 1 : j \in 1..L
    BY <1>2
  <2> QED BY <1>1, <1>3, <2>1 DEF Cumple, L
<1>5. hash \in 0..Tope(L) - 1
  BY DEF L
<1> QED BY <1>1, <1>2, <1>4, <1>5, PrimeraDistinta DEF limite, L
-----------------------------------------------------------------------------
(* The levels of the tree.                                                 *)

\* A hash of each transaction.
LEMMA TxidsDe ==
    ASSUME NEW l, EsSecuencia(l)
    PROVE  /\ EsSecuencia(Txids(l)) /\ Len(Txids(l)) = Len(l)
           /\ \A i \in 1..Len(l) : Txids(l)[i] = Txid(l[i])
<1>1. Len(l) \in Nat /\ DOMAIN l = 1..Len(l)
  BY Secuencia
<1> DEFINE s == Txids(l)
<1>2. DOMAIN s = 1..Len(l) /\ s = [i \in 1..Len(l) |-> s[i]] /\ \A i \in 1..Len(l) : s[i] = Txid(l[i])
  BY <1>1 DEF Txids
<1> HIDE DEF s
<1>3. EsSecuencia(s) /\ Len(s) = Len(l)
  BY <1>1, <1>2, SecuenciaDe
<1> QED BY <1>2, <1>3 DEF s

\* A completed level is even, and begins with the level.
LEMMA Completa ==
    ASSUME NEW s, EsSecuencia(s)
    PROVE  /\ EsSecuencia(Completar(s)) /\ Len(Completar(s)) % 2 = 0
           /\ Len(Completar(s)) \in Len(s)..Len(s) + 1
           /\ \A i \in 1..Len(s) : Completar(s)[i] = s[i]
           /\ Len(Completar(s)) = Len(s) + 1 => Len(s) # 0 /\ Completar(s)[Len(s) + 1] = s[Len(s)]
<1>1. Len(s) \in Nat
  BY Secuencia
<1>2. CASE Len(s) % 2 = 0
  <2>1. Completar(s) = s
    BY <1>2 DEF Completar
  <2> QED BY <1>1, <1>2, <2>1
<1>3. CASE Len(s) % 2 # 0
  <2> DEFINE x == Last(s)
             c == Append(s, x)
  <2>1. Completar(s) = c
    BY <1>3 DEF Completar
  <2>2. x = s[Len(s)]
    BY UltimoDe
  <2> HIDE DEF x
  <2>3. /\ EsSecuencia(c) /\ Len(c) = Len(s) + 1 /\ c[Len(s) + 1] = x
        /\ \A i \in 1..Len(s) : c[i] = s[i]
    BY SecuenciaCrece
  <2> HIDE DEF c
  <2>4. (Len(s) + 1) % 2 = 0
    BY <1>1, <1>3
  <2> QED BY <1>1, <1>3, <2>1, <2>2, <2>3, <2>4
<1> QED BY <1>2, <1>3

\* The level above has a node of each pair.
LEMMA PadresDe ==
    ASSUME NEW s, EsSecuencia(s)
    PROVE  /\ EsSecuencia(Padres(s)) /\ Len(Padres(s)) = Len(s) \div 2
           /\ \A i \in 1..Len(s) \div 2 : Padres(s)[i] = <<s[2 * i - 1], s[2 * i]>>
<1>1. Len(s) \in Nat /\ Len(s) \div 2 \in Nat
  BY Secuencia
<1> DEFINE p == Padres(s)
           n == Len(s) \div 2
<1>2. DOMAIN p = 1..n /\ p = [i \in 1..n |-> p[i]] /\ \A i \in 1..n : p[i] = <<s[2 * i - 1], s[2 * i]>>
  BY DEF Padres
<1> HIDE DEF p, n
<1>3. EsSecuencia(p) /\ Len(p) = n
  BY <1>1, <1>2, SecuenciaDe DEF n
<1> QED BY <1>2, <1>3 DEF p, n
-----------------------------------------------------------------------------
(* The reference tree.                                                     *)

\* A level up, half of the nodes, rounded up.
LEMMA NodosDe ==
    ASSUME NEW n \in Nat, NEW h \in Nat
    PROVE  Nodos(n, 0) = n /\ Nodos(n, h + 1) = (Nodos(n, h) + 1) \div 2
<1> DEFINE p == Potencia(2, h)
           q == Nodos(n, h)
           r == (q + 1) \div 2
<1>1. 2 \in Nat \ {0}
  OBVIOUS
<1>2. p \in Nat \ {0} /\ Potencia(2, 0) = 1 /\ Potencia(2, h + 1) = 2 * p
  BY <1>1, PotenciaDe
<1>3. q = (n + p - 1) \div p /\ Nodos(n, h + 1) = (n + 2 * p - 1) \div (2 * p) /\ Nodos(n, 0) = (n + 1 - 1) \div 1
  BY <1>2 DEF Nodos
<1> HIDE DEF p, q
<1> DEFINE s == (n + p - 1) % p
           v == n + p - 1
<1>4. q \in Nat /\ s \in 0..p - 1 /\ n + p - 1 = q * p + s
  <2>1. v \in Nat
    BY <1>2
  <2>2. q = v \div p /\ s = v % p
    BY <1>3
  <2> HIDE DEF v, s
  <2>3. q \in Nat /\ s \in 0..p - 1 /\ v = q * p + s
    BY <1>2, <2>1, <2>2, Division
  <2> QED BY <2>3 DEF v
<1> HIDE DEF s, v
<1> DEFINE t == (q + 1) % 2
<1>5. r \in Nat /\ t \in 0..1 /\ q + 1 = r * 2 + t
  BY <1>4
<1> HIDE DEF r, t
<1> DEFINE p2 == 2 * p
           w == n + 2 * p - 1
           u == w - r * p2
<1>6. p2 \in Nat \ {0} /\ w \in Nat
  BY <1>2
<1>7. u \in 0..p2 - 1 /\ w = r * p2 + u
  <2>1. CASE t = 0
    <3>1. q * p = (r * 2 - 1) * p
      BY <1>4, <1>5, <2>1
    <3>2. (r * 2 - 1) * p = r * (2 * p) - p
      BY <1>2, <1>5
    <3> DEFINE rp == r * (2 * p)
    <3>3. rp \in Nat
      BY <1>2, <1>5
    <3> HIDE DEF rp
    <3>4. n + p - 1 = rp - p + s
      BY <1>4, <3>1, <3>2 DEF rp
    <3>5. u = n + 2 * p - 1 - rp
      BY <1>2, <1>5, <3>3 DEF rp
    <3> QED BY <1>2, <1>4, <3>3, <3>4, <3>5 DEF rp
  <2>2. CASE t = 1
    <3>1. q * p = (r * 2) * p
      BY <1>4, <1>5, <2>2
    <3>2. (r * 2) * p = r * (2 * p)
      BY <1>2, <1>5
    <3> DEFINE rp == r * (2 * p)
    <3>3. rp \in Nat
      BY <1>2, <1>5
    <3> HIDE DEF rp
    <3>4. n + p - 1 = rp + s
      BY <1>4, <3>1, <3>2 DEF rp
    <3>5. u = n + 2 * p - 1 - rp
      BY <1>2, <1>5, <3>3 DEF rp
    <3> QED BY <1>2, <1>4, <3>3, <3>4, <3>5 DEF rp
  <2> QED BY <1>5, <2>1, <2>2
<1> HIDE DEF u, p2, w
<1>8. w \div p2 = r
  BY <1>5, <1>6, <1>7, DivisionUnica
<1>9. Nodos(n, h + 1) = w \div p2
  BY <1>3 DEF w, p2
<1>10. Nodos(n, 0) = n
  BY <1>3
<1> QED BY <1>8, <1>9, <1>10 DEF r, q

\* A row of the tree, from the one below it.
Fila(l, h, hijos) ==
    [i \in 0..Nodos(Len(l), h) - 1 |->
        IF h = 0 THEN Txid(l[i + 1])
        ELSE <<hijos[2 * i],
               IF 2 * i + 1 < Nodos(Len(l), h - 1) THEN hijos[2 * i + 1] ELSE hijos[2 * i]>>]

\* f has the rows up to n.
Filas(f, l, n) == f = [h \in 0..n |-> Fila(l, h, f[h - 1])]

\* There is such a function for any height.
LEMMA FilasExisten ==
    ASSUME NEW l, NEW n \in Nat
    PROVE  \E f : Filas(f, l, n)
<1> DEFINE T == {m \in Nat : \E f : Filas(f, l, m)}
<1>1. 0 \in T
  <2> DEFINE w == [h \in 0..0 |-> Fila(l, 0, 0)]
  <2>1. Fila(l, 0, 0) = Fila(l, 0, w[0 - 1])
    BY DEF Fila
  <2>2. w = [h \in 0..0 |-> Fila(l, h, w[h - 1])]
    <3>1. w = [h \in 0..0 |-> w[h]] /\ \A h \in 0..0 : h = 0 /\ w[h] = Fila(l, 0, 0)
      OBVIOUS
    <3> HIDE DEF w
    <3>2. \A h \in 0..0 : w[h] = Fila(l, h, w[h - 1])
      BY <2>1, <3>1
    <3> QED BY <3>1, <3>2
  <2> HIDE DEF w
  <2>3. Filas(w, l, 0)
    BY <2>2 DEF Filas
  <2> QED BY <2>3
<1>2. ASSUME NEW m \in T PROVE m + 1 \in T
  <2>1. PICK f : Filas(f, l, m)
    OBVIOUS
  <2> DEFINE x == Fila(l, m + 1, f[m])
             w == [h \in 0..m + 1 |-> IF h = m + 1 THEN x ELSE f[h]]
  <2>2. ASSUME NEW h \in 0..m + 1 PROVE w[h] = Fila(l, h, w[h - 1])
    <3>1. CASE h = m + 1
      <4> HIDE DEF x
      <4>1. w[h] = x /\ w[h - 1] = f[m]
        BY <3>1
      <4> HIDE DEF w
      <4> QED BY <3>1, <4>1 DEF x
    <3>2. CASE h # m + 1
      <4> HIDE DEF x
      <4>1. h \in 0..m /\ w[h] = f[h] /\ (h # 0 => w[h - 1] = f[h - 1])
        BY <3>2
      <4>2. f[h] = Fila(l, h, f[h - 1])
        BY <2>1, <4>1 DEF Filas
      <4> HIDE DEF w
      <4>3. Fila(l, h, f[h - 1]) = Fila(l, h, w[h - 1])
        <5>1. CASE h = 0
          BY <5>1 DEF Fila
        <5>2. CASE h # 0
          BY <4>1, <5>2
        <5> QED BY <5>1, <5>2
      <4> QED BY <4>1, <4>2, <4>3
    <3> QED BY <3>1, <3>2
  <2>3. w = [h \in 0..m + 1 |-> w[h]]
    OBVIOUS
  <2> HIDE DEF w
  <2>4. Filas(w, l, m + 1)
    BY <2>2, <2>3 DEF Filas
  <2> QED BY <2>4
<1> HIDE DEF T
<1>3. T = Nat
  <2>1. T \in SUBSET Nat
    BY DEF T
  <2> QED BY <1>1, <1>2, <2>1, Induccion
<1> QED BY <1>3 DEF T

\* The reference root is the first of the row at the height of the tree.
LEMMA RaizEs ==
    ASSUME NEW l, Len(l) \in Nat
    PROVE  \E f : Filas(f, l, Len(l)) /\ RaizDe(l) = f[Altura(Len(l))][0]
<1> DEFINE paso(g) == [h \in 0..Len(l) |->
                        [i \in 0..Nodos(Len(l), h) - 1 |->
                            IF h = 0 THEN Txid(l[i + 1])
                            ELSE LET hijos == g[h - 1] IN
                                 <<hijos[2 * i],
                                   IF 2 * i + 1 < Nodos(Len(l), h - 1) THEN hijos[2 * i + 1] ELSE hijos[2 * i]>>]]
           fila == CHOOSE g : g = paso(g)
<1>1. RaizDe(l) = fila[Altura(Len(l))][0]
  BY DEF RaizDe
<1>2. ASSUME NEW g PROVE Filas(g, l, Len(l)) <=> g = paso(g)
  BY DEF Filas, Fila
<1>3. PICK f : Filas(f, l, Len(l))
  BY FilasExisten
<1> HIDE DEF paso
<1>4. \E g : g = paso(g)
  BY <1>2, <1>3
<1>5. fila = paso(fila)
  BY <1>4
<1> HIDE DEF fila
<1> QED BY <1>1, <1>2, <1>5

\* The levels that the code goes through, up to one of a single hash, end in the root of the reference
\* (generar_merkle_tree_root_hash).
THEOREM NivelesHastaLaRaiz ==
    ASSUME NEW l, EsSecuencia(l), Len(l) # 0, NEW h, NEW n \in Nat \ {0},
           h[1] = Txids(l),
           \A k \in 1..n : EsSecuencia(h[k]),
           \A k \in 1..n - 1 : Len(h[k]) # 1 /\ h[k + 1] = Padres(Completar(h[k])),
           Len(h[n]) = 1
    PROVE  h[n][1] = RaizDe(l)
<1> DEFINE len == Len(l)
<1>1. len \in Nat \ {0}
  BY Secuencia
<1>2. PICK f : Filas(f, l, len) /\ RaizDe(l) = f[Altura(len)][0]
  BY <1>1, RaizEs
<1> DEFINE Bien(k) == /\ Len(h[k]) = Nodos(len, k - 1) /\ Len(h[k]) \in 1..len - (k - 1)
                      /\ \A i \in 0..Len(h[k]) - 1 : f[k - 1][i] = h[k][i + 1]
           T == {j \in Nat : j + 1 <= n => Bien(j + 1)}
<1>3. 0 \in T
  <2>1. Len(h[1]) = len /\ \A i \in 1..len : h[1][i] = Txid(l[i])
    BY TxidsDe
  <2>2. Nodos(len, 0) = len
    <3>1. 0 \in Nat
      OBVIOUS
    <3> QED BY <1>1, <3>1, NodosDe
  <2>3. f[0] = Fila(l, 0, f[0 - 1])
    BY <1>1, <1>2 DEF Filas
  <2> HIDE DEF len
  <2>4. ASSUME NEW i \in 0..len - 1 PROVE f[0][i] = h[1][i + 1]
    <3>1. f[0][i] = Txid(l[i + 1])
      BY <2>2, <2>3 DEF Fila, len
    <3>2. i + 1 \in 1..len
      BY <1>1
    <3> QED BY <2>1, <3>1, <3>2
  <2>5. Bien(0 + 1)
    <3>1. 0 + 1 = 1 /\ 1 - 1 = 0
      OBVIOUS
    <3>2. Bien(1)
      BY <1>1, <2>1, <2>2, <2>4, <3>1
    <3> QED BY <3>1, <3>2
  <2> QED BY <2>5
<1>4. ASSUME NEW j \in T PROVE j + 1 \in T
  <2> SUFFICES ASSUME (j + 1) + 1 <= n PROVE Bien((j + 1) + 1)
    OBVIOUS
  <2> DEFINE k == j + 1
             s == h[k]
             c == Completar(s)
             p == Padres(c)
  <2>1. j \in Nat /\ k \in 1..n - 1 /\ k \in 1..n /\ k - 1 = j /\ (k + 1) - 1 = k /\ k \in Nat
    OBVIOUS
  <2>2. Bien(k)
    BY <2>1
  <2>3. Len(s) # 1 /\ h[k + 1] = p /\ EsSecuencia(s)
    BY <2>1
  <2> HIDE DEF len, Bien, k, T
  <2>4. /\ Len(s) = Nodos(len, j) /\ Len(s) \in 1..len - j
        /\ \A i \in 0..Len(s) - 1 : f[j][i] = s[i + 1]
    BY <2>1, <2>2 DEF Bien
  <2> HIDE DEF s
  <2>5. /\ EsSecuencia(c) /\ Len(c) % 2 = 0 /\ Len(c) \in Len(s)..Len(s) + 1
        /\ \A i \in 1..Len(s) : c[i] = s[i]
        /\ Len(c) = Len(s) + 1 => c[Len(s) + 1] = s[Len(s)]
    BY <2>3, Completa
  <2> HIDE DEF c
  <2>6. Len(p) = Len(c) \div 2 /\ \A i \in 1..Len(c) \div 2 : p[i] = <<c[2 * i - 1], c[2 * i]>>
    BY <2>5, PadresDe
  <2> HIDE DEF p
  <2> DEFINE m == Len(s)
             mc == Len(c)
             mp == Len(p)
  <2>7. m \in Nat /\ 1 < m /\ m <= len - j
    BY <1>1, <2>1, <2>3, <2>4
  <2>8. mp = (m + 1) \div 2 /\ 2 * mp = mc /\ mc \in m..m + 1 /\ mp \in Nat
    <3>1. mp = mc \div 2 /\ mc % 2 = 0 /\ mc \in m..m + 1
      BY <2>5, <2>6
    <3> HIDE DEF m, mc, mp
    <3> QED BY <2>7, <3>1
  <2>9. Nodos(len, k) = (m + 1) \div 2
    <3>1. Nodos(len, j + 1) = (Nodos(len, j) + 1) \div 2
      BY <1>1, <2>1, NodosDe
    <3> QED BY <2>4, <3>1 DEF k
  <2>10. mp \in 1..len - k
    <3> HIDE DEF m, mp
    <3>1. 2 * mp <= m + 1
      BY <2>7, <2>8
    <3>2. 1 <= mp /\ mp <= m - 1
      BY <2>7, <2>8, <3>1
    <3> QED BY <1>1, <2>1, <2>7, <2>8, <3>2 DEF k
  <2>11. f[k] = Fila(l, k, f[j])
    <3>1. k \in 0..len
      BY <1>1, <2>1, <2>10
    <3> QED BY <1>2, <2>1, <3>1 DEF Filas
  <2>12. ASSUME NEW i \in 0..mp - 1 PROVE f[k][i] = p[i + 1]
    <3> HIDE DEF m, mc, mp
    <3>1. f[k][i] = <<f[j][2 * i], IF 2 * i + 1 < m THEN f[j][2 * i + 1] ELSE f[j][2 * i]>>
      <4>1. i \in 0..Nodos(Len(l), k) - 1 /\ k # 0 /\ m = Nodos(Len(l), k - 1)
        BY <2>1, <2>4, <2>8, <2>9 DEF len, m
      <4> DEFINE g == f[j]
      <4> HIDE DEF g
      <4>2. f[k] = Fila(l, k, g)
        BY <2>11 DEF g
      <4>3. f[k][i] = <<g[2 * i], IF 2 * i + 1 < m THEN g[2 * i + 1] ELSE g[2 * i]>>
        BY <4>1, <4>2 DEF Fila
      <4> QED BY <4>3 DEF g
    <3>2. p[i + 1] = <<c[2 * i + 1], c[2 * i + 2]>>
      <4>1. i + 1 \in 1..Len(c) \div 2 /\ 2 * (i + 1) - 1 = 2 * i + 1 /\ 2 * (i + 1) = 2 * i + 2
        BY <2>6, <2>8 DEF mp
      <4> QED BY <2>6, <4>1
    <3>3. 2 * i + 2 <= mc /\ mc \in m..m + 1 /\ i \in Nat
      BY <2>7, <2>8
    <3>4. 2 * i \in 0..m - 1 /\ 2 * i + 1 \in 1..m
      BY <2>7, <3>3
    <3>5. f[j][2 * i] = s[2 * i + 1] /\ c[2 * i + 1] = s[2 * i + 1]
      BY <2>4, <2>5, <3>4 DEF m
    <3>6. CASE 2 * i + 1 < m
      <4>1. 2 * i + 1 \in 0..m - 1 /\ 2 * i + 2 \in 1..m /\ (2 * i + 1) + 1 = 2 * i + 2
        BY <2>7, <3>3, <3>6
      <4>2. f[j][2 * i + 1] = s[2 * i + 2] /\ c[2 * i + 2] = s[2 * i + 2]
        BY <2>4, <2>5, <4>1 DEF m
      <4> QED BY <3>1, <3>2, <3>5, <3>6, <4>2
    <3>7. CASE ~(2 * i + 1 < m)
      <4>1. m = 2 * i + 1 /\ mc = m + 1 /\ m + 1 = 2 * i + 2
        BY <2>7, <3>3, <3>4, <3>7
      <4>2. c[2 * i + 2] = s[2 * i + 1]
        BY <2>5, <4>1 DEF m, mc
      <4> QED BY <3>1, <3>2, <3>5, <3>7, <4>2
    <3> QED BY <3>6, <3>7
  <2>13. Bien(k + 1)
    BY <2>1, <2>3, <2>8, <2>9, <2>10, <2>12 DEF Bien
  <2> QED BY <2>13 DEF k
<1>5. T = Nat
  <2>1. T \in SUBSET Nat
    OBVIOUS
  <2> HIDE DEF T
  <2> QED BY <1>3, <1>4, <2>1, Induccion
<1>6. ASSUME NEW k \in 1..n PROVE Bien(k)
  <2>1. k - 1 \in Nat /\ (k - 1) + 1 = k /\ k <= n
    OBVIOUS
  <2>2. k - 1 \in T
    BY <1>5, <2>1
  <2> HIDE DEF Bien
  <2> QED BY <2>1, <2>2
<1> HIDE DEF T
<1> DEFINE a == n - 1
           Cabe(b) == Nodos(len, b) = 1 /\ \A k \in 0..b - 1 : Nodos(len, k) > 1
<1>7. /\ Nodos(len, a) = 1 /\ a \in 0..len /\ f[a][0] = h[n][1]
  <2>1. Bien(n)
    <3>1. n \in 1..n
      OBVIOUS
    <3> HIDE DEF Bien
    <3> QED BY <1>6, <3>1
  <2>2. 1 = Nodos(len, a) /\ 1 \in 1..len - a /\ \A i \in 0..1 - 1 : f[a][i] = h[n][i + 1]
    BY <2>1
  <2> HIDE DEF len
  <2>3. a \in 0..len
    BY <1>1, <2>2
  <2> HIDE DEF a
  <2>4. f[a][0] = h[n][0 + 1] /\ 0 + 1 = 1
    BY <2>2
  <2> QED BY <2>2, <2>3, <2>4
<1>8. ASSUME NEW k \in 0..a - 1 PROVE Nodos(len, k) > 1
  <2>1. k + 1 \in 1..n /\ k + 1 \in 1..n - 1 /\ (k + 1) - 1 = k
    OBVIOUS
  <2>2. Bien(k + 1) /\ Len(h[k + 1]) # 1
    BY <1>6, <2>1
  <2> HIDE DEF len
  <2> QED BY <1>1, <2>1, <2>2
<1>9. ASSUME NEW b \in 0..len, Cabe(b) PROVE b = a
  <2> HIDE DEF len
  <2>1. ~(b < a)
    <3>1. ASSUME b < a PROVE FALSE
      <4>1. b \in 0..a - 1
        BY <3>1
      <4> QED BY <1>8, <1>9, <4>1
    <3> QED BY <3>1
  <2>2. ~(a < b)
    <3>1. ASSUME a < b PROVE FALSE
      <4>1. a \in 0..b - 1
        BY <1>1, <1>7, <3>1
      <4> QED BY <1>7, <1>9, <4>1
    <3> QED BY <3>1
  <2>3. a \in Int /\ b \in Int
    BY <1>1, <1>7
  <2> HIDE DEF a
  <2> QED BY <2>1, <2>2, <2>3
<1>10. Altura(len) = a
  <2>1. a \in 0..len /\ Cabe(a)
    BY <1>7, <1>8
  <2>2. Altura(len) = CHOOSE b \in 0..len : Cabe(b)
    BY DEF Altura
  <2> HIDE DEF Cabe, a, len
  <2> QED BY <1>9, <2>1, <2>2
<1> QED BY <1>2, <1>7, <1>10
-----------------------------------------------------------------------------
(* The fold of a path.                                                     *)

\* The fold of the first i of a path.
Pliegue(p, i, antes) ==
    IF i = 0 THEN << >>
    ELSE IF i = 1 THEN p[1].hash
    ELSE IF p[i].lado = "right" THEN <<antes, p[i].hash>>
    ELSE <<p[i].hash, antes>>

\* f folds each prefix of p up to n.
Pliegues(f, p, n) == f = [i \in 0..n |-> Pliegue(p, i, f[i - 1])]

\* There is such a function for any length.
LEMMA PlieguesExisten ==
    ASSUME NEW p, NEW n \in Nat
    PROVE  \E f : Pliegues(f, p, n)
<1> DEFINE T == {m \in Nat : \E f : Pliegues(f, p, m)}
<1>1. 0 \in T
  <2>1. Pliegues([i \in 0..0 |-> << >>], p, 0)
    BY DEF Pliegues, Pliegue
  <2> QED BY <2>1
<1>2. ASSUME NEW m \in T PROVE m + 1 \in T
  <2>1. PICK f : Pliegues(f, p, m)
    OBVIOUS
  <2> DEFINE w == [i \in 0..m + 1 |-> IF i = m + 1 THEN Pliegue(p, m + 1, f[m]) ELSE f[i]]
  <2>2. ASSUME NEW i \in 0..m + 1 PROVE w[i] = Pliegue(p, i, w[i - 1])
    <3>1. CASE i = m + 1
      <4>1. w[i] = Pliegue(p, m + 1, f[m]) /\ w[i - 1] = f[m]
        BY <3>1
      <4> QED BY <3>1, <4>1
    <3>2. CASE i # m + 1
      <4>1. i \in 0..m /\ w[i] = f[i] /\ (i # 0 => w[i - 1] = f[i - 1])
        BY <3>2
      <4>2. f[i] = Pliegue(p, i, f[i - 1])
        BY <2>1, <4>1 DEF Pliegues
      <4> HIDE DEF w
      <4> QED BY <4>1, <4>2 DEF Pliegue
    <3> QED BY <3>1, <3>2
  <2>3. w = [i \in 0..m + 1 |-> w[i]]
    OBVIOUS
  <2> HIDE DEF w
  <2>4. Pliegues(w, p, m + 1)
    BY <2>2, <2>3 DEF Pliegues
  <2> QED BY <2>4
<1> HIDE DEF T
<1>3. T = Nat
  <2>1. T \in SUBSET Nat
    BY DEF T
  <2> QED BY <1>1, <1>2, <2>1, Induccion
<1> QED BY <1>3 DEF T

\* What the fold of a path is.
LEMMA PlegarDe ==
    ASSUME NEW p, Len(p) \in Nat
    PROVE  \E f : Pliegues(f, p, Len(p)) /\ Plegar(p) = f[Len(p)]
<1> DEFINE paso(h) == [i \in 0..Len(p) |->
                          IF i = 0 THEN << >>
                          ELSE IF i = 1 THEN p[1].hash
                          ELSE IF p[i].lado = "right" THEN <<h[i - 1], p[i].hash>>
                          ELSE <<p[i].hash, h[i - 1]>>]
           hasta == CHOOSE h : h = paso(h)
<1>1. Plegar(p) = hasta[Len(p)]
  BY DEF Plegar
<1>2. ASSUME NEW h PROVE Pliegues(h, p, Len(p)) <=> h = paso(h)
  BY DEF Pliegues, Pliegue
<1>3. PICK f : Pliegues(f, p, Len(p))
  BY PlieguesExisten
<1> HIDE DEF paso
<1>4. \E h : h = paso(h)
  BY <1>2, <1>3
<1>5. hasta = paso(hasta)
  BY <1>4
<1> HIDE DEF hasta
<1> QED BY <1>1, <1>2, <1>5

\* Two folds agree where the paths do.
LEMMA PlieguesIguales ==
    ASSUME NEW p, NEW q, NEW n \in Nat, NEW m \in Nat, n <= m, NEW f, NEW g,
           Pliegues(f, p, n), Pliegues(g, q, m),
           \A i \in 1..n : p[i] = q[i]
    PROVE  f[n] = g[n]
<1> DEFINE T == {i \in Nat : i <= n => f[i] = g[i]}
<1>1. ASSUME NEW i \in 0..n
      PROVE  f[i] = Pliegue(p, i, f[i - 1]) /\ g[i] = Pliegue(q, i, g[i - 1])
  BY DEF Pliegues
<1>2. 0 \in T
  <2>1. f[0] = Pliegue(p, 0, f[0 - 1]) /\ g[0] = Pliegue(q, 0, g[0 - 1])
    BY <1>1
  <2> QED BY <2>1 DEF Pliegue
<1>3. ASSUME NEW i \in T PROVE i + 1 \in T
  <2>1. CASE i + 1 <= n
    <3>1. i + 1 \in 0..n /\ i + 1 \in 1..n /\ (i + 1) - 1 = i /\ f[i] = g[i]
      BY <2>1
    <3>2. f[i + 1] = Pliegue(p, i + 1, f[i]) /\ g[i + 1] = Pliegue(q, i + 1, g[i])
      BY <1>1, <3>1
    <3>3. p[i + 1] = q[i + 1] /\ (i + 1 = 1 => p[1] = q[1])
      BY <3>1
    <3>4. f[i + 1] = g[i + 1]
      BY <3>1, <3>2, <3>3 DEF Pliegue
    <3> QED BY <3>4
  <2>2. CASE ~(i + 1 <= n)
    BY <2>2
  <2> QED BY <2>1, <2>2
<1> HIDE DEF T
<1>4. T = Nat
  <2>1. T \in SUBSET Nat
    BY DEF T
  <2> QED BY <1>2, <1>3, <2>1, Induccion
<1> QED BY <1>4 DEF T

\* The path with nothing, with one and with one more.
LEMMA PlegarVacia == Plegar(<< >>) = << >>
<1> DEFINE p == << >>
<1>1. Len(p) = 0
  OBVIOUS
<1>2. PICK f : Pliegues(f, p, 0) /\ Plegar(p) = f[0]
  <2> HIDE DEF p
  <2> QED BY <1>1, PlegarDe
<1>3. f[0] = << >>
  BY <1>2 DEF Pliegues, Pliegue
<1> QED BY <1>2, <1>3

\* A path of one folds to its hash.
LEMMA PlegarUna ==
    ASSUME NEW x
    PROVE  Plegar(<<x>>) = x.hash
<1> DEFINE p == <<x>>
<1>1. Len(p) = 1 /\ p[1] = x
  OBVIOUS
<1> HIDE DEF p
<1>2. PICK f : Pliegues(f, p, 1) /\ Plegar(p) = f[1]
  <2>1. Len(p) \in Nat
    BY <1>1
  <2>2. \E f : Pliegues(f, p, Len(p)) /\ Plegar(p) = f[Len(p)]
    BY <2>1, PlegarDe
  <2> QED BY <1>1, <2>2
<1>3. f[1] = p[1].hash
  BY <1>2 DEF Pliegues, Pliegue
<1> QED BY <1>1, <1>2, <1>3 DEF p

\* One more hash of a path is joined at the side that it says.
LEMMA PlegarUnaMas ==
    ASSUME NEW p, EsSecuencia(p), Len(p) # 0, NEW x
    PROVE  Plegar(Append(p, x)) = IF x.lado = "right" THEN <<Plegar(p), x.hash>> ELSE <<x.hash, Plegar(p)>>
<1> DEFINE n == Len(p)
           q == Append(p, x)
<1>1. n \in Nat \ {0}
  BY Secuencia
<1>2. Len(q) = n + 1 /\ q[n + 1] = x /\ \A i \in 1..n : p[i] = q[i]
  BY SecuenciaCrece
<1>3. PICK f : Pliegues(f, p, n) /\ Plegar(p) = f[n]
  BY <1>1, PlegarDe
<1> HIDE DEF n, q
<1>4. PICK g : Pliegues(g, q, n + 1) /\ Plegar(q) = g[n + 1]
  BY <1>1, <1>2, PlegarDe
<1>5. f[n] = g[n]
  BY <1>1, <1>2, <1>3, <1>4, PlieguesIguales
<1>6. g[n + 1] = Pliegue(q, n + 1, g[n])
  <2>1. n + 1 \in 0..n + 1 /\ (n + 1) - 1 = n
    BY <1>1
  <2> QED BY <1>4, <2>1 DEF Pliegues
<1>7. g[n + 1] = IF q[n + 1].lado = "right" THEN <<g[n], q[n + 1].hash>> ELSE <<q[n + 1].hash, g[n]>>
  BY <1>1, <1>6 DEF Pliegue
<1> QED BY <1>2, <1>3, <1>4, <1>5, <1>7 DEF q
-----------------------------------------------------------------------------
(* Bytes that are within others.                                           *)

\* The bytes s are in b from the index i on.
Esta(b, i, s) == i + Len(s) <= Len(b) /\ \A k \in 1..Len(s) : b[i + k] = s[k]

\* Two parts, one after the other.
LEMMA EstanJuntos ==
    ASSUME NEW S, NEW s \in Seq(S), NEW t \in Seq(S)
    PROVE  /\ s \o t \in Seq(S) /\ Len(s \o t) = Len(s) + Len(t)
           /\ \A b, i : i \in Nat /\ Len(b) \in Nat /\ Esta(b, i, s \o t)
                        => Esta(b, i, s) /\ Esta(b, i + Len(s), t)
<1> DEFINE m == Len(s)
           n == Len(t)
           u == s \o t
<1>1. m \in Nat /\ n \in Nat
  OBVIOUS
<1>2. u \in Seq(S) /\ Len(u) = m + n
  OBVIOUS
<1>3. /\ \A k \in 1..m : u[k] = s[k]
      /\ \A k \in 1..n : u[m + k] = t[k]
  OBVIOUS
<1> HIDE DEF m, n, u
<1>4. ASSUME NEW b, NEW i, i \in Nat, Len(b) \in Nat, Esta(b, i, u)
      PROVE  Esta(b, i, s) /\ Esta(b, i + m, t)
  <2> DEFINE l == Len(b)
  <2>1. i + (m + n) <= l /\ \A k \in 1..m + n : b[i + k] = u[k]
    BY <1>2, <1>4 DEF Esta
  <2>2. i + m <= l /\ (i + m) + n <= l
    BY <1>1, <1>4, <2>1
  <2>3. ASSUME NEW k \in 1..m PROVE b[i + k] = s[k]
    <3>1. k \in 1..m + n
      BY <1>1
    <3> QED BY <1>3, <2>1, <3>1
  <2>4. ASSUME NEW k \in 1..n PROVE b[(i + m) + k] = t[k]
    <3>1. m + k \in 1..m + n /\ i + (m + k) = (i + m) + k
      BY <1>1, <1>4
    <3>2. b[i + (m + k)] = u[m + k]
      BY <2>1, <3>1
    <3> QED BY <1>3, <3>1, <3>2
  <2> QED BY <2>2, <2>3, <2>4 DEF Esta, m, n
<1> QED BY <1>1, <1>2, <1>4 DEF m, n, u

\* What FlattenSeq has joined after each part.
Unidos(partes) ==
    LET flatten[i \in 1..Len(partes)] ==
            IF i = 1 THEN partes[i] ELSE flatten[i - 1] \o partes[i]
    IN  [i \in 0..Len(partes) |-> IF i = 0 THEN << >> ELSE flatten[i]]

\* f joins the first n parts.
UnidosDe(f, partes, n) == f = [i \in 1..n |-> IF i = 1 THEN partes[i] ELSE f[i - 1] \o partes[i]]

\* There is such a function for any number of them.
LEMMA UnidosExisten ==
    ASSUME NEW partes, NEW n \in Nat
    PROVE  \E f : UnidosDe(f, partes, n)
<1> DEFINE T == {m \in Nat : \E f : UnidosDe(f, partes, m)}
<1>1. 0 \in T
  <2>1. UnidosDe([i \in 1..0 |-> 0], partes, 0)
    BY DEF UnidosDe
  <2> QED BY <2>1
<1>2. ASSUME NEW m \in T PROVE m + 1 \in T
  <2>1. PICK f : UnidosDe(f, partes, m)
    OBVIOUS
  <2> DEFINE x == IF m + 1 = 1 THEN partes[m + 1] ELSE f[m] \o partes[m + 1]
             w == [i \in 1..m + 1 |-> IF i = m + 1 THEN x ELSE f[i]]
  <2>2. ASSUME NEW i \in 1..m + 1 PROVE w[i] = IF i = 1 THEN partes[i] ELSE w[i - 1] \o partes[i]
    <3>1. CASE i = m + 1
      <4> HIDE DEF x
      <4>1. w[i] = x /\ (i # 1 => w[i - 1] = f[m])
        BY <3>1
      <4> HIDE DEF w
      <4> QED BY <3>1, <4>1 DEF x
    <3>2. CASE i # m + 1
      <4> HIDE DEF x
      <4>1. i \in 1..m /\ w[i] = f[i] /\ (i # 1 => w[i - 1] = f[i - 1])
        BY <3>2
      <4>2. f[i] = IF i = 1 THEN partes[i] ELSE f[i - 1] \o partes[i]
        BY <2>1, <4>1 DEF UnidosDe
      <4> HIDE DEF w
      <4> QED BY <4>1, <4>2
    <3> QED BY <3>1, <3>2
  <2>3. w = [i \in 1..m + 1 |-> w[i]]
    OBVIOUS
  <2> HIDE DEF w
  <2>4. UnidosDe(w, partes, m + 1)
    BY <2>2, <2>3 DEF UnidosDe
  <2> QED BY <2>4
<1> HIDE DEF T
<1>3. T = Nat
  <2>1. T \in SUBSET Nat
    BY DEF T
  <2> QED BY <1>1, <1>2, <2>1, Induccion
<1> QED BY <1>3 DEF T

\* Nothing, and at each part the one more; all of them are FlattenSeq.
LEMMA UnidosPaso ==
    ASSUME NEW S, NEW partes \in Seq(Seq(S))
    PROVE  /\ Unidos(partes)[0] = << >> /\ FlattenSeq(partes) = Unidos(partes)[Len(partes)]
           /\ \A i \in 0..Len(partes) : Unidos(partes)[i] \in Seq(S)
           /\ \A i \in 1..Len(partes) : Unidos(partes)[i] = Unidos(partes)[i - 1] \o partes[i]
<1> DEFINE n == Len(partes)
           paso(h) == [i \in 1..Len(partes) |-> IF i = 1 THEN partes[i] ELSE h[i - 1] \o partes[i]]
           flatten == CHOOSE h : h = paso(h)
           u == Unidos(partes)
<1>1. u = [i \in 0..n |-> IF i = 0 THEN << >> ELSE flatten[i]]
  BY DEF Unidos
<1>2. FlattenSeq(partes) = IF n = 0 THEN partes ELSE flatten[n]
  BY DEF FlattenSeq
<1>3. n \in Nat /\ (n = 0 => partes = << >>) /\ \A i \in 1..n : partes[i] \in Seq(S)
  OBVIOUS
<1>4. ASSUME NEW h PROVE UnidosDe(h, partes, n) <=> h = paso(h)
  BY DEF UnidosDe
<1> HIDE DEF n, paso, u
<1>5. \E h : h = paso(h)
  BY <1>3, <1>4, UnidosExisten
<1>6. flatten = paso(flatten)
  BY <1>5
<1> HIDE DEF flatten
<1>7. UnidosDe(flatten, partes, n)
  BY <1>4, <1>6
<1>8. u[0] = << >> /\ FlattenSeq(partes) = u[n]
  BY <1>1, <1>2, <1>3
<1>9. ASSUME NEW i \in 1..n
      PROVE  u[i] = IF i = 1 THEN partes[i] ELSE u[i - 1] \o partes[i]
  <2>1. flatten[i] = IF i = 1 THEN partes[i] ELSE flatten[i - 1] \o partes[i]
    BY <1>7 DEF UnidosDe
  <2>2. u[i] = flatten[i] /\ (i # 1 => u[i - 1] = flatten[i - 1])
    BY <1>1, <1>3
  <2> QED BY <2>1, <2>2
<1> DEFINE Bien(i) == u[i] \in Seq(S) /\ (i # 0 => u[i] = u[i - 1] \o partes[i])
<1>10. Bien(0)
  BY <1>8
<1>11. ASSUME NEW i \in 0..n - 1, Bien(i) PROVE Bien(i + 1)
  <2> DEFINE k == i + 1
             p == partes[k]
             q == u[i]
  <2>1. k \in 1..n /\ k - 1 = i /\ (k = 1 => i = 0)
    BY <1>3
  <2>2. p \in Seq(S) /\ q \in Seq(S)
    BY <1>3, <1>11, <2>1
  <2>3. u[k] = IF k = 1 THEN p ELSE q \o p
    <3> HIDE DEF k
    <3> QED BY <1>9, <2>1 DEF p, q
  <2>4. k = 1 => q = << >>
    BY <1>8, <2>1
  <2> HIDE DEF k, p, q
  <2>5. q \o p \in Seq(S) /\ (q = << >> => q \o p = p)
    BY <2>2
  <2>6. u[k] = q \o p
    BY <2>3, <2>4, <2>5
  <2>7. u[k] \in Seq(S) /\ u[k] = u[k - 1] \o partes[k]
    BY <2>1, <2>5, <2>6 DEF p, q
  <2> QED BY <2>7 DEF k
<1>12. ASSUME NEW i \in 0..n PROVE Bien(i)
  <2> HIDE DEF Bien
  <2> DEFINE T == {k \in 0..n : Bien(k)}
  <2>1. 0 \in T
    BY <1>3, <1>10
  <2>2. \A k \in T : k \in 0..n - 1 => k + 1 \in T
    BY <1>3, <1>11
  <2> HIDE DEF T
  <2>3. i \in T
    BY <1>3, <2>1, <2>2, InduccionHasta
  <2> QED BY <2>3 DEF T
<1>13. ASSUME NEW i \in 0..n PROVE u[i] \in Seq(S)
  BY <1>12
<1>14. ASSUME NEW i \in 1..n PROVE u[i] = u[i - 1] \o partes[i]
  <2>1. i \in 0..n /\ i # 0
    BY <1>3
  <2> QED BY <1>12, <2>1
<1> QED BY <1>8, <1>13, <1>14 DEF n, u

\* The lengths of what is joined add up and grow.
LEMMA UnidosLargo ==
    ASSUME NEW S, NEW partes \in Seq(Seq(S))
    PROVE  /\ Len(Unidos(partes)[0]) = 0
           /\ \A i \in 0..Len(partes) : Len(Unidos(partes)[i]) \in Nat
           /\ \A i \in 1..Len(partes) : Len(Unidos(partes)[i]) = Len(Unidos(partes)[i - 1]) + Len(partes[i])
           /\ \A j \in 0..Len(partes) : \A i \in 0..j : Len(Unidos(partes)[i]) <= Len(Unidos(partes)[j])
<1> DEFINE n == Len(partes)
           u == Unidos(partes)
<1>1. n \in Nat /\ \A i \in 1..n : partes[i] \in Seq(S) /\ Len(partes[i]) \in Nat
  OBVIOUS
<1>2. /\ u[0] = << >>
      /\ \A i \in 0..n : u[i] \in Seq(S)
      /\ \A i \in 1..n : u[i] = u[i - 1] \o partes[i]
  BY UnidosPaso
<1> HIDE DEF n, u
<1>3. ASSUME NEW i \in 0..n PROVE Len(u[i]) \in Nat
  <2> DEFINE q == u[i]
  <2>1. q \in Seq(S)
    BY <1>2
  <2> HIDE DEF q
  <2>2. Len(q) \in Nat
    BY <2>1
  <2> QED BY <2>2 DEF q
<1>4. ASSUME NEW i \in 1..n PROVE Len(u[i]) = Len(u[i - 1]) + Len(partes[i])
  <2> DEFINE q == u[i - 1]
             p == partes[i]
  <2>1. q \in Seq(S) /\ p \in Seq(S) /\ u[i] = q \o p
    <3>1. i - 1 \in 0..n
      BY <1>1
    <3> QED BY <1>1, <1>2, <3>1
  <2> HIDE DEF q, p
  <2>2. Len(q \o p) = Len(q) + Len(p)
    BY <2>1
  <2> QED BY <2>1, <2>2 DEF q, p
<1> DEFINE Bien(j) == \A i \in 0..j : Len(u[i]) <= Len(u[j])
<1>5. Bien(0)
  <2>1. 0 \in 0..n
    BY <1>1
  <2>2. Len(u[0]) \in Nat
    BY <1>3, <2>1
  <2> QED BY <2>2
<1>6. ASSUME NEW j \in 0..n - 1, Bien(j) PROVE Bien(j + 1)
  <2> SUFFICES ASSUME NEW i \in 0..j + 1 PROVE Len(u[i]) <= Len(u[j + 1])
    OBVIOUS
  <2> DEFINE x == Len(u[i])
             y == Len(u[j])
             z == Len(u[j + 1])
             p == Len(partes[j + 1])
  <2>1. j + 1 \in 1..n /\ (j + 1) - 1 = j /\ j \in 0..n /\ j + 1 \in 0..n
    BY <1>1
  <2>2. z = y + p /\ p \in Nat /\ y \in Nat /\ z \in Nat
    BY <1>1, <1>3, <1>4, <2>1
  <2>0. n \in Nat
    BY <1>1
  <2>3. CASE i = j + 1
    <3>1. x = z
      BY <2>3
    <3> HIDE DEF x, y, z, p
    <3>2. x <= z
      BY <2>2, <3>1
    <3> QED BY <3>2 DEF x, z
  <2>4. CASE i # j + 1
    <3>1. i \in 0..j /\ i \in 0..n
      <4> HIDE DEF x, y, z, p, Bien
      <4> QED BY <2>0, <2>4
    <3>2. x <= y /\ x \in Nat
      BY <1>3, <1>6, <3>1
    <3> HIDE DEF x, y, z, p
    <3>3. x <= z
      BY <2>2, <3>2
    <3> QED BY <3>3 DEF x, z
  <2> QED BY <2>3, <2>4
<1>7. ASSUME NEW j \in 0..n PROVE Bien(j)
  <2> HIDE DEF Bien
  <2> DEFINE T == {k \in 0..n : Bien(k)}
  <2>1. 0 \in T
    BY <1>1, <1>5
  <2>2. \A k \in T : k \in 0..n - 1 => k + 1 \in T
    BY <1>1, <1>6
  <2> HIDE DEF T
  <2>3. j \in T
    BY <1>1, <2>1, <2>2, InduccionHasta
  <2> QED BY <2>3 DEF T
<1>8. ASSUME NEW j \in 0..n, NEW i \in 0..j PROVE Len(u[i]) <= Len(u[j])
  BY <1>7
<1>9. Len(u[0]) = 0
  BY <1>2
<1> QED BY <1>3, <1>4, <1>8, <1>9 DEF n, u

\* If the join of some parts is somewhere, each part is there after those before it.
LEMMA EstaCadaParte ==
    ASSUME NEW S, NEW partes \in Seq(Seq(S)), NEW b, Len(b) \in Nat, NEW i \in Nat,
           Esta(b, i, FlattenSeq(partes))
    PROVE  \A k \in 1..Len(partes) : Esta(b, i + Len(Unidos(partes)[k - 1]), partes[k])
<1> DEFINE n == Len(partes)
           u == Unidos(partes)
           T == {j \in Nat : j <= n => Esta(b, i, u[n - j])}
<1>1. n \in Nat /\ \A k \in 1..n : partes[k] \in Seq(S)
  OBVIOUS
<1>2. /\ FlattenSeq(partes) = u[n]
      /\ \A k \in 0..n : u[k] \in Seq(S)
      /\ \A k \in 1..n : u[k] = u[k - 1] \o partes[k]
  BY UnidosPaso
<1> HIDE DEF n, u
<1>3. ASSUME NEW k \in 1..n, Esta(b, i, u[k])
      PROVE  Esta(b, i, u[k - 1]) /\ Esta(b, i + Len(u[k - 1]), partes[k])
  <2> DEFINE q == u[k - 1]
             p == partes[k]
  <2>1. q \in Seq(S) /\ p \in Seq(S) /\ Esta(b, i, q \o p)
    <3>1. k - 1 \in 0..n
      BY <1>1
    <3> QED BY <1>1, <1>2, <1>3, <3>1
  <2> HIDE DEF q, p
  <2>2. Esta(b, i, q) /\ Esta(b, i + Len(q), p)
    BY <2>1, EstanJuntos
  <2> QED BY <2>2 DEF q, p
<1>4. 0 \in T
  <2>1. n - 0 = n
    BY <1>1
  <2> QED BY <1>2, <2>1
<1>5. ASSUME NEW j \in T PROVE j + 1 \in T
  <2> SUFFICES ASSUME j + 1 <= n PROVE Esta(b, i, u[n - (j + 1)])
    OBVIOUS
  <2>1. n - j \in 1..n /\ (n - j) - 1 = n - (j + 1) /\ j <= n
    BY <1>1
  <2>2. Esta(b, i, u[n - j])
    BY <2>1
  <2>3. Esta(b, i, u[(n - j) - 1])
    BY <1>3, <2>1, <2>2
  <2> QED BY <2>1, <2>3
<1>6. T = Nat
  <2>1. T \in SUBSET Nat
    OBVIOUS
  <2> HIDE DEF T
  <2> QED BY <1>4, <1>5, <2>1, Induccion
<1>7. ASSUME NEW k \in 1..n PROVE Esta(b, i + Len(u[k - 1]), partes[k])
  <2>1. n - k \in Nat /\ n - k <= n /\ n - (n - k) = k
    BY <1>1
  <2>2. n - k \in T
    BY <1>6, <2>1
  <2>3. Esta(b, i, u[n - (n - k)])
    BY <2>1, <2>2
  <2> QED BY <1>3, <2>1, <2>3
<1> QED BY <1>7 DEF n, u

-----------------------------------------------------------------------------
(* What is written is read back.                                           *)

\* Digits are whole numbers.
LEMMA DigitosNat == Digitos \subseteq Nat
  BY BaseAssumption DEF Digitos

\* A sequence of digits is one of numbers.
LEMMA SeqDigitos ==
    ASSUME NEW s \in Seq(Digitos)
    PROVE  s \in Seq(Nat) /\ Len(s) \in Nat
<1> DEFINE n == Len(s)
<1>1. n \in Nat /\ s \in [1..n -> Digitos]
  OBVIOUS
<1> HIDE DEF n
<1>2. s \in [1..n -> Nat]
  BY <1>1, DigitosNat
<1>3. s \in Seq(Nat)
  BY <1>1, <1>2
<1> QED BY <1>1, <1>3 DEF n

\* The powers that a compact size looks at.
LEMMA Topes ==
    /\ Tope(2) \in Nat /\ Tope(4) \in Nat /\ Tope(8) \in Nat
    /\ Base <= Tope(2) /\ Tope(2) <= Tope(4) /\ Tope(4) <= Tope(8)
<1>1. 2 \in Nat /\ 4 \in Nat /\ 8 \in Nat /\ 0 \in Nat /\ 1 \in Nat /\ 0 + 1 = 1
  OBVIOUS
<1>2. Tope(0) = 1 /\ Tope(0 + 1) = Base * Tope(0)
  BY <1>1, TopeDe
<1>3. Tope(1) = Base
  BY <1>1, <1>2, BaseAssumption
<1>4. Tope(1) <= Tope(2) /\ Tope(2) <= Tope(4) /\ Tope(4) <= Tope(8)
  BY <1>1, TopeCrece
<1> QED BY <1>1, <1>3, <1>4, TopeDe

\* A marker and the bytes of a number.
LEMMA ConMarca ==
    ASSUME NEW m \in Digitos, NEW n \in Nat \ {0}, NEW v \in 0..Tope(n) - 1
    PROVE  /\ <<m>> \o LeBytes(v, n) \in Seq(Digitos)
           /\ Len(<<m>> \o LeBytes(v, n)) = n + 1 /\ (<<m>> \o LeBytes(v, n))[1] = m
           /\ \A k \in 1..n : (<<m>> \o LeBytes(v, n))[k + 1] = LeBytes(v, n)[k]
<1> DEFINE t == LeBytes(v, n)
           c == <<m>> \o t
<1>1. n \in Nat /\ v \in Nat
  OBVIOUS
<1>2. t \in Seq(Digitos) /\ Len(t) = n
  BY <1>1, LeBytesDe
<1> HIDE DEF t
<1>3. <<m>> \in Seq(Digitos) /\ Len(<<m>>) = 1 /\ <<m>>[1] = m
  OBVIOUS
<1>4. c \in Seq(Digitos) /\ Len(c) = n + 1 /\ c[1] = m
  BY <1>1, <1>2, <1>3
<1>5. \A k \in 1..n : c[k + 1] = t[k]
  BY <1>1, <1>2, <1>3
<1> QED BY <1>4, <1>5 DEF c, t

\* What begins with the marker and the bytes is read as the number.
LEMMA LeerTrasMarca ==
    ASSUME NEW n \in Nat \ {0}, NEW v \in 0..Tope(n) - 1, NEW s \in Seq(Nat), n + 1 <= Len(s),
           \A k \in 1..n : s[k + 1] = LeBytes(v, n)[k]
    PROVE  ParseToU64(n + 1, s) = v
<1> DEFINE t == LeBytes(v, n)
           u == SubSeq(s, 2, n + 1)
           l == Len(s)
<1>1. n \in Nat /\ v \in Nat /\ DeLe(t) = v
  BY DeLeLeBytes
<1>2. t \in Seq(Digitos) /\ Len(t) = n
  BY <1>1, LeBytesDe
<1>3. l \in Nat /\ n + 1 <= l /\ s \in [1..l -> Nat]
  OBVIOUS
<1>4. u = [k \in 1..n |-> s[k + 1]]
  <2>1. 2 \in 1..Len(s) /\ n + 1 \in 1..Len(s) /\ (n + 1) - 2 + 1 = n
    BY <1>1, <1>3
  <2> QED BY <1>1, <2>1
<1>5. \A k \in 1..n : s[k + 1] = t[k]
  OBVIOUS
<1> HIDE DEF t, u
<1>6. t = [k \in 1..n |-> t[k]]
  BY <1>2
<1>7. u = t
  BY <1>4, <1>5, <1>6
<1>8. n + 1 # 1
  BY <1>1
<1> QED BY <1>1, <1>7, <1>8 DEF ParseToU64, u

\* A compact size says in its first byte how long it is, and what it begins with is its number
\* (new, parse_from_byte_array, value).
LEMMA NuevoEs ==
    ASSUME NEW v \in 0..Tope(8) - 1
    PROVE  /\ Nuevo(v) \in Seq(Digitos) /\ Len(Nuevo(v)) \in 1..9
           /\ Largo(Nuevo(v)[1]) = Len(Nuevo(v))
           /\ \A s : /\ s \in Seq(Nat) /\ Len(Nuevo(v)) <= Len(s)
                     /\ \A k \in 1..Len(Nuevo(v)) : s[k] = Nuevo(v)[k]
                     => ParseToU64(Len(Nuevo(v)), s) = v
<1> DEFINE t2 == Tope(2)
           t4 == Tope(4)
           t8 == Tope(8)
           c == Nuevo(v)
           Bien(x) == /\ x \in Seq(Digitos) /\ Len(x) \in 1..9
                      /\ Largo(x[1]) = Len(x)
                      /\ \A s : /\ s \in Seq(Nat) /\ Len(x) <= Len(s)
                                /\ \A k \in 1..Len(x) : s[k] = x[k]
                                => ParseToU64(Len(x), s) = v
<1>1. /\ t2 \in Nat /\ t4 \in Nat /\ t8 \in Nat /\ Base <= t2 /\ t2 <= t4 /\ t4 <= t8
      /\ Base \in Nat /\ Base > 3 /\ v \in 0..t8 - 1
  BY Topes, BaseAssumption
<1>2. /\ Marca2 = Base - 3 /\ Marca4 = Base - 2 /\ Marca8 = Base - 1
      /\ Marca2 \in Digitos /\ Marca4 \in Digitos /\ Marca8 \in Digitos
  BY BaseAssumption DEF Marca2, Marca4, Marca8, Digitos
<1>3. c = CASE v < Marca2            -> <<v>>
            [] v \in Marca2..t2 - 1  -> <<Marca2>> \o LeBytes(v, 2)
            [] v \in t2..t4 - 1      -> <<Marca4>> \o LeBytes(v, 4)
            [] v >= t4               -> <<Marca8>> \o LeBytes(v, 8)
  BY DEF Nuevo
<1>4. Largo(Marca2) = 3 /\ Largo(Marca4) = 5 /\ Largo(Marca8) = 9
  <2>1. Marca2 # Marca4 /\ Marca2 # Marca8 /\ Marca4 # Marca8
    BY <1>1, <1>2
  <2> QED BY <2>1, Zenon DEF Largo
<1>5. ASSUME NEW m \in Digitos, NEW n \in 1..8, v \in 0..Tope(n) - 1, Largo(m) = n + 1
      PROVE  Bien(<<m>> \o LeBytes(v, n))
  <2> DEFINE x == <<m>> \o LeBytes(v, n)
  <2>1. n \in Nat \ {0} /\ n + 1 \in 1..9
    OBVIOUS
  <2>2. x \in Seq(Digitos) /\ Len(x) = n + 1 /\ x[1] = m /\ \A k \in 1..n : x[k + 1] = LeBytes(v, n)[k]
    <3>1. v \in 0..Tope(n) - 1 /\ n \in Nat \ {0}
      BY <1>5, <2>1
    <3> HIDE DEF c, Bien, t2, t4, t8
    <3>2. x \in Seq(Digitos)
      BY <3>1, ConMarca
    <3>3. Len(x) = n + 1
      BY <3>1, ConMarca
    <3>4. x[1] = m
      BY <3>1, ConMarca
    <3>5. \A k \in 1..n : x[k + 1] = LeBytes(v, n)[k]
      BY <3>1, ConMarca
    <3> QED BY <3>2, <3>3, <3>4, <3>5
  <2> HIDE DEF x
  <2>3. ASSUME NEW s, s \in Seq(Nat), n + 1 <= Len(s), \A k \in 1..n + 1 : s[k] = x[k]
        PROVE  ParseToU64(n + 1, s) = v
    <3>1. \A k \in 1..n : k + 1 \in 1..n + 1
      BY <2>1
    <3>2. \A k \in 1..n : s[k + 1] = LeBytes(v, n)[k]
      BY <2>2, <2>3, <3>1
    <3> HIDE DEF Bien, t2, t4, t8, c
    <3> QED BY <1>5, <2>1, <2>3, <3>2, LeerTrasMarca
  <2> QED BY <1>5, <2>1, <2>2, <2>3 DEF x
<1> HIDE DEF t2, t4, t8, c
<1>6. CASE v < Marca2
  <2> DEFINE x == <<v>>
  <2>1. c = x
    <3>1. v < Marca2 /\ ~(v \in Marca2..t2 - 1) /\ ~(v \in t2..t4 - 1) /\ ~(v >= t4)
      BY <1>1, <1>2, <1>6
    <3> QED BY <1>3, <3>1, Zenon
  <2>2. v \in Digitos /\ Largo(v) = 1
    <3>1. v \in Digitos /\ v # Marca2 /\ v # Marca4 /\ v # Marca8
      BY <1>1, <1>2, <1>6 DEF Digitos
    <3> QED BY <3>1, Zenon DEF Largo
  <2>3. x \in Seq(Digitos) /\ Len(x) = 1 /\ x[1] = v
    BY <2>2
  <2> HIDE DEF x
  <2>4. ASSUME NEW s, \A k \in 1..1 : s[k] = x[k] PROVE ParseToU64(1, s) = v
    BY <2>3, <2>4 DEF ParseToU64
  <2>5. Bien(x)
    BY <2>2, <2>3, <2>4
  <2> HIDE DEF Bien
  <2>6. Bien(c)
    BY <2>1, <2>5
  <2> QED BY <2>6 DEF Bien, c
<1>7. CASE v \in Marca2..t2 - 1
  <2>1. c = <<Marca2>> \o LeBytes(v, 2)
    <3>1. ~(v < Marca2) /\ v \in Marca2..t2 - 1 /\ ~(v \in t2..t4 - 1) /\ ~(v >= t4)
      BY <1>1, <1>2, <1>7
    <3> QED BY <1>3, <3>1, Zenon
  <2>2. v \in 0..Tope(2) - 1 /\ 2 \in 1..8 /\ Largo(Marca2) = 2 + 1
    BY <1>1, <1>2, <1>4, <1>7 DEF t2
  <2> HIDE DEF Bien
  <2>3. Bien(c)
    BY <1>2, <1>5, <2>1, <2>2
  <2> QED BY <2>3 DEF Bien, c
<1>8. CASE v \in t2..t4 - 1
  <2>1. c = <<Marca4>> \o LeBytes(v, 4)
    <3>1. ~(v < Marca2) /\ ~(v \in Marca2..t2 - 1) /\ v \in t2..t4 - 1 /\ ~(v >= t4)
      BY <1>1, <1>2, <1>8
    <3> QED BY <1>3, <3>1, Zenon
  <2>2. v \in 0..Tope(4) - 1 /\ 4 \in 1..8 /\ Largo(Marca4) = 4 + 1
    BY <1>1, <1>2, <1>4, <1>8 DEF t4
  <2> HIDE DEF Bien
  <2>3. Bien(c)
    BY <1>2, <1>5, <2>1, <2>2
  <2> QED BY <2>3 DEF Bien, c
<1>9. CASE v >= t4
  <2>1. c = <<Marca8>> \o LeBytes(v, 8)
    <3>1. ~(v < Marca2) /\ ~(v \in Marca2..t2 - 1) /\ ~(v \in t2..t4 - 1) /\ v >= t4
      BY <1>1, <1>2, <1>9
    <3> QED BY <1>3, <3>1, Zenon
  <2>2. v \in 0..Tope(8) - 1 /\ 8 \in 1..8 /\ Largo(Marca8) = 8 + 1
    BY <1>1, <1>2, <1>4, <1>9 DEF t8
  <2> HIDE DEF Bien
  <2>3. Bien(c)
    BY <1>2, <1>5, <2>1, <2>2
  <2> QED BY <2>3 DEF Bien, c
<1> QED BY <1>1, <1>2, <1>6, <1>7, <1>8, <1>9

\* The n bytes after an index.
LEMMA Rebanada ==
    ASSUME NEW S, NEW b \in Seq(S), NEW i \in Nat, NEW n \in Nat, i + n <= Len(b)
    PROVE  /\ SubSeq(b, i + 1, i + n) \in Seq(S) /\ Len(SubSeq(b, i + 1, i + n)) = n
           /\ \A k \in 1..n : SubSeq(b, i + 1, i + n)[k] = b[i + k]
<1> DEFINE s == SubSeq(b, i + 1, i + n)
           l == Len(b)
<1>1. l \in Nat /\ b \in [1..l -> S] /\ i + n <= l
  OBVIOUS
<1>2. s = [k \in 1..n |-> b[(i + 1) + k - 1]]
  <2>1. (i + n) - (i + 1) + 1 = n
    OBVIOUS
  <2> QED BY <2>1
<1>3. \A k \in 1..n : (i + 1) + k - 1 = i + k /\ i + k \in 1..l
  BY <1>1
<1> HIDE DEF s, l
<1>4. ASSUME NEW k \in 1..n PROVE s[k] = b[i + k] /\ s[k] \in S
  BY <1>1, <1>2, <1>3
<1>5. s \in [1..n -> S]
  BY <1>2, <1>4
<1>6. s \in Seq(S) /\ Len(s) = n
  BY <1>5
<1> QED BY <1>4, <1>6 DEF s

\* From where a compact size is, its number is read if there are bytes enough to look at.
LEMMA LeerNumeroEs ==
    ASSUME NEW b \in Seq(Nat), NEW i \in Nat, NEW v \in 0..Tope(8) - 1, Esta(b, i, Nuevo(v))
    PROVE  LeerNumero(b, i) = IF i + 10 <= Len(b) THEN [valor |-> v, indice |-> i + Len(Nuevo(v))]
                              ELSE [valor |-> 0, indice |-> Fuera]
<1> DEFINE c == Nuevo(v)
           l == Len(b)
           s == SubSeq(b, i + 1, i + 10)
<1>1. l \in Nat /\ b \in [1..l -> Nat]
  OBVIOUS
<1>2. /\ c \in Seq(Digitos) /\ Len(c) \in 1..9 /\ Largo(c[1]) = Len(c)
      /\ \A z : /\ z \in Seq(Nat) /\ Len(c) <= Len(z)
                /\ \A k \in 1..Len(c) : z[k] = c[k]
                => ParseToU64(Len(c), z) = v
  BY NuevoEs
<1>3. Esta(b, i, c)
  OBVIOUS
<1>4. c = Nuevo(v)
  OBVIOUS
<1> HIDE DEF c
<1>5. CASE i + 10 <= l
  <2>1. s \in Seq(Nat) /\ Len(s) = 10 /\ \A k \in 1..10 : s[k] = b[i + k]
    <3>1. 10 \in Nat
      OBVIOUS
    <3> QED BY <1>5, <3>1, Rebanada
  <2>2. \A k \in 1..Len(c) : s[k] = c[k]
    <3> DEFINE n == Len(c)
    <3>0. n \in 1..9
      BY <1>2
    <3> HIDE DEF n
    <3>1. \A k \in 1..n : k \in 1..10
      BY <3>0
    <3> HIDE DEF s
    <3> QED BY <1>3, <2>1, <3>1 DEF Esta, n
  <2> HIDE DEF s
  <2>3. Largo(s[1]) = Len(c) /\ ParseToU64(Len(c), s) = v
    <3> DEFINE n == Len(c)
    <3>0. n \in 1..9
      BY <1>2
    <3> HIDE DEF n
    <3>2. 1 \in 1..n /\ n <= 10
      BY <3>0
    <3>1. 1 \in 1..Len(c) /\ Len(c) <= Len(s)
      BY <2>1, <3>2 DEF n
    <3> QED BY <1>2, <2>1, <2>2, <3>1
  <2>4. Valor(c) = v
    <3>1. c \in Seq(Nat) /\ Len(c) <= Len(c)
      BY <1>2, SeqDigitos
    <3> QED BY <1>2, <3>1 DEF Valor
  <2>5. ParseFromByteArray(s) = [numero |-> c, bytes |-> Len(c)]
    BY <1>4, <2>3 DEF ParseFromByteArray
  <2>6. Pasar(b, i, Mirada) # Fuera
    BY <1>1, <1>5 DEF Pasar, Mirada, Fuera
  <2>7. LeerNumero(b, i) = [valor |-> Valor(c), indice |-> i + Len(c)]
    <3> DEFINE lectura == ParseFromByteArray(s)
    <3>1. LeerNumero(b, i) = [valor |-> Valor(lectura.numero), indice |-> i + lectura.bytes]
      BY <2>6 DEF LeerNumero, s, Mirada
    <3>2. lectura.numero = c /\ lectura.bytes = Len(c)
      BY <2>5
    <3> HIDE DEF lectura
    <3> QED BY <3>1, <3>2
  <2> QED BY <1>4, <1>5, <2>4, <2>7
<1>6. CASE ~(i + 10 <= l)
  <2>1. Pasar(b, i, Mirada) = Fuera
    BY <1>1, <1>6 DEF Pasar, Mirada
  <2> QED BY <1>6, <2>1 DEF LeerNumero
<1> QED BY <1>5, <1>6
-----------------------------------------------------------------------------
(* The numbers that are read.                                              *)

\* An index of the bytes b, or none.
Indices(b) == {Fuera} \cup 0..Len(b)

\* An index that is moved stays among the bytes, or is none.
LEMMA PasarDe ==
    ASSUME NEW b, Len(b) \in Nat, NEW i \in Indices(b), NEW n \in Nat
    PROVE  Pasar(b, i, n) \in Indices(b)
  BY DEF Pasar, Indices, Fuera

\* A compact size has at most nine bytes, and a value.
LEMMA NuevoDe ==
    ASSUME NEW v \in Nat
    PROVE  Nuevo(v) \in Seq(Nat) /\ Len(Nuevo(v)) \in 1..9
<1>1. ASSUME NEW m \in Nat, NEW n \in 1..8
      PROVE  <<m>> \o LeBytes(v, n) \in Seq(Nat) /\ Len(<<m>> \o LeBytes(v, n)) \in 1..9
  <2> DEFINE s == LeBytes(v, n)
  <2>1. s \in Seq(Nat) /\ Len(s) = n
    <3>1. s \in Seq(Digitos) /\ Len(s) = n
      BY LeBytesDe
    <3> QED BY <3>1, SeqDigitos
  <2> HIDE DEF s
  <2>2. <<m>> \in Seq(Nat) /\ Len(<<m>>) = 1
    OBVIOUS
  <2>3. <<m>> \o s \in Seq(Nat) /\ Len(<<m>> \o s) = 1 + n
    BY <2>1, <2>2
  <2> QED BY <2>3 DEF s
<1>2. <<v>> \in Seq(Nat) /\ Len(<<v>>) \in 1..9
  OBVIOUS
<1>3. Marca2 \in Nat /\ Marca4 \in Nat /\ Marca8 \in Nat
  BY BaseAssumption DEF Marca2, Marca4, Marca8
<1> DEFINE c2 == Tope(2)
           c4 == Tope(4)
<1>4. c2 \in Nat /\ c4 \in Nat
  BY Topes
<1>5. Nuevo(v) = CASE v < Marca2            -> <<v>>
                   [] v \in Marca2..c2 - 1  -> <<Marca2>> \o LeBytes(v, 2)
                   [] v \in c2..c4 - 1      -> <<Marca4>> \o LeBytes(v, 4)
                   [] v >= c4               -> <<Marca8>> \o LeBytes(v, 8)
  BY DEF Nuevo
<1> HIDE DEF c2, c4
<1>6. v < Marca2 \/ v \in Marca2..c2 - 1 \/ v \in c2..c4 - 1 \/ v >= c4
  BY <1>3, <1>4
<1>7. Nuevo(v) \in {<<v>>, <<Marca2>> \o LeBytes(v, 2), <<Marca4>> \o LeBytes(v, 4), <<Marca8>> \o LeBytes(v, 8)}
  BY <1>5, <1>6, Zenon
<1>8. /\ 2 \in 1..8 /\ 4 \in 1..8 /\ 8 \in 1..8
  OBVIOUS
<1>9. /\ <<Marca2>> \o LeBytes(v, 2) \in Seq(Nat) /\ Len(<<Marca2>> \o LeBytes(v, 2)) \in 1..9
      /\ <<Marca4>> \o LeBytes(v, 4) \in Seq(Nat) /\ Len(<<Marca4>> \o LeBytes(v, 4)) \in 1..9
      /\ <<Marca8>> \o LeBytes(v, 8) \in Seq(Nat) /\ Len(<<Marca8>> \o LeBytes(v, 8)) \in 1..9
  BY <1>1, <1>3, <1>8, Zenon
<1> QED BY <1>2, <1>7, <1>9, Zenon

\* The value of a number of at most nine bytes.
LEMMA ParseDe ==
    ASSUME NEW b \in Seq(Nat), NEW n \in 1..9, n <= Len(b)
    PROVE  ParseToU64(n, b) \in Nat
<1>1. CASE n = 1
  <2>1. b[1] \in Nat
    OBVIOUS
  <2> QED BY <1>1, <2>1 DEF ParseToU64
<1>2. CASE n # 1
  <2> DEFINE s == SubSeq(b, 2, n)
  <2>1. s \in Seq(Nat) /\ Len(s) = n - 1
    BY <1>2
  <2> HIDE DEF s
  <2>2. DeLe(s) \in Nat
    BY <2>1, DeLeDe
  <2> QED BY <1>2, <2>2 DEF ParseToU64, s
<1> QED BY <1>1, <1>2

\* A byte says that the number takes one, three, five or nine of them.
LEMMA LargoDe == ASSUME NEW x PROVE Largo(x) \in {1, 3, 5, 9}
  BY Zenon DEF Largo

\* What is read from an index inside of the bytes leaves it inside.
LEMMA LeerNumeroDe ==
    ASSUME NEW b \in Seq(Nat), NEW i \in Indices(b)
    PROVE  LeerNumero(b, i).valor \in Nat /\ LeerNumero(b, i).indice \in Indices(b)
<1>1. CASE Pasar(b, i, Mirada) = Fuera
  <2>1. LeerNumero(b, i) = [valor |-> 0, indice |-> Fuera]
    BY <1>1 DEF LeerNumero
  <2> QED BY <2>1 DEF Indices
<1>2. CASE Pasar(b, i, Mirada) # Fuera
  <2>1. i \in 0..Len(b) /\ i + 10 <= Len(b) /\ Len(b) \in Nat
    BY <1>2 DEF Pasar, Indices, Mirada, Fuera
  <2> DEFINE s == SubSeq(b, i + 1, i + 10)
             n == Largo(s[1])
             v == ParseToU64(n, s)
             c == Nuevo(v)
  <2>2. s \in Seq(Nat) /\ Len(s) = 10
    BY <2>1
  <2>3. LeerNumero(b, i) = [valor |-> Valor(c), indice |-> i + n]
    BY <1>2 DEF LeerNumero, ParseFromByteArray, Mirada
  <2> HIDE DEF s
  <2>4. n \in {1, 3, 5, 9}
    BY LargoDe
  <2> HIDE DEF n
  <2>5. v \in Nat
    <3>1. n \in 1..9 /\ n <= Len(s)
      BY <2>2, <2>4
    <3> QED BY <2>2, <3>1, ParseDe
  <2> HIDE DEF v
  <2>6. c \in Seq(Nat) /\ Len(c) \in 1..9
    BY <2>5, NuevoDe
  <2> HIDE DEF c
  <2>7. Valor(c) \in Nat
    <3>1. Len(c) <= Len(c)
      BY <2>6
    <3>2. ParseToU64(Len(c), c) \in Nat
      BY <2>6, <3>1, ParseDe
    <3> QED BY <3>2 DEF Valor
  <2>8. i + n \in Indices(b)
    BY <2>1, <2>4 DEF Indices
  <2> QED BY <2>3, <2>7, <2>8
<1> QED BY <1>1, <1>2

\* So does the index after a script,
LEMMA LeerScriptDe ==
    ASSUME NEW b \in Seq(Nat), NEW i \in Indices(b), NEW antes \in Nat, NEW despues \in Nat
    PROVE  LeerScript(b, i, antes, despues).indice \in Indices(b)
<1> DEFINE j == Pasar(b, i, antes)
           largo == LeerNumero(b, j)
           fin == Pasar(b, largo.indice, largo.valor)
<1>1. LeerScript(b, i, antes, despues).indice = Pasar(b, fin, despues)
  BY DEF LeerScript
<1>2. Len(b) \in Nat
  OBVIOUS
<1>3. j \in Indices(b)
  BY <1>2, PasarDe
<1> HIDE DEF j
<1>4. largo.valor \in Nat /\ largo.indice \in Indices(b)
  BY <1>3, LeerNumeroDe
<1> HIDE DEF largo
<1>5. fin \in Indices(b)
  BY <1>2, <1>4, PasarDe
<1> HIDE DEF fin
<1>6. Pasar(b, fin, despues) \in Indices(b)
  BY <1>2, <1>5, PasarDe
<1> QED BY <1>1, <1>6

\* What has been read of the scripts after one more.
TrasScript(b, leido0, antes, despues) ==
    LET uno == LeerScript(b, leido0.indice, antes, despues)
    IN  [scripts |-> Append(leido0.scripts, uno.script), indice |-> uno.indice]

\* f is what has been read after each of n scripts.
Lecturas(f, b, i, antes, despues, n) ==
    f = [k \in 0..n |-> IF k = 0 THEN [scripts |-> << >>, indice |-> i]
                        ELSE TrasScript(b, f[k - 1], antes, despues)]

\* The recursion over the scripts has a value for any number of them.
LEMMA LecturasExisten ==
    ASSUME NEW b, NEW i, NEW antes, NEW despues, NEW n \in Nat
    PROVE  \E f : Lecturas(f, b, i, antes, despues, n)
<1> DEFINE T == {m \in Nat : \E f : Lecturas(f, b, i, antes, despues, m)}
           ini == [scripts |-> << >>, indice |-> i]
<1>1. 0 \in T
  <2>1. Lecturas([k \in 0..0 |-> ini], b, i, antes, despues, 0)
    BY DEF Lecturas
  <2> QED BY <2>1
<1>2. ASSUME NEW m \in T PROVE m + 1 \in T
  <2>1. PICK f : Lecturas(f, b, i, antes, despues, m)
    OBVIOUS
  <2> DEFINE x == TrasScript(b, f[m], antes, despues)
             w == [k \in 0..m + 1 |-> IF k = m + 1 THEN x ELSE f[k]]
  <2>2. ASSUME NEW k \in 0..m + 1
        PROVE  w[k] = IF k = 0 THEN ini ELSE TrasScript(b, w[k - 1], antes, despues)
    <3>1. CASE k = m + 1
      <4> HIDE DEF x, ini
      <4>1. w[k] = x /\ w[k - 1] = f[m] /\ k # 0
        BY <3>1
      <4> HIDE DEF w
      <4> QED BY <4>1 DEF x
    <3>2. CASE k # m + 1
      <4> HIDE DEF x
      <4>1. k \in 0..m /\ w[k] = f[k] /\ (k # 0 => w[k - 1] = f[k - 1])
        BY <3>2
      <4>2. f[k] = IF k = 0 THEN ini ELSE TrasScript(b, f[k - 1], antes, despues)
        BY <2>1, <4>1 DEF Lecturas
      <4> HIDE DEF w, ini
      <4> QED BY <4>1, <4>2
    <3> QED BY <3>1, <3>2
  <2>3. w = [k \in 0..m + 1 |-> w[k]]
    OBVIOUS
  <2> HIDE DEF w, x
  <2>4. Lecturas(w, b, i, antes, despues, m + 1)
    BY <2>2, <2>3 DEF Lecturas
  <2> QED BY <2>4
<1> HIDE DEF T
<1>3. T = Nat
  <2>1. T \in SUBSET Nat
    BY DEF T
  <2> QED BY <1>1, <1>2, <2>1, Induccion
<1> QED BY <1>3 DEF T

\* after the list of scripts,
LEMMA LeerScriptsDe ==
    ASSUME NEW b \in Seq(Nat), NEW i \in Indices(b), NEW antes \in Nat, NEW despues \in Nat
    PROVE  LeerScripts(b, i, antes, despues).indice \in Indices(b)
<1> DEFINE cuantos == LeerNumero(b, i)
           n == cuantos.valor
           paso(h) == [k \in 0..cuantos.valor |->
                        IF k = 0 THEN [scripts |-> << >>, indice |-> cuantos.indice]
                        ELSE LET uno == LeerScript(b, h[k - 1].indice, antes, despues)
                             IN  [scripts |-> Append(h[k - 1].scripts, uno.script), indice |-> uno.indice]]
           hasta == CHOOSE h : h = paso(h)
<1>1. LeerScripts(b, i, antes, despues) = hasta[n]
  BY DEF LeerScripts
<1>2. ASSUME NEW h PROVE Lecturas(h, b, cuantos.indice, antes, despues, n) <=> h = paso(h)
  BY DEF Lecturas, TrasScript
<1>3. n \in Nat /\ cuantos.indice \in Indices(b)
  BY LeerNumeroDe
<1> HIDE DEF cuantos, n, paso
<1>4. \E f : Lecturas(f, b, cuantos.indice, antes, despues, n)
  BY <1>3, LecturasExisten
<1>5. \E h : h = paso(h)
  BY <1>2, <1>4
<1>6. hasta = paso(hasta)
  BY <1>5
<1> HIDE DEF hasta
<1>7. Lecturas(hasta, b, cuantos.indice, antes, despues, n)
  BY <1>2, <1>6
<1> DEFINE T == {k \in Nat : k <= n => hasta[k].indice \in Indices(b)}
<1>8. 0 \in T
  <2>1. hasta[0] = [scripts |-> << >>, indice |-> cuantos.indice]
    BY <1>3, <1>7 DEF Lecturas
  <2> QED BY <1>3, <2>1
<1>9. ASSUME NEW k \in T PROVE k + 1 \in T
  <2> SUFFICES ASSUME k + 1 <= n PROVE hasta[k + 1].indice \in Indices(b)
    OBVIOUS
  <2>1. k + 1 \in 0..n /\ k + 1 # 0 /\ (k + 1) - 1 = k /\ hasta[k].indice \in Indices(b)
    BY <1>3
  <2>2. hasta[k + 1] = TrasScript(b, hasta[k], antes, despues)
    BY <1>7, <2>1 DEF Lecturas
  <2> DEFINE uno == LeerScript(b, hasta[k].indice, antes, despues)
  <2>3. uno.indice \in Indices(b)
    BY <2>1, LeerScriptDe
  <2>4. hasta[k + 1].indice = uno.indice
    BY <2>2 DEF TrasScript
  <2> QED BY <2>3, <2>4
<1>10. n \in T
  <2>1. T \in SUBSET Nat
    OBVIOUS
  <2> HIDE DEF T
  <2>2. T = Nat
    BY <1>8, <1>9, <2>1, Induccion
  <2> QED BY <1>3, <2>2
<1> QED BY <1>1, <1>10

\* and after a transaction.
LEMMA FromBytesDe ==
    ASSUME NEW b \in Seq(Nat), NEW i \in Indices(b)
    PROVE  FromBytes(b, i).indice \in Indices(b)
<1> DEFINE j == Pasar(b, i, 4)
           e == LeerScripts(b, j, 36, 4)
           f == LeerScripts(b, e.indice, 8, 0)
<1>1. FromBytes(b, i).indice = Pasar(b, f.indice, 4)
  BY DEF FromBytes
<1>2. Len(b) \in Nat
  OBVIOUS
<1>3. j \in Indices(b)
  BY <1>2, PasarDe
<1> HIDE DEF j
<1>4. e.indice \in Indices(b)
  BY <1>3, LeerScriptsDe
<1> HIDE DEF e
<1>5. f.indice \in Indices(b)
  BY <1>4, LeerScriptsDe
<1> HIDE DEF f
<1>6. Pasar(b, f.indice, 4) \in Indices(b)
  BY <1>2, <1>5, PasarDe
<1> QED BY <1>1, <1>6
-----------------------------------------------------------------------------
(* What is written of a block is read. *)

\* What the recursion over the scripts gives.
LEMMA LeerScriptsEs ==
    ASSUME NEW b, NEW i, NEW antes, NEW despues, LeerNumero(b, i).valor \in Nat
    PROVE  \E f : /\ Lecturas(f, b, LeerNumero(b, i).indice, antes, despues, LeerNumero(b, i).valor)
                  /\ LeerScripts(b, i, antes, despues) = f[LeerNumero(b, i).valor]
<1> DEFINE cuantos == LeerNumero(b, i)
           n == cuantos.valor
           paso(h) == [k \in 0..cuantos.valor |->
                        IF k = 0 THEN [scripts |-> << >>, indice |-> cuantos.indice]
                        ELSE LET uno == LeerScript(b, h[k - 1].indice, antes, despues)
                             IN  [scripts |-> Append(h[k - 1].scripts, uno.script), indice |-> uno.indice]]
           hasta == CHOOSE h : h = paso(h)
<1>1. LeerScripts(b, i, antes, despues) = hasta[n]
  BY DEF LeerScripts
<1>2. ASSUME NEW h PROVE Lecturas(h, b, cuantos.indice, antes, despues, n) <=> h = paso(h)
  BY DEF Lecturas, TrasScript
<1>3. n \in Nat
  OBVIOUS
<1> HIDE DEF cuantos, n, paso
<1>4. \E f : Lecturas(f, b, cuantos.indice, antes, despues, n)
  BY <1>3, LecturasExisten
<1>5. \E h : h = paso(h)
  BY <1>2, <1>4
<1>6. hasta = paso(hasta)
  BY <1>5
<1> HIDE DEF hasta
<1>7. Lecturas(hasta, b, cuantos.indice, antes, despues, n)
  BY <1>2, <1>6
<1> QED BY <1>1, <1>7 DEF cuantos, n

\* Zeros.
LEMMA RellenoDe ==
    ASSUME NEW n \in Nat
    PROVE  Relleno(n) \in Seq(Digitos) /\ Len(Relleno(n)) = n
<1> DEFINE s == Relleno(n)
<1>1. s = [i \in 1..n |-> 0] /\ 0 \in Digitos
  BY BaseAssumption DEF Relleno, Digitos
<1> HIDE DEF s
<1>2. s \in [1..n -> Digitos]
  BY <1>1
<1>3. s \in Seq(Digitos) /\ Len(s) = n
  BY <1>2
<1> QED BY <1>3 DEF s

\* A script with what goes before and after it.
UnScript(c, antes, despues) == Relleno(antes) \o Nuevo(Len(c)) \o c \o Relleno(despues)

\* The layout of a script.
LEMMA UnScriptEs ==
    ASSUME NEW c \in Cortas(Digitos), NEW antes \in Nat, NEW despues \in Nat
    PROVE  /\ c \in Seq(Digitos) /\ Len(c) \in 0..Tope(8) - 1 /\ Len(Nuevo(Len(c))) \in 1..9
           /\ UnScript(c, antes, despues) \in Seq(Digitos)
           /\ Len(UnScript(c, antes, despues)) = antes + Len(Nuevo(Len(c))) + Len(c) + despues
           /\ \A b, i : i \in Nat /\ Len(b) \in Nat /\ Esta(b, i, UnScript(c, antes, despues))
                        => /\ Esta(b, i + antes, Nuevo(Len(c)))
                           /\ Esta(b, i + antes + Len(Nuevo(Len(c))), c)
                           /\ i + Len(UnScript(c, antes, despues)) <= Len(b)
<1> DEFINE v == Len(c)
           m == Nuevo(v)
           r == Relleno(antes)
           q == Relleno(despues)
           x == r \o m
           y == x \o c
           z == y \o q
<1>1. c \in Seq(Digitos) /\ v < Tope(8)
  BY DEF Cortas
<1>2. v \in 0..Tope(8) - 1
  <2>1. v \in Nat
    BY <1>1
  <2> HIDE DEF v
  <2> QED BY <1>1, <2>1, Topes
<1>3. m \in Seq(Digitos) /\ Len(m) \in 1..9
  BY <1>2, NuevoEs
<1>4. r \in Seq(Digitos) /\ Len(r) = antes /\ q \in Seq(Digitos) /\ Len(q) = despues
  BY RellenoDe
<1> HIDE DEF m, r, q
<1>5. /\ x \in Seq(Digitos) /\ Len(x) = antes + Len(m)
      /\ \A b, i : i \in Nat /\ Len(b) \in Nat /\ Esta(b, i, x) => Esta(b, i, r) /\ Esta(b, i + antes, m)
  BY <1>3, <1>4, EstanJuntos
<1> HIDE DEF x
<1>6. /\ y \in Seq(Digitos) /\ Len(y) = Len(x) + v
      /\ \A b, i : i \in Nat /\ Len(b) \in Nat /\ Esta(b, i, y) => Esta(b, i, x) /\ Esta(b, i + Len(x), c)
  BY <1>1, <1>5, EstanJuntos
<1> HIDE DEF y
<1>7. /\ z \in Seq(Digitos) /\ Len(z) = Len(y) + despues
      /\ \A b, i : i \in Nat /\ Len(b) \in Nat /\ Esta(b, i, z) => Esta(b, i, y)
  BY <1>4, <1>6, EstanJuntos
<1> HIDE DEF z, v
<1>8. Len(z) = antes + Len(m) + v + despues
  BY <1>5, <1>6, <1>7
<1>9. ASSUME NEW b, NEW i, i \in Nat, Len(b) \in Nat, Esta(b, i, z)
      PROVE  Esta(b, i + antes, m) /\ Esta(b, i + antes + Len(m), c) /\ i + Len(z) <= Len(b)
  <2>1. i + Len(x) = i + antes + Len(m)
    <3> DEFINE k == Len(m)
    <3>1. k \in Nat
      BY <1>3
    <3> HIDE DEF k
    <3>2. i + (antes + k) = i + antes + k
      BY <1>9, <3>1
    <3> QED BY <1>5, <3>2 DEF k
  <2>2. Esta(b, i, x) /\ Esta(b, i + Len(x), c)
    BY <1>6, <1>7, <1>9
  <2>3. i + Len(z) <= Len(b)
    BY <1>9 DEF Esta
  <2> QED BY <1>5, <1>9, <2>1, <2>2, <2>3
<1>10. UnScript(c, antes, despues) = z
  BY DEF UnScript, z, y, x, r, m, q, v
<1> QED BY <1>1, <1>2, <1>3, <1>7, <1>8, <1>9, <1>10 DEF m, v

\* A slice that ends inside.
LEMMA PasarDentro ==
    ASSUME NEW b, Len(b) \in Nat, NEW i \in Nat, NEW n \in Nat
    PROVE  Pasar(b, i, n) = IF i + n <= Len(b) THEN i + n ELSE Fuera
  BY DEF Pasar, Fuera

\* From no index nothing is read.
LEMMA SinIndice ==
    ASSUME NEW b, NEW antes, NEW despues
    PROVE  /\ Pasar(b, Fuera, antes) = Fuera
           /\ LeerNumero(b, Fuera) = [valor |-> 0, indice |-> Fuera]
           /\ LeerScript(b, Fuera, antes, despues).indice = Fuera
<1>1. \A n : Pasar(b, Fuera, n) = Fuera
  BY DEF Pasar
<1>2. LeerNumero(b, Fuera) = [valor |-> 0, indice |-> Fuera]
  BY <1>1 DEF LeerNumero
<1>3. LeerScript(b, Fuera, antes, despues).indice = Pasar(b, Pasar(b, Fuera, 0), despues)
  BY <1>1, <1>2 DEF LeerScript
<1> QED BY <1>1, <1>2, <1>3

\* A script is read if there are bytes enough to look at for its length.
LEMMA LeerScriptEs ==
    ASSUME NEW b \in Seq(Nat), NEW i \in Nat, NEW c \in Cortas(Digitos), NEW antes \in Nat, NEW despues \in Nat,
           Esta(b, i, UnScript(c, antes, despues))
    PROVE  IF i + antes + 10 <= Len(b)
           THEN LeerScript(b, i, antes, despues) = [script |-> c, indice |-> i + Len(UnScript(c, antes, despues))]
           ELSE LeerScript(b, i, antes, despues).indice = Fuera
<1> DEFINE v == Len(c)
           m == Nuevo(v)
           u == UnScript(c, antes, despues)
           l == Len(b)
           j == i + antes
           k == j + Len(m)
           largo == LeerNumero(b, j)
           fin == Pasar(b, largo.indice, largo.valor)
<1>0. l \in Nat
  OBVIOUS
<1>1. /\ c \in Seq(Digitos) /\ v \in 0..Tope(8) - 1 /\ Len(m) \in 1..9
      /\ Len(u) = antes + Len(m) + v + despues
      /\ Esta(b, j, m) /\ Esta(b, k, c) /\ i + Len(u) <= l
  BY <1>0, UnScriptEs
<1>2. v \in Nat /\ j \in Nat /\ k \in Nat
  <2> DEFINE lm == Len(m)
  <2>1. lm \in 1..9
    BY <1>1
  <2> HIDE DEF lm
  <2>2. j + lm \in Nat
    BY <2>1
  <2> QED BY <1>1, <2>2 DEF lm
<1>3. largo = IF j + 10 <= l THEN [valor |-> v, indice |-> k] ELSE [valor |-> 0, indice |-> Fuera]
  BY <1>1, <1>2, LeerNumeroEs
<1>4. Pasar(b, i, antes) = j
  <2>1. i + antes <= l
    <3> DEFINE lm == Len(m)
    <3>1. i + (antes + lm + v + despues) <= l /\ lm \in Nat
      BY <1>1
    <3> HIDE DEF lm, v, l, u
    <3> QED BY <1>0, <1>2, <3>1
  <2> QED BY <1>0, <2>1, PasarDentro
<1>5. LeerScript(b, i, antes, despues) = [script |-> IF fin = Fuera THEN << >> ELSE SubSeq(b, largo.indice + 1, fin),
                                          indice |-> Pasar(b, fin, despues)]
  BY <1>4 DEF LeerScript
<1> HIDE DEF largo, fin
<1>6. CASE j + 10 <= l
  <2>1. k + v <= l /\ k + v + despues <= l /\ k + v + despues = i + Len(u) /\ k + v \in Nat
    <3> DEFINE lm == Len(m)
               lu == Len(u)
    <3>1. lu = antes + lm + v + despues /\ i + lu <= l /\ lm \in 1..9 /\ k = i + antes + lm
      BY <1>1
    <3> HIDE DEF lm, lu, v, l, u, k, j
    <3>2. lm \in Nat
      BY <3>1
    <3>3. k + v + despues = i + lu /\ k + v \in Nat /\ k + v <= l
      BY <1>0, <1>2, <3>1, <3>2
    <3> QED BY <3>1, <3>3 DEF lu
  <2>2. fin = k + v
    <3>1. fin = Pasar(b, k, v)
      BY <1>3, <1>6 DEF fin
    <3> QED BY <1>0, <1>2, <2>1, <3>1, PasarDentro
  <2>3. SubSeq(b, k + 1, k + v) = c
    <3> DEFINE s == SubSeq(b, k + 1, k + v)
    <3>1. s \in Seq(Nat) /\ Len(s) = v /\ \A n \in 1..v : s[n] = b[k + n]
      <4>1. b \in Seq(Nat) /\ k \in Nat /\ v \in Nat /\ k + v <= Len(b)
        BY <1>2, <2>1
      <4> HIDE DEF k, v
      <4> QED BY <4>1, Rebanada
    <3>2. \A n \in 1..v : b[k + n] = c[n]
      BY <1>1 DEF Esta
    <3> HIDE DEF s
    <3>3. s = [n \in 1..v |-> s[n]] /\ c = [n \in 1..v |-> c[n]]
      <4>1. s \in Seq(Nat) /\ Len(s) = v
        BY <3>1
      <4>2. s = [n \in 1..v |-> s[n]]
        <5> HIDE DEF v
        <5> QED BY <4>1
      <4>3. c \in Seq(Digitos)
        BY DEF Cortas
      <4>4. c = [n \in 1..v |-> c[n]]
        BY <4>3
      <4> QED BY <4>2, <4>4
    <3> HIDE DEF k, v
    <3>4. \A n \in 1..v : s[n] = c[n]
      BY <3>1, <3>2
    <3>5. s = c
      BY <3>3, <3>4
    <3> QED BY <3>5 DEF s
  <2>4. Pasar(b, fin, despues) = i + Len(u)
    <3> HIDE DEF k, v, u, l
    <3>1. Pasar(b, k + v, despues) = k + v + despues
      BY <1>0, <2>1, PasarDentro DEF l
    <3> QED BY <2>1, <2>2, <3>1
  <2>5. fin # Fuera /\ largo.indice = k
    <3> HIDE DEF k, v, u, l
    <3> QED BY <1>3, <1>6, <2>1, <2>2 DEF Fuera
  <2> HIDE DEF k, v, u, l
  <2> QED BY <1>5, <1>6, <2>2, <2>3, <2>4, <2>5 DEF u, l
<1>7. CASE ~(j + 10 <= l)
  <2>1. fin = Fuera
    BY <1>3, <1>7, SinIndice DEF fin
  <2>2. LeerScript(b, i, antes, despues).indice = Fuera
    BY <1>5, <2>1, SinIndice
  <2> QED BY <1>7, <2>2
<1> QED BY <1>6, <1>7

\* The scripts of a transaction, each with what goes around it.
Partes(ss, antes, despues) == [i \in DOMAIN ss |-> UnScript(ss[i], antes, despues)]

\* The layout of the scripts of a transaction.
LEMMA ScriptsEs ==
    ASSUME NEW ss \in Cortas(Cortas(Digitos)), NEW antes \in Nat, NEW despues \in Nat
    PROVE  /\ EsSecuencia(ss) /\ Len(ss) \in 0..Tope(8) - 1 /\ \A k \in 1..Len(ss) : ss[k] \in Cortas(Digitos)
           /\ Partes(ss, antes, despues) \in Seq(Seq(Digitos)) /\ Len(Partes(ss, antes, despues)) = Len(ss)
           /\ \A k \in 1..Len(ss) : Partes(ss, antes, despues)[k] = UnScript(ss[k], antes, despues)
           /\ ScriptsAsBytes(ss, antes, despues) \in Seq(Digitos)
           /\ Len(ScriptsAsBytes(ss, antes, despues))
                = Len(Nuevo(Len(ss))) + Len(Unidos(Partes(ss, antes, despues))[Len(ss)])
           /\ \A b, i : i \in Nat /\ Len(b) \in Nat /\ Esta(b, i, ScriptsAsBytes(ss, antes, despues))
                        => /\ Esta(b, i, Nuevo(Len(ss)))
                           /\ Esta(b, i + Len(Nuevo(Len(ss))), FlattenSeq(Partes(ss, antes, despues)))
<1> DEFINE n == Len(ss)
           m == Nuevo(n)
           p == Partes(ss, antes, despues)
           w == FlattenSeq(p)
<1>1. ss \in Seq(Cortas(Digitos)) /\ n < Tope(8)
  BY DEF Cortas
<1>2. n \in Nat /\ ss \in [1..n -> Cortas(Digitos)] /\ DOMAIN ss = 1..n
  BY <1>1
<1>3. n \in 0..Tope(8) - 1
  <2> HIDE DEF n
  <2> QED BY <1>1, <1>2, Topes
<1>4. p = [k \in 1..n |-> UnScript(ss[k], antes, despues)]
  BY <1>2 DEF Partes
<1> HIDE DEF n, p
<1>5. \A k \in 1..n : ss[k] \in Cortas(Digitos)
  BY <1>2
<1>6. \A k \in 1..n : UnScript(ss[k], antes, despues) \in Seq(Digitos)
  BY <1>5, UnScriptEs
<1>7. p \in Seq(Seq(Digitos)) /\ Len(p) = n
  <2>1. p \in [1..n -> Seq(Digitos)]
    BY <1>4, <1>6
  <2> QED BY <1>2, <2>1
<1>8. w = Unidos(p)[n] /\ Unidos(p)[n] \in Seq(Digitos)
  <2>1. n \in 0..n
    BY <1>2
  <2> QED BY <1>7, <2>1, UnidosPaso
<1>9. m \in Seq(Digitos)
  BY <1>3, NuevoEs
<1> HIDE DEF m, w
<1>10. /\ m \o w \in Seq(Digitos) /\ Len(m \o w) = Len(m) + Len(w)
       /\ \A b, i : i \in Nat /\ Len(b) \in Nat /\ Esta(b, i, m \o w) => Esta(b, i, m) /\ Esta(b, i + Len(m), w)
  BY <1>8, <1>9, EstanJuntos
<1>11. ScriptsAsBytes(ss, antes, despues) = m \o w
  BY DEF ScriptsAsBytes, m, w, p, n, Partes, UnScript
<1>12. EsSecuencia(ss)
  BY <1>1 DEF EsSecuencia
<1> QED BY <1>3, <1>4, <1>5, <1>7, <1>8, <1>10, <1>11, <1>12 DEF n, p, m, w

\* From the index i, where the first of the scripts is, there are bytes for the slices of all.
Caben(b, i, ss, antes, despues) ==
    \A k \in 1..Len(ss) : i + Len(Unidos(Partes(ss, antes, despues))[k - 1]) + antes + 10 <= Len(b)

\* The same, from their number on.
SeLeen(b, i, ss, antes, despues) ==
    i + 10 <= Len(b) /\ Caben(b, i + Len(Nuevo(Len(ss))), ss, antes, despues)

\* The scripts are read one after the other, while there are bytes to look at for the length of each.
LEMMA LecturasDe ==
    ASSUME NEW ss \in Cortas(Cortas(Digitos)), NEW antes \in Nat, NEW despues \in Nat,
           NEW b \in Seq(Nat), NEW i \in Nat, Esta(b, i, FlattenSeq(Partes(ss, antes, despues))),
           NEW f, Lecturas(f, b, i, antes, despues, Len(ss))
    PROVE  IF Caben(b, i, ss, antes, despues)
           THEN f[Len(ss)] = [scripts |-> ss, indice |-> i + Len(Unidos(Partes(ss, antes, despues))[Len(ss)])]
           ELSE f[Len(ss)].indice = Fuera
<1> DEFINE n == Len(ss)
           p == Partes(ss, antes, despues)
           u == Unidos(p)
           l == Len(b)
           Cabe(k) == \A j \in 1..k : i + Len(u[j - 1]) + antes + 10 <= l
           Bien(k) == IF Cabe(k) THEN /\ f[k].indice = i + Len(u[k])
                                      /\ EsSecuencia(f[k].scripts) /\ Len(f[k].scripts) = k
                                      /\ \A j \in 1..k : f[k].scripts[j] = ss[j]
                      ELSE f[k].indice = Fuera
<1>1. /\ EsSecuencia(ss) /\ n \in Nat /\ \A k \in 1..n : ss[k] \in Cortas(Digitos)
      /\ p \in Seq(Seq(Digitos)) /\ Len(p) = n /\ \A k \in 1..n : p[k] = UnScript(ss[k], antes, despues)
  <2>1. EsSecuencia(ss)
    BY ScriptsEs
  <2> QED BY <2>1, ScriptsEs, Secuencia
<1>2. l \in Nat
  OBVIOUS
<1> HIDE DEF p
<1>3. /\ Len(u[0]) = 0 /\ \A k \in 0..n : Len(u[k]) \in Nat
      /\ \A k \in 1..n : Len(u[k]) = Len(u[k - 1]) + Len(p[k])
  BY <1>1, UnidosLargo
<1>4. \A k \in 1..n : Esta(b, i + Len(u[k - 1]), p[k])
  BY <1>1, <1>2, EstaCadaParte DEF p
<1>5. \A k \in 0..n : f[k] = IF k = 0 THEN [scripts |-> << >>, indice |-> i] ELSE TrasScript(b, f[k - 1], antes, despues)
  BY DEF Lecturas, n
<1> HIDE DEF n, u, l
<1>6. Bien(0)
  <2>1. f[0] = [scripts |-> << >>, indice |-> i]
    <3>1. 0 \in 0..n
      BY <1>1
    <3> HIDE DEF Bien
    <3> QED BY <1>5, <3>1, Zenon
  <2>2. Len(<< >>) = 0 /\ i + 0 = i
    OBVIOUS
  <2>3. f[0].indice = i + Len(u[0]) /\ f[0].scripts = << >>
    BY <1>3, <2>1, <2>2
  <2>4. EsSecuencia(f[0].scripts) /\ Len(f[0].scripts) = 0
    BY <2>2, <2>3, SecuenciaVacia
  <2>5. Cabe(0) /\ \A j \in 1..0 : f[0].scripts[j] = ss[j]
    OBVIOUS
  <2> HIDE DEF Cabe
  <2> QED BY <2>3, <2>4, <2>5
<1>7. ASSUME NEW k \in 0..n - 1, Bien(k) PROVE Bien(k + 1)
  <2> DEFINE h == k + 1
             uno == LeerScript(b, f[k].indice, antes, despues)
             x == Len(u[k])
             y == Len(u[h])
             c == ss[h]
             z == Len(p[h])
  <2>1. n \in Nat /\ k \in Nat /\ h \in 1..n /\ h - 1 = k /\ k \in 0..n /\ h \in 0..n /\ h # 0
    <3>1. n \in Nat
      BY <1>1
    <3> HIDE DEF Bien
    <3> QED BY <3>1
  <2>2. x \in Nat /\ y = x + z /\ c \in Cortas(Digitos) /\ p[h] = UnScript(c, antes, despues) /\ Esta(b, i + x, p[h])
    <3> HIDE DEF h
    <3> QED BY <1>1, <1>3, <1>4, <2>1
  <2>3. z \in Nat
    <3>1. p[h] \in Seq(Digitos)
      BY <2>2, UnScriptEs
    <3> QED BY <3>1
  <2>4. f[h].scripts = Append(f[k].scripts, uno.script) /\ f[h].indice = uno.indice
    <3> HIDE DEF h
    <3>1. f[h] = TrasScript(b, f[k], antes, despues)
      BY <1>5, <2>1
    <3> QED BY <3>1 DEF TrasScript
  <2>5. IF (i + x) + antes + 10 <= l
        THEN uno = [script |-> c, indice |-> (i + x) + z] \/ f[k].indice # i + x
        ELSE uno.indice = Fuera \/ f[k].indice # i + x
    <3>1. i + x \in Nat
      BY <2>2
    <3> HIDE DEF h, x, c, z
    <3>2. IF (i + x) + antes + 10 <= l
          THEN LeerScript(b, i + x, antes, despues) = [script |-> c, indice |-> (i + x) + z]
          ELSE LeerScript(b, i + x, antes, despues).indice = Fuera
      BY <2>2, <3>1, LeerScriptEs DEF l, z
    <3> QED BY <3>2
  <2>6. Cabe(h) <=> Cabe(k) /\ (i + x) + antes + 10 <= l
    <3>1. ASSUME Cabe(k), i + x + antes + 10 <= l, NEW j \in 1..h PROVE i + Len(u[j - 1]) + antes + 10 <= l
      <4>1. j = h \/ j \in 1..k
        BY <2>1
      <4> HIDE DEF h, x
      <4>2. CASE j = h
        BY <2>1, <3>1, <4>2 DEF x
      <4>3. CASE j \in 1..k
        BY <3>1, <4>3
      <4> QED BY <4>1, <4>2, <4>3
    <3>2. ASSUME Cabe(h), NEW j \in 1..k PROVE i + Len(u[j - 1]) + antes + 10 <= l
      <4>1. j \in 1..h
        BY <2>1
      <4> HIDE DEF h
      <4> QED BY <3>2, <4>1
    <3>3. ASSUME Cabe(h) PROVE i + x + antes + 10 <= l
      <4>1. h \in 1..h
        BY <2>1
      <4> HIDE DEF h
      <4> QED BY <2>1, <3>3, <4>1 DEF x
    <3> QED BY <3>1, <3>2, <3>3
  <2> HIDE DEF h, uno, x, y, c, z, Cabe
  <2>7. CASE ~Cabe(k)
    <3>1. f[k].indice = Fuera
      BY <1>7, <2>7
    <3>2. uno.indice = Fuera
      BY <3>1, SinIndice DEF uno
    <3> QED BY <2>4, <2>6, <2>7, <3>2 DEF h
  <2>8. CASE Cabe(k) /\ ~((i + x) + antes + 10 <= l)
    <3>1. f[k].indice = i + x
      BY <1>7, <2>8 DEF x
    <3>2. uno.indice = Fuera
      BY <2>5, <2>8, <3>1
    <3> QED BY <2>4, <2>6, <2>8, <3>2 DEF h
  <2>9. CASE Cabe(k) /\ (i + x) + antes + 10 <= l
    <3> DEFINE q == f[k].scripts
    <3>1. f[k].indice = i + x /\ EsSecuencia(q) /\ Len(q) = k /\ \A j \in 1..k : q[j] = ss[j]
      BY <1>7, <2>9 DEF x
    <3>2. uno.script = c /\ uno.indice = (i + x) + z
      BY <2>5, <2>9, <3>1
    <3> HIDE DEF q
    <3>3. f[h].indice = i + y
      BY <2>2, <2>3, <2>4, <3>2
    <3>4. /\ EsSecuencia(Append(q, c)) /\ Len(Append(q, c)) = h /\ Append(q, c)[h] = c
          /\ \A j \in 1..k : Append(q, c)[j] = q[j]
      BY <3>1, SecuenciaCrece DEF h
    <3>5. f[h].scripts = Append(q, c)
      BY <2>4, <3>2 DEF q
    <3>6. ASSUME NEW j \in 1..h PROVE f[h].scripts[j] = ss[j]
      <4>1. j = h \/ j \in 1..k
        BY <2>1 DEF h
      <4> QED BY <3>1, <3>4, <3>5, <4>1 DEF c
    <3>7. Cabe(h)
      BY <2>6, <2>9
    <3> QED BY <3>3, <3>4, <3>5, <3>6, <3>7 DEF h, y
  <2> QED BY <2>7, <2>8, <2>9
<1>8. Bien(n)
  <2> HIDE DEF Bien
  <2> DEFINE T == {k \in 0..n : Bien(k)}
  <2>1. 0 \in T
    BY <1>1, <1>6
  <2>2. \A k \in T : k \in 0..n - 1 => k + 1 \in T
    BY <1>1, <1>7
  <2> HIDE DEF T
  <2>3. n \in T
    BY <1>1, <2>1, <2>2, InduccionHasta
  <2> QED BY <2>3 DEF T
<1>9. ASSUME Cabe(n) PROVE f[n] = [scripts |-> ss, indice |-> i + Len(u[n])]
  <2> HIDE DEF Cabe
  <2> DEFINE q == f[n].scripts
  <2>1. f[n].indice = i + Len(u[n]) /\ EsSecuencia(q) /\ Len(q) = n /\ \A j \in 1..n : q[j] = ss[j]
    BY <1>8, <1>9
  <2>2. f[n] = [scripts |-> q, indice |-> f[n].indice]
    <3>1. n \in 0..n
      BY <1>1
    <3>2. f[n] = IF n = 0 THEN [scripts |-> << >>, indice |-> i] ELSE TrasScript(b, f[n - 1], antes, despues)
      BY <1>5, <3>1
    <3>3. \E x, y : f[n] = [scripts |-> x, indice |-> y]
      BY <3>2, Zenon DEF TrasScript
    <3> QED BY <3>3 DEF q
  <2> HIDE DEF q
  <2>3. q = [j \in 1..n |-> q[j]] /\ ss = [j \in 1..n |-> ss[j]]
    BY <1>1, <2>1, Secuencia DEF n
  <2>4. q = ss
    BY <2>1, <2>3
  <2> QED BY <2>1, <2>2, <2>4
<1>10. ASSUME ~Cabe(n) PROVE f[n].indice = Fuera
  <2> HIDE DEF Cabe
  <2> QED BY <1>8, <1>10
<1>11. Cabe(n) <=> Caben(b, i, ss, antes, despues)
  BY DEF Caben, n, u, l, p
<1> HIDE DEF Cabe
<1> QED BY <1>9, <1>10, <1>11 DEF n, u, p

\* The scripts of a transaction are read as they were written, if there are bytes to look at.
LEMMA ScriptsLeidos ==
    ASSUME NEW ss \in Cortas(Cortas(Digitos)), NEW antes \in Nat, NEW despues \in Nat,
           NEW b \in Seq(Nat), NEW i \in Nat, Esta(b, i, ScriptsAsBytes(ss, antes, despues))
    PROVE  IF SeLeen(b, i, ss, antes, despues)
           THEN LeerScripts(b, i, antes, despues)
                    = [scripts |-> ss, indice |-> i + Len(ScriptsAsBytes(ss, antes, despues))]
           ELSE LeerScripts(b, i, antes, despues).indice = Fuera
<1> DEFINE n == Len(ss)
           m == Nuevo(n)
           p == Partes(ss, antes, despues)
           u == Unidos(p)
           l == Len(b)
           s == i + Len(m)
           todo == ScriptsAsBytes(ss, antes, despues)
           cuantos == LeerNumero(b, i)
<1>1. l \in Nat /\ n \in 0..Tope(8) - 1
  BY ScriptsEs
<1>2. Esta(b, i, m) /\ Esta(b, s, FlattenSeq(p))
  BY <1>1, ScriptsEs
<1>3. Len(todo) = Len(m) + Len(u[n]) /\ Len(u[n]) \in Nat
  <2>1. p \in Seq(Seq(Digitos)) /\ Len(p) = n
    BY ScriptsEs
  <2>2. n \in 0..n
    <3> HIDE DEF n
    <3> QED BY <1>1, Topes
  <2> HIDE DEF p, n
  <2>3. Len(u[n]) \in Nat
    BY <2>1, <2>2, UnidosLargo
  <2> QED BY <2>3, ScriptsEs DEF p, n
<1>4. Len(m) \in Nat /\ s \in Nat /\ n \in Nat
  <2> DEFINE lm == Len(m)
  <2> HIDE DEF n
  <2>1. lm \in 1..9
    BY <1>1, NuevoEs
  <2> HIDE DEF lm
  <2>2. lm \in Nat /\ i + lm \in Nat
    BY <2>1
  <2>3. n \in Nat
    BY <1>1, Topes
  <2> QED BY <2>2, <2>3 DEF lm
<1>5. cuantos = IF i + 10 <= l THEN [valor |-> n, indice |-> s] ELSE [valor |-> 0, indice |-> Fuera]
  <2> HIDE DEF n, u, p, todo
  <2> QED BY <1>1, <1>2, LeerNumeroEs
<1>6. cuantos.valor \in Nat
  <2> HIDE DEF cuantos, s, n
  <2> QED BY <1>4, <1>5
<1>7. PICK f : Lecturas(f, b, cuantos.indice, antes, despues, cuantos.valor)
               /\ LeerScripts(b, i, antes, despues) = f[cuantos.valor]
  <2> HIDE DEF n, s, p, u, todo
  <2> QED BY <1>6, LeerScriptsEs
<1> HIDE DEF cuantos
<1>8. CASE i + 10 <= l
  <2>1. cuantos.indice = s /\ cuantos.valor = n
    <3> HIDE DEF s, n
    <3> QED BY <1>5, <1>8
  <2>2. Lecturas(f, b, s, antes, despues, n) /\ LeerScripts(b, i, antes, despues) = f[n]
    <3> HIDE DEF s, n
    <3> QED BY <1>7, <2>1
  <2> HIDE DEF s
  <2>3. IF Caben(b, s, ss, antes, despues)
        THEN f[n] = [scripts |-> ss, indice |-> s + Len(u[n])]
        ELSE f[n].indice = Fuera
    BY <1>2, <1>4, <2>2, LecturasDe
  <2>4. s + Len(u[n]) = i + Len(todo)
    <3> DEFINE x == Len(m)
               y == Len(u[n])
    <3>1. x \in Nat /\ y \in Nat
      BY <1>3, <1>4
    <3> HIDE DEF x, y
    <3>2. (i + x) + y = i + (x + y)
      BY <3>1
    <3> QED BY <1>3, <3>2 DEF x, y, s
  <2>5. SeLeen(b, i, ss, antes, despues) <=> Caben(b, s, ss, antes, despues)
    BY <1>8 DEF SeLeen, s, n, m, l
  <2> HIDE DEF u, n, m, l
  <2> QED BY <2>2, <2>3, <2>4, <2>5 DEF todo
<1>9. CASE ~(i + 10 <= l)
  <2>1. cuantos.indice = Fuera /\ cuantos.valor = 0
    <3> HIDE DEF s, n
    <3> QED BY <1>5, <1>9
  <2>2. f = [k \in 0..0 |-> IF k = 0 THEN [scripts |-> << >>, indice |-> Fuera] ELSE TrasScript(b, f[k - 1], antes, despues)]
    BY <1>7, <2>1 DEF Lecturas
  <2>3. f[0].indice = Fuera
    BY <2>2
  <2>4. ~SeLeen(b, i, ss, antes, despues)
    BY <1>9 DEF SeLeen
  <2> QED BY <1>7, <2>1, <2>3, <2>4
<1> QED BY <1>8, <1>9

\* The lengths of a list of scripts: each has its own number and bytes, and what goes around it.
LEMMA LargosDe ==
    ASSUME NEW ss \in Cortas(Cortas(Digitos)), NEW antes \in Nat, NEW despues \in Nat
    PROVE  /\ Len(ss) \in Nat
           /\ \A k \in 0..Len(ss) : Len(Unidos(Partes(ss, antes, despues))[k]) \in Nat
           /\ \A k \in 1..Len(ss) :
                 /\ ss[k] \in Seq(Digitos) /\ Len(Nuevo(Len(ss[k]))) \in 1..9 /\ Len(ss[k]) \in Nat
                 /\ Len(Unidos(Partes(ss, antes, despues))[k])
                      = Len(Unidos(Partes(ss, antes, despues))[k - 1])
                        + (antes + Len(Nuevo(Len(ss[k]))) + Len(ss[k]) + despues)
                 /\ Len(Unidos(Partes(ss, antes, despues))[k]) <= Len(Unidos(Partes(ss, antes, despues))[Len(ss)])
<1> DEFINE n == Len(ss)
           p == Partes(ss, antes, despues)
           u == Unidos(p)
<1>1. /\ n \in Nat /\ \A k \in 1..n : ss[k] \in Cortas(Digitos)
      /\ p \in Seq(Seq(Digitos)) /\ Len(p) = n /\ \A k \in 1..n : p[k] = UnScript(ss[k], antes, despues)
  BY ScriptsEs, Secuencia
<1> HIDE DEF p, n
<1>2. /\ \A k \in 0..n : Len(u[k]) \in Nat
      /\ \A k \in 1..n : Len(u[k]) = Len(u[k - 1]) + Len(p[k])
      /\ \A j \in 0..n : \A k \in 0..j : Len(u[k]) <= Len(u[j])
  BY <1>1, UnidosLargo
<1> HIDE DEF u
<1>3. ASSUME NEW k \in 1..n PROVE k \in 0..n /\ n \in 0..n
  BY <1>1
<1>4. ASSUME NEW k \in 1..n
      PROVE  /\ ss[k] \in Seq(Digitos) /\ Len(Nuevo(Len(ss[k]))) \in 1..9 /\ Len(ss[k]) \in Nat
             /\ Len(p[k]) = antes + Len(Nuevo(Len(ss[k]))) + Len(ss[k]) + despues
  <2>1. ss[k] \in Cortas(Digitos) /\ p[k] = UnScript(ss[k], antes, despues)
    BY <1>1
  <2>2. ss[k] \in Seq(Digitos)
    BY <2>1, UnScriptEs
  <2>3. Len(ss[k]) \in Nat
    BY <2>2
  <2> QED BY <2>1, <2>2, <2>3, UnScriptEs
<1>5. ASSUME NEW k \in 1..n PROVE Len(u[k]) <= Len(u[n])
  BY <1>2, <1>3
<1> QED BY <1>1, <1>2, <1>4, <1>5 DEF u, p, n

\* After an input there is room to look at the length of its script.
LEMMA EntradasCaben ==
    ASSUME NEW ss \in Cortas(Cortas(Digitos)), NEW s \in Nat, NEW l \in Nat,
           s + Len(Unidos(Partes(ss, 36, 4))[Len(ss)]) + 5 <= l
    PROVE  \A k \in 1..Len(ss) : s + Len(Unidos(Partes(ss, 36, 4))[k - 1]) + 36 + 10 <= l
<1> DEFINE n == Len(ss)
           u == Unidos(Partes(ss, 36, 4))
<1> SUFFICES ASSUME NEW k \in 1..n PROVE s + Len(u[k - 1]) + 36 + 10 <= l
  OBVIOUS
<1> DEFINE x == Len(u[k - 1])
           y == Len(u[k])
           z == Len(u[n])
           a == Len(Nuevo(Len(ss[k])))
           c == Len(ss[k])
<1>1. n \in Nat
  BY LargosDe
<1>2. k - 1 \in 0..n /\ k \in 0..n /\ n \in 0..n
  <2> HIDE DEF n
  <2> QED BY <1>1
<1>3. x \in Nat /\ y \in Nat /\ z \in Nat
  <2>1. 36 \in Nat /\ 4 \in Nat
    OBVIOUS
  <2> HIDE DEF n, u
  <2> QED BY <1>2, <2>1, LargosDe DEF n, u
<1>4. a \in 1..9 /\ c \in Nat /\ y = x + (36 + a + c + 4) /\ y <= z
  <2>1. 36 \in Nat /\ 4 \in Nat
    OBVIOUS
  <2> QED BY <2>1, LargosDe
<1>5. s + z + 5 <= l
  OBVIOUS
<1> HIDE DEF x, y, z, a, c
<1>6. s + x + 36 + 10 <= l
  BY <1>3, <1>4, <1>5
<1> QED BY <1>6 DEF x

\* After an output there is, unless it is the last one and its script is short.
LEMMA SalidasCaben ==
    ASSUME NEW ss \in Cortas(Cortas(Digitos)), ss # << >>, NEW s \in Nat, NEW l \in Nat,
           s + Len(Unidos(Partes(ss, 8, 0))[Len(ss)]) + 4 <= l
    PROVE  /\ 9 <= Len(Unidos(Partes(ss, 8, 0))[Len(ss)])
           /\ (\A k \in 1..Len(ss) : s + Len(Unidos(Partes(ss, 8, 0))[k - 1]) + 8 + 10 <= l)
              <=> s + Len(Unidos(Partes(ss, 8, 0))[Len(ss)]) + 10
                    <= l + Len(Nuevo(Len(Last(ss)))) + Len(Last(ss))
<1> DEFINE n == Len(ss)
           u == Unidos(Partes(ss, 8, 0))
           z == Len(u[n])
           cn == Len(Last(ss))
           an == Len(Nuevo(Len(Last(ss))))
           xn == Len(u[n - 1])
<1>0. 8 \in Nat /\ 0 \in Nat
  OBVIOUS
<1>1. n \in Nat /\ n # 0
  <2>1. EsSecuencia(ss) /\ n \in Nat
    BY <1>0, LargosDe, ScriptsEs
  <2>2. n = 0 => ss = << >>
    <3>1. ss \in Seq(Cortas(Digitos))
      BY DEF Cortas
    <3> QED BY <3>1
  <2> QED BY <2>1, <2>2
<1>2. Last(ss) = ss[n]
  BY DEF Last
<1>3. /\ \A k \in 0..n : Len(u[k]) \in Nat
      /\ \A k \in 1..n : /\ Len(Nuevo(Len(ss[k]))) \in 1..9 /\ Len(ss[k]) \in Nat
                         /\ Len(u[k]) = Len(u[k - 1]) + (8 + Len(Nuevo(Len(ss[k]))) + Len(ss[k]) + 0)
                         /\ Len(u[k]) <= z
  BY <1>0, LargosDe
<1>4. s + z + 4 <= l
  OBVIOUS
<1> HIDE DEF n, u
<1>5. n \in 1..n /\ n \in 0..n /\ n - 1 \in 0..n
  BY <1>1
<1>6. z \in Nat /\ xn \in Nat /\ an \in 1..9 /\ cn \in Nat /\ z = xn + (8 + an + cn + 0)
  <2> HIDE DEF z
  <2>1. Len(u[n]) \in Nat /\ Len(u[n - 1]) \in Nat
    BY <1>3, <1>5
  <2>2. Len(Nuevo(Len(ss[n]))) \in 1..9 /\ Len(ss[n]) \in Nat /\ Len(u[n]) = Len(u[n - 1]) + (8 + Len(Nuevo(Len(ss[n]))) + Len(ss[n]) + 0)
    BY <1>3, <1>5
  <2> QED BY <1>2, <2>1, <2>2 DEF z
<1> HIDE DEF z, cn, an, xn
<1>7. 9 <= z
  BY <1>6
<1>8. (s + xn + 8 + 10 <= l) <=> (s + z + 10 <= l + an + cn)
  BY <1>6
<1>9. ASSUME NEW k \in 1..n, k # n PROVE s + Len(u[k - 1]) + 8 + 10 <= l
  <2> DEFINE h == k + 1
             x == Len(u[k - 1])
             y == Len(u[k])
             w == Len(u[h])
             a == Len(Nuevo(Len(ss[k])))
             c == Len(ss[k])
             d == Len(Nuevo(Len(ss[h])))
             e == Len(ss[h])
  <2>1. h \in 1..n /\ h - 1 = k /\ k - 1 \in 0..n /\ k \in 0..n /\ h \in 0..n
    BY <1>1, <1>9
  <2> HIDE DEF h
  <2>2. x \in Nat /\ y \in Nat /\ w \in Nat
    BY <1>3, <2>1
  <2>3. a \in 1..9 /\ c \in Nat /\ y = x + (8 + a + c + 0)
    BY <1>3
  <2>4. d \in 1..9 /\ e \in Nat /\ w = y + (8 + d + e + 0) /\ w <= z
    BY <1>3, <2>1
  <2> HIDE DEF x, y, w, a, c, d, e
  <2>5. s + x + 8 + 10 <= l
    BY <1>4, <1>6, <2>2, <2>3, <2>4
  <2> QED BY <2>5 DEF x
<1>10. (\A k \in 1..n : s + Len(u[k - 1]) + 8 + 10 <= l) <=> s + xn + 8 + 10 <= l
  <2>1. ASSUME \A k \in 1..n : s + Len(u[k - 1]) + 8 + 10 <= l PROVE s + xn + 8 + 10 <= l
    BY <1>5, <2>1 DEF xn
  <2>2. ASSUME s + xn + 8 + 10 <= l, NEW k \in 1..n PROVE s + Len(u[k - 1]) + 8 + 10 <= l
    BY <1>9, <2>2 DEF xn
  <2> QED BY <2>1, <2>2
<1> QED BY <1>7, <1>8, <1>10 DEF z, an, cn, u, n

\* What a transaction ends with: the length of its last script, the script and the lock time.
Cola(t) == Len(Nuevo(Len(Last(t.tx_out)))) + Len(Last(t.tx_out)) + 4

\* The layout of a transaction.
LEMMA AsBytesEs ==
    ASSUME NEW t \in Transacciones
    PROVE  /\ AsBytes(t) \in Seq(Digitos)
           /\ Len(LeBytes(t.version, 4)) = 4
           /\ Len(ScriptsAsBytes(t.tx_in, 36, 4)) \in Nat /\ Len(ScriptsAsBytes(t.tx_out, 8, 0)) \in Nat
           /\ Len(AsBytes(t)) = 4 + Len(ScriptsAsBytes(t.tx_in, 36, 4)) + Len(ScriptsAsBytes(t.tx_out, 8, 0)) + 4
           /\ \A b, i : i \in Nat /\ Len(b) \in Nat /\ Esta(b, i, AsBytes(t))
                        => /\ Esta(b, i, LeBytes(t.version, 4))
                           /\ Esta(b, i + 4, ScriptsAsBytes(t.tx_in, 36, 4))
                           /\ Esta(b, i + 4 + Len(ScriptsAsBytes(t.tx_in, 36, 4)), ScriptsAsBytes(t.tx_out, 8, 0))
                           /\ i + Len(AsBytes(t)) <= Len(b)
<1> DEFINE v == LeBytes(t.version, 4)
           e == ScriptsAsBytes(t.tx_in, 36, 4)
           s == ScriptsAsBytes(t.tx_out, 8, 0)
           r == Relleno(4)
           x == v \o e
           y == x \o s
           z == y \o r
           le == Len(e)
           ls == Len(s)
<1>0. 4 \in Nat /\ 36 \in Nat /\ 8 \in Nat /\ 0 \in Nat
  OBVIOUS
<1>1. v \in Seq(Digitos) /\ Len(v) = 4
  <2>1. t.version \in Nat
    <3>1. t.version \in 0..Tope(4) - 1
      BY DEF Transacciones
    <3> QED BY <3>1, Topes
  <2> QED BY <1>0, <2>1, LeBytesDe
<1>2. e \in Seq(Digitos) /\ s \in Seq(Digitos)
  <2>1. t.tx_in \in Cortas(Cortas(Digitos)) /\ t.tx_out \in Cortas(Cortas(Digitos))
    BY DEF Transacciones
  <2> QED BY <1>0, <2>1, ScriptsEs
<1>3. r \in Seq(Digitos) /\ Len(r) = 4
  BY <1>0, RellenoDe
<1> HIDE DEF v, e, s, r
<1>4. le \in Nat /\ ls \in Nat
  BY <1>2
<1>5. /\ x \in Seq(Digitos) /\ Len(x) = Len(v) + Len(e)
      /\ \A b, i : i \in Nat /\ Len(b) \in Nat /\ Esta(b, i, x) => Esta(b, i, v) /\ Esta(b, i + Len(v), e)
  BY <1>1, <1>2, EstanJuntos
<1> HIDE DEF x
<1>6. /\ y \in Seq(Digitos) /\ Len(y) = Len(x) + Len(s)
      /\ \A b, i : i \in Nat /\ Len(b) \in Nat /\ Esta(b, i, y) => Esta(b, i, x) /\ Esta(b, i + Len(x), s)
  BY <1>2, <1>5, EstanJuntos
<1> HIDE DEF y
<1>7. /\ z \in Seq(Digitos) /\ Len(z) = Len(y) + Len(r)
      /\ \A b, i : i \in Nat /\ Len(b) \in Nat /\ Esta(b, i, z) => Esta(b, i, y)
  BY <1>3, <1>6, EstanJuntos
<1> HIDE DEF z
<1>8. Len(x) = 4 + le /\ Len(z) = 4 + le + ls + 4
  BY <1>1, <1>3, <1>5, <1>6, <1>7
<1> HIDE DEF le, ls
<1>9. ASSUME NEW b, NEW i, i \in Nat, Len(b) \in Nat, Esta(b, i, z)
      PROVE  Esta(b, i, v) /\ Esta(b, i + 4, e) /\ Esta(b, i + 4 + le, s) /\ i + Len(z) <= Len(b)
  <2>1. Esta(b, i, x) /\ Esta(b, i + Len(x), s)
    BY <1>6, <1>7, <1>9
  <2>2. i + (4 + le) = i + 4 + le
    BY <1>4, <1>9
  <2>3. i + Len(z) <= Len(b)
    BY <1>9 DEF Esta
  <2> QED BY <1>1, <1>5, <1>8, <1>9, <2>1, <2>2, <2>3
<1>10. AsBytes(t) = z
  BY DEF AsBytes, z, y, x, v, e, s, r
<1> QED BY <1>1, <1>4, <1>7, <1>8, <1>9, <1>10 DEF v, e, s, le, ls

\* How long the scripts are.
LEMMA ScriptsPartes ==
    ASSUME NEW ss \in Cortas(Cortas(Digitos)), NEW antes \in Nat, NEW despues \in Nat
    PROVE  /\ Len(ScriptsAsBytes(ss, antes, despues))
                = Len(Nuevo(Len(ss))) + Len(Unidos(Partes(ss, antes, despues))[Len(ss)])
           /\ Len(Nuevo(Len(ss))) \in 1..9
<1>1. Len(ss) \in 0..Tope(8) - 1
  BY ScriptsEs
<1>2. Len(Nuevo(Len(ss))) \in 1..9
  BY <1>1, NuevoEs
<1> QED BY <1>2, ScriptsEs

\* A transaction is read as it was written, however many its scripts are and however long, if from the
\* length of its last script on there are bytes enough for the slice that the code takes; if there are
\* not, the code panics (as_bytes and from_bytes of Txn, TxIn and TxOut).
THEOREM FromBytesEs ==
    ASSUME NEW t \in Transacciones, t.tx_out # << >>, NEW b \in Seq(Nat), NEW i \in Nat, Esta(b, i, AsBytes(t))
    PROVE  IF i + Len(AsBytes(t)) + 10 <= Len(b) + Cola(t)
           THEN FromBytes(b, i) = [txn |-> t, indice |-> i + Len(AsBytes(t))]
           ELSE FromBytes(b, i).indice = Fuera
<1> DEFINE l == Len(b)
           e == ScriptsAsBytes(t.tx_in, 36, 4)
           s == ScriptsAsBytes(t.tx_out, 8, 0)
           le == Len(e)
           ls == Len(s)
           j == i + 4
           k == j + le
           a == AsBytes(t)
           entradas == LeerScripts(b, Pasar(b, i, 4), 36, 4)
           salidas == LeerScripts(b, entradas.indice, 8, 0)
           me == Len(Nuevo(Len(t.tx_in)))
           ms == Len(Nuevo(Len(t.tx_out)))
           ue == Len(Unidos(Partes(t.tx_in, 36, 4))[Len(t.tx_in)])
           us == Len(Unidos(Partes(t.tx_out, 8, 0))[Len(t.tx_out)])
           cn == Len(Last(t.tx_out))
           an == Len(Nuevo(Len(Last(t.tx_out))))
<1>0. l \in Nat /\ 4 \in Nat /\ 36 \in Nat /\ 8 \in Nat /\ 0 \in Nat
  OBVIOUS
<1>1. /\ t = [version |-> t.version, tx_in |-> t.tx_in, tx_out |-> t.tx_out]
      /\ t.version \in 0..Tope(4) - 1
      /\ t.tx_in \in Cortas(Cortas(Digitos)) /\ t.tx_out \in Cortas(Cortas(Digitos))
  BY DEF Transacciones
<1>2. /\ Len(LeBytes(t.version, 4)) = 4 /\ Esta(b, i, LeBytes(t.version, 4))
      /\ Esta(b, j, e) /\ Esta(b, k, s)
      /\ le \in Nat /\ ls \in Nat /\ Len(a) = 4 + le + ls + 4 /\ i + Len(a) <= l
  BY <1>0, AsBytesEs
<1>3. j \in Nat /\ k \in Nat /\ i + Len(a) = k + ls + 4 /\ k + ls + 4 <= l /\ j <= l
  <2> DEFINE la == Len(a)
  <2>1. le \in Nat /\ ls \in Nat /\ la = 4 + le + ls + 4 /\ i + la <= l /\ j = i + 4 /\ k = j + le
    BY <1>2
  <2> HIDE DEF le, ls, la, l, j, k, a
  <2>2. j \in Nat /\ k \in Nat
    BY <2>1
  <2>3. i + la = k + ls + 4
    BY <2>1
  <2>4. k + ls + 4 <= l
    BY <2>1, <2>3
  <2>5. j <= l
    BY <1>0, <2>1, <2>2, <2>4
  <2> QED BY <2>2, <2>3, <2>4, <2>5 DEF la
<1>4. /\ le = me + ue /\ ls = ms + us /\ me \in 1..9 /\ ms \in 1..9
  <2> HIDE DEF l, j, k, a, entradas, salidas
  <2>1. le = me + ue /\ me \in 1..9
    BY <1>0, <1>1, ScriptsPartes
  <2>2. ls = ms + us /\ ms \in 1..9
    BY <1>0, <1>1, ScriptsPartes
  <2> QED BY <2>1, <2>2
<1>5. ue \in Nat /\ us \in Nat
  <2>1. Len(t.tx_in) \in Nat /\ Len(t.tx_out) \in Nat
    BY <1>0, <1>1, LargosDe
  <2>2. Len(t.tx_in) \in 0..Len(t.tx_in) /\ Len(t.tx_out) \in 0..Len(t.tx_out)
    BY <2>1
  <2> QED BY <1>0, <1>1, <2>2, LargosDe
<1>6. cn \in Nat /\ an \in 1..9
  <2> DEFINE n == Len(t.tx_out)
  <2>1. n \in Nat
    BY <1>0, <1>1, LargosDe
  <2>2. n # 0
    <3>1. t.tx_out \in Seq(Cortas(Digitos))
      BY <1>1 DEF Cortas
    <3> QED BY <3>1
  <2>3. Last(t.tx_out) = t.tx_out[n]
    BY DEF Last
  <2>4. n \in 1..n
    <3> HIDE DEF n
    <3> QED BY <2>1, <2>2
  <2> QED BY <1>0, <1>1, <2>3, <2>4, LargosDe
<1> HIDE DEF l, e, s, le, ls, j, k, a, entradas, salidas, me, ms, ue, us, cn, an
<1>7. Pasar(b, i, 4) = j
  <2>1. i + 4 <= Len(b)
    BY <1>3 DEF j, l
  <2> QED BY <1>0, <2>1, PasarDentro DEF j, l
<1>8. (k + ms) + us + 4 <= l
  BY <1>2, <1>3, <1>4, <1>5
<1>9. /\ 9 <= us
      /\ (\A h \in 1..Len(t.tx_out) : (k + ms) + Len(Unidos(Partes(t.tx_out, 8, 0))[h - 1]) + 8 + 10 <= l)
         <=> (k + ms) + us + 10 <= l + an + cn
  <2>1. k + ms \in Nat
    BY <1>3, <1>4
  <2> QED BY <1>0, <1>1, <1>8, <2>1, SalidasCaben DEF us, an, cn
<1>10. \A h \in 1..Len(t.tx_in) : (j + me) + Len(Unidos(Partes(t.tx_in, 36, 4))[h - 1]) + 36 + 10 <= l
  <2>1. j + me \in Nat /\ (j + me) + ue + 5 <= l
    BY <1>0, <1>3, <1>4, <1>5, <1>8, <1>9 DEF k
  <2> QED BY <1>0, <1>1, <2>1, EntradasCaben DEF ue
<1>11. j + 10 <= l /\ k + 10 <= l
  BY <1>0, <1>2, <1>3, <1>4, <1>5, <1>8, <1>9 DEF k
<1>12. entradas = [scripts |-> t.tx_in, indice |-> k]
  <2>1. SeLeen(b, j, t.tx_in, 36, 4)
    BY <1>10, <1>11 DEF me, l, SeLeen, Caben
  <2>2. Esta(b, j, ScriptsAsBytes(t.tx_in, 36, 4))
    BY <1>2 DEF e
  <2>3. LeerScripts(b, j, 36, 4) = [scripts |-> t.tx_in, indice |-> j + Len(ScriptsAsBytes(t.tx_in, 36, 4))]
    BY <1>0, <1>1, <1>3, <2>1, <2>2, ScriptsLeidos
  <2> QED BY <1>7, <2>3 DEF entradas, k, le, e
<1>13. entradas.indice = k /\ entradas.scripts = t.tx_in
  BY <1>12
<1>14. IF (k + ms) + us + 10 <= l + an + cn
       THEN salidas = [scripts |-> t.tx_out, indice |-> k + ls]
       ELSE salidas.indice = Fuera
  <2>1. SeLeen(b, k, t.tx_out, 8, 0) <=> (k + ms) + us + 10 <= l + an + cn
    BY <1>9, <1>11 DEF ms, l, SeLeen, Caben
  <2>2. Esta(b, k, ScriptsAsBytes(t.tx_out, 8, 0))
    BY <1>2 DEF s
  <2>4. IF SeLeen(b, k, t.tx_out, 8, 0)
        THEN LeerScripts(b, k, 8, 0) = [scripts |-> t.tx_out, indice |-> k + Len(ScriptsAsBytes(t.tx_out, 8, 0))]
        ELSE LeerScripts(b, k, 8, 0).indice = Fuera
    <3> DEFINE x == t.tx_out
               antes == 8
               despues == 0
    <3>1. /\ antes \in Nat /\ despues \in Nat /\ x \in Cortas(Cortas(Digitos)) /\ k \in Nat
          /\ Esta(b, k, ScriptsAsBytes(x, antes, despues))
      BY <1>1, <1>3, <2>2
    <3> HIDE DEF x, antes, despues
    <3>2. IF SeLeen(b, k, x, antes, despues)
          THEN LeerScripts(b, k, antes, despues) = [scripts |-> x, indice |-> k + Len(ScriptsAsBytes(x, antes, despues))]
          ELSE LeerScripts(b, k, antes, despues).indice = Fuera
      BY <3>1, ScriptsLeidos
    <3> QED BY <3>2 DEF x, antes, despues
  <2>3. IF (k + ms) + us + 10 <= l + an + cn
        THEN LeerScripts(b, k, 8, 0) = [scripts |-> t.tx_out, indice |-> k + Len(ScriptsAsBytes(t.tx_out, 8, 0))]
        ELSE LeerScripts(b, k, 8, 0).indice = Fuera
    BY <2>1, <2>4
  <2> QED BY <1>13, <2>3 DEF salidas, ls, s
<1>15. (k + ms) + us + 10 <= l + an + cn <=> i + Len(a) + 10 <= l + Cola(t)
  <2>1. (k + ms) + us = k + ls
    BY <1>3, <1>4, <1>5
  <2>2. Cola(t) = an + cn + 4
    BY DEF Cola, an, cn
  <2>3. i + Len(a) = k + ls + 4
    BY <1>3
  <2>4. k + ls \in Nat
    BY <1>2, <1>3
  <2>5. k + ls + 10 <= l + an + cn <=> (k + ls + 4) + 10 <= l + (an + cn + 4)
    <3> DEFINE x == k + ls
               y == an + cn
    <3>1. x \in Nat /\ y \in Nat /\ l + (an + cn + 4) = l + y + 4 /\ l + an + cn = l + y
      BY <1>0, <1>6, <2>4
    <3> HIDE DEF x, y
    <3>2. x + 10 <= l + y <=> (x + 4) + 10 <= l + y + 4
      BY <1>0, <3>1
    <3> QED BY <3>1, <3>2 DEF x
  <2> QED BY <2>1, <2>2, <2>3, <2>5
<1>16. FromBytes(b, i) = [txn |-> [version |-> DeLe(SubSeq(b, i + 1, i + 4)),
                                   tx_in |-> entradas.scripts, tx_out |-> salidas.scripts],
                          indice |-> Pasar(b, salidas.indice, 4)]
  BY DEF FromBytes, entradas, salidas
<1>17. DeLe(SubSeq(b, i + 1, i + 4)) = t.version
  <2> DEFINE v == LeBytes(t.version, 4)
             w == SubSeq(b, i + 1, i + 4)
  <2>1. v \in Seq(Digitos) /\ Len(v) = 4 /\ DeLe(v) = t.version
    <3>1. t.version \in Nat
      BY <1>1, Topes
    <3> QED BY <1>0, <1>1, <3>1, LeBytesDe, DeLeLeBytes
  <2>2. i + 4 <= Len(b)
    BY <1>3 DEF j, l
  <2>3. w \in Seq(Nat) /\ Len(w) = 4 /\ \A h \in 1..4 : w[h] = b[i + h]
    BY <1>0, <2>2, Rebanada
  <2>4. \A h \in 1..4 : b[i + h] = v[h]
    BY <1>2 DEF Esta
  <2> HIDE DEF v, w
  <2>5. v = [h \in 1..4 |-> v[h]] /\ w = [h \in 1..4 |-> w[h]]
    BY <2>1, <2>3
  <2>6. v = w
    BY <2>3, <2>4, <2>5
  <2> QED BY <2>1, <2>6 DEF w
<1>18. CASE i + Len(a) + 10 <= l + Cola(t)
  <2>1. salidas.scripts = t.tx_out /\ salidas.indice = k + ls
    BY <1>14, <1>15, <1>18
  <2>2. Pasar(b, k + ls, 4) = k + ls + 4
    <3>1. k + ls \in Nat /\ (k + ls) + 4 <= Len(b)
      BY <1>2, <1>3 DEF l
    <3> QED BY <1>0, <3>1, PasarDentro DEF l
  <2>3. FromBytes(b, i) = [txn |-> t, indice |-> i + Len(a)]
    BY <1>1, <1>3, <1>13, <1>16, <1>17, <2>1, <2>2
  <2> QED BY <1>18, <2>3 DEF a, l
<1>19. CASE ~(i + Len(a) + 10 <= l + Cola(t))
  <2>1. salidas.indice = Fuera
    BY <1>14, <1>15, <1>19
  <2>2. FromBytes(b, i).indice = Fuera
    <3>1. Pasar(b, Fuera, 4) = Fuera
      BY SinIndice
    <3>2. FromBytes(b, i).indice = Pasar(b, salidas.indice, 4)
      BY <1>16
    <3> QED BY <2>1, <3>1, <3>2
  <2> QED BY <1>19, <2>2 DEF a, l
<1> QED BY <1>18, <1>19

\* The transactions of a block, written.
Trozos(ts) == [i \in DOMAIN ts |-> AsBytes(ts[i])]

\* Where the transaction after the first k of a block begins.
Posicion(ts, k) == Len(Nuevo(Len(ts))) + Len(Unidos(Trozos(ts))[k])

\* A block is what its sender wrote, and as many bytes more as it says.
BienFormado(r) ==
    /\ r.bytes \in Seq(Nat) /\ r.sobrantes \in Nat
    /\ r.txns \in Cortas(Transacciones) /\ r.txns # << >>
    /\ \A k \in DOMAIN r.txns : r.txns[k].tx_out # << >>
    /\ Esta(r.bytes, 0, Escrito(r.txns))
    /\ Len(r.bytes) = Len(Escrito(r.txns)) + r.sobrantes

\* The layout of what is written of a block.
LEMMA EscritoEs ==
    ASSUME NEW ts \in Cortas(Transacciones), ts # << >>
    PROVE  /\ ts \in Seq(Transacciones) /\ Len(ts) \in Nat \ {0} /\ Len(ts) \in 0..Tope(8) - 1
           /\ \A k \in 1..Len(ts) : ts[k] \in Transacciones
           /\ \A k \in 0..Len(ts) : Posicion(ts, k) \in Nat
           /\ Posicion(ts, 0) = Len(Nuevo(Len(ts)))
           /\ \A k \in 1..Len(ts) : Posicion(ts, k) = Posicion(ts, k - 1) + Len(AsBytes(ts[k]))
           /\ Escrito(ts) \in Seq(Digitos) /\ Len(Escrito(ts)) = Posicion(ts, Len(ts))
           /\ \A b : Len(b) \in Nat /\ Esta(b, 0, Escrito(ts))
                     => /\ Esta(b, 0, Nuevo(Len(ts)))
                        /\ \A k \in 1..Len(ts) : Esta(b, Posicion(ts, k - 1), AsBytes(ts[k]))
<1> DEFINE n == Len(ts)
           m == Nuevo(n)
           p == Trozos(ts)
           u == Unidos(p)
           w == FlattenSeq(p)
           lm == Len(m)
<1>1. ts \in Seq(Transacciones) /\ n < Tope(8)
  BY DEF Cortas
<1>2. n \in Nat /\ n # 0 /\ DOMAIN ts = 1..n /\ \A k \in 1..n : ts[k] \in Transacciones
  BY <1>1
<1>3. n \in 0..Tope(8) - 1
  <2> HIDE DEF n
  <2> QED BY <1>1, <1>2, Topes
<1>4. p = [k \in 1..n |-> AsBytes(ts[k])]
  BY <1>2 DEF Trozos
<1> HIDE DEF n, p
<1>5. \A k \in 1..n : AsBytes(ts[k]) \in Seq(Digitos)
  BY <1>2, AsBytesEs
<1>6. p \in Seq(Seq(Digitos)) /\ Len(p) = n
  <2>1. p \in [1..n -> Seq(Digitos)]
    BY <1>4, <1>5
  <2> QED BY <1>2, <2>1
<1>7. /\ w = u[n] /\ u[n] \in Seq(Digitos)
  <2>1. n \in 0..n
    BY <1>2
  <2> QED BY <1>6, <2>1, UnidosPaso
<1>8. /\ Len(u[0]) = 0 /\ \A k \in 0..n : Len(u[k]) \in Nat
      /\ \A k \in 1..n : Len(u[k]) = Len(u[k - 1]) + Len(p[k])
  BY <1>6, UnidosLargo
<1>9. m \in Seq(Digitos) /\ lm \in 1..9
  BY <1>3, NuevoEs
<1> HIDE DEF m, w, u
<1>10. /\ m \o w \in Seq(Digitos) /\ Len(m \o w) = lm + Len(w)
       /\ \A b, i : i \in Nat /\ Len(b) \in Nat /\ Esta(b, i, m \o w) => Esta(b, i, m) /\ Esta(b, i + lm, w)
  BY <1>7, <1>9, EstanJuntos
<1>11. Escrito(ts) = m \o w
  BY DEF Escrito, m, w, p, n, Trozos
<1>12. \A k : Posicion(ts, k) = lm + Len(u[k])
  BY DEF Posicion, m, n, u, p
<1> HIDE DEF lm
<1>13. ASSUME NEW k \in 0..n PROVE Posicion(ts, k) \in Nat
  <2> DEFINE x == Len(u[k])
  <2>1. x \in Nat
    BY <1>8
  <2> HIDE DEF x
  <2>2. lm + x \in Nat
    BY <1>9, <2>1
  <2> QED BY <1>12, <2>2 DEF x
<1>14. Posicion(ts, 0) = lm
  BY <1>8, <1>9, <1>12
<1>15. ASSUME NEW k \in 1..n PROVE Posicion(ts, k) = Posicion(ts, k - 1) + Len(AsBytes(ts[k]))
  <2> DEFINE x == Len(u[k - 1])
             y == Len(AsBytes(ts[k]))
             z == Len(u[k])
  <2>1. x \in Nat
    <3>1. k - 1 \in 0..n
      BY <1>2
    <3> QED BY <1>8, <3>1
  <2>2. y \in Nat
    <3>1. AsBytes(ts[k]) \in Seq(Digitos)
      BY <1>5
    <3> QED BY <3>1
  <2>3. z = x + y
    BY <1>4, <1>8
  <2> HIDE DEF x, y, z
  <2>4. lm + z = (lm + x) + y
    BY <1>9, <2>1, <2>2, <2>3
  <2> QED BY <1>12, <2>4 DEF x, y, z
<1>16. ASSUME NEW b, Len(b) \in Nat, Esta(b, 0, Escrito(ts))
       PROVE  /\ Esta(b, 0, m)
              /\ \A k \in 1..n : Esta(b, Posicion(ts, k - 1), AsBytes(ts[k]))
  <2>0. 0 \in Nat /\ lm \in Nat /\ 0 + lm = lm
    BY <1>9
  <2>1. Esta(b, 0, m) /\ Esta(b, lm, w)
    BY <1>10, <1>11, <1>16, <2>0
  <2>2. \A k \in 1..n : Esta(b, lm + Len(u[k - 1]), p[k])
    BY <1>6, <1>16, <2>0, <2>1, EstaCadaParte DEF u, w
  <2>3. ASSUME NEW k \in 1..n PROVE Esta(b, Posicion(ts, k - 1), AsBytes(ts[k]))
    BY <1>4, <1>12, <2>2
  <2> QED BY <2>1, <2>3
<1>17. Len(Escrito(ts)) = Posicion(ts, n)
  BY <1>7, <1>10, <1>11, <1>12
<1> QED BY <1>1, <1>2, <1>3, <1>10, <1>11, <1>13, <1>14, <1>15, <1>16, <1>17 DEF n, m, lm

\* A transaction has at least ten bytes, so whatever comes before one can be looked at.
LEMMA LargoAsBytes ==
    ASSUME NEW t \in Transacciones, t.tx_out # << >>
    PROVE  Len(AsBytes(t)) \in Nat /\ Len(AsBytes(t)) >= 10 /\ Cola(t) \in Nat
<1> DEFINE le == Len(ScriptsAsBytes(t.tx_in, 36, 4))
           ls == Len(ScriptsAsBytes(t.tx_out, 8, 0))
           me == Len(Nuevo(Len(t.tx_in)))
           ms == Len(Nuevo(Len(t.tx_out)))
           n == Len(t.tx_out)
           cn == Len(Last(t.tx_out))
           an == Len(Nuevo(Len(Last(t.tx_out))))
           ue == Len(Unidos(Partes(t.tx_in, 36, 4))[Len(t.tx_in)])
<1>0. 36 \in Nat /\ 4 \in Nat /\ 8 \in Nat /\ 0 \in Nat
  OBVIOUS
<1>1. t.tx_in \in Cortas(Cortas(Digitos)) /\ t.tx_out \in Cortas(Cortas(Digitos))
  BY DEF Transacciones
<1>2. Len(AsBytes(t)) = 4 + le + ls + 4 /\ le \in Nat /\ ls \in Nat
  BY AsBytesEs
<1>3. ms \in 1..9 /\ me \in 1..9
  BY <1>0, <1>1, ScriptsPartes
<1>4. le = me + ue
  BY <1>0, <1>1, ScriptsPartes
<1>5. ls = ms + Len(Unidos(Partes(t.tx_out, 8, 0))[n])
  BY <1>0, <1>1, ScriptsPartes
<1>6. n \in Nat /\ n # 0
  <2>1. n \in Nat
    BY <1>0, <1>1, LargosDe
  <2>2. t.tx_out \in Seq(Cortas(Digitos))
    BY <1>1 DEF Cortas
  <2> QED BY <2>1, <2>2
<1>7. Last(t.tx_out) = t.tx_out[n]
  BY DEF Last
<1>8. an \in 1..9 /\ cn \in Nat
  <2>1. n \in 1..n
    <3> HIDE DEF n
    <3> QED BY <1>6
  <2> QED BY <1>0, <1>1, <1>7, <2>1, LargosDe
<1>9. Cola(t) = an + cn + 4
  BY DEF Cola
<1>10. ue \in Nat
  <2>1. Len(t.tx_in) \in Nat
    BY <1>0, <1>1, LargosDe
  <2>2. Len(t.tx_in) \in 0..Len(t.tx_in)
    BY <2>1
  <2> QED BY <1>0, <1>1, <2>2, LargosDe
<1>11. Len(Unidos(Partes(t.tx_out, 8, 0))[n]) \in Nat
  <2>1. n \in 0..n
    <3> HIDE DEF n
    <3> QED BY <1>6
  <2> QED BY <1>0, <1>1, <2>1, LargosDe
<1> HIDE DEF le, ls, me, ms, n, cn, an, ue
<1>12. le >= 1 /\ ls >= 1
  <2> DEFINE us == Len(Unidos(Partes(t.tx_out, 8, 0))[n])
  <2>1. us \in Nat /\ ls = ms + us
    BY <1>5, <1>11
  <2> HIDE DEF us
  <2>2. me \in 1..9 /\ ms \in 1..9
    BY <1>3
  <2>3. me + ue >= 1
    BY <1>10, <2>2
  <2>4. ms + us >= 1
    BY <2>1, <2>2
  <2> QED BY <1>4, <2>1, <2>3, <2>4
<1>13. Cola(t) \in Nat
  BY <1>8, <1>9
<1> QED BY <1>2, <1>12, <1>13

\* The count of the transactions of a block is read.
LEMMA CantidadEs ==
    ASSUME NEW r, BienFormado(r)
    PROVE  LeerNumero(r.bytes, 0) = [valor |-> Len(r.txns), indice |-> Posicion(r.txns, 0)]
<1> DEFINE ts == r.txns
           n == Len(ts)
           l == Len(r.bytes)
<1>1. ts \in Cortas(Transacciones) /\ ts # << >> /\ r.bytes \in Seq(Nat) /\ r.sobrantes \in Nat
      /\ Esta(r.bytes, 0, Escrito(ts)) /\ l = Len(Escrito(ts)) + r.sobrantes /\ \A k \in DOMAIN ts : ts[k].tx_out # << >>
  BY DEF BienFormado
<1>2. l \in Nat
  BY <1>1
<1> HIDE DEF ts, l
<1>3. /\ n \in Nat \ {0} /\ n \in 0..Tope(8) - 1 /\ ts[1] \in Transacciones /\ DOMAIN ts = 1..n
      /\ Posicion(ts, 0) = Len(Nuevo(n)) /\ Posicion(ts, 0) \in Nat
      /\ Posicion(ts, 1) = Posicion(ts, 1 - 1) + Len(AsBytes(ts[1]))
      /\ Esta(r.bytes, 0, Nuevo(n)) /\ Esta(r.bytes, Posicion(ts, 1 - 1), AsBytes(ts[1]))
  <2>1. n \in Nat \ {0} /\ ts \in Seq(Transacciones)
    BY <1>1, EscritoEs
  <2>2. DOMAIN ts = 1..n
    BY <2>1
  <2> HIDE DEF n
  <2>3. 1 \in 1..n /\ 0 \in 0..n
    BY <2>1
  <2>4. \A b : Len(b) \in Nat /\ Esta(b, 0, Escrito(ts))
               => /\ Esta(b, 0, Nuevo(n)) /\ \A k \in 1..n : Esta(b, Posicion(ts, k - 1), AsBytes(ts[k]))
    BY <1>1, EscritoEs DEF n
  <2>5. Esta(r.bytes, 0, Nuevo(n)) /\ Esta(r.bytes, Posicion(ts, 1 - 1), AsBytes(ts[1]))
    BY <1>1, <1>2, <2>3, <2>4 DEF l
  <2> QED BY <1>1, <2>1, <2>2, <2>3, <2>5, EscritoEs DEF n
<1>4. Len(AsBytes(ts[1])) \in Nat /\ Len(AsBytes(ts[1])) >= 10
  <2>1. 1 \in DOMAIN ts
    <3> HIDE DEF n
    <3> QED BY <1>3
  <2> QED BY <1>1, <1>3, <2>1, LargoAsBytes
<1>5. 0 + 10 <= l
  <2> DEFINE x == Len(AsBytes(ts[1]))
             y == Posicion(ts, 0)
  <2>1. y + x <= l
    <3>1. 1 - 1 = 0
      OBVIOUS
    <3> QED BY <1>3, <3>1 DEF Esta, l
  <2>2. x \in Nat /\ x >= 10 /\ y \in Nat
    BY <1>3, <1>4
  <2> HIDE DEF x, y
  <2> QED BY <1>2, <2>1, <2>2
<1>6. 0 + Len(Nuevo(n)) = Posicion(ts, 0) /\ 0 \in Nat
  <2> DEFINE y == Posicion(ts, 0)
  <2>1. y = Len(Nuevo(n)) /\ y \in Nat
    BY <1>3
  <2> HIDE DEF y
  <2>2. 0 + y = y
    BY <2>1
  <2> QED BY <2>1, <2>2 DEF y
<1> HIDE DEF n
<1>7. LeerNumero(r.bytes, 0) = [valor |-> n, indice |-> 0 + Len(Nuevo(n))]
  <2>1. 0 + 10 <= Len(r.bytes)
    BY <1>5 DEF l
  <2> QED BY <1>1, <1>3, <1>6, <2>1, LeerNumeroEs
<1> QED BY <1>6, <1>7 DEF n, ts

\* Each transaction of a block is read, but the last one if it ends too soon.
LEMMA TransaccionEs ==
    ASSUME NEW r, BienFormado(r), NEW k \in 1..Len(r.txns)
    PROVE  IF k # Len(r.txns) \/ Cola(Last(r.txns)) + r.sobrantes >= 10
           THEN FromBytes(r.bytes, Posicion(r.txns, k - 1)) = [txn |-> r.txns[k], indice |-> Posicion(r.txns, k)]
           ELSE FromBytes(r.bytes, Posicion(r.txns, k - 1)).indice = Fuera
<1> DEFINE ts == r.txns
           n == Len(ts)
           l == Len(r.bytes)
           i == Posicion(ts, k - 1)
           t == ts[k]
           c == Cola(t)
           x == Len(AsBytes(t))
           y == Posicion(ts, k)
           q == r.sobrantes
<1>1. ts \in Cortas(Transacciones) /\ ts # << >> /\ r.bytes \in Seq(Nat) /\ q \in Nat
      /\ Esta(r.bytes, 0, Escrito(ts)) /\ l = Len(Escrito(ts)) + q /\ \A j \in DOMAIN ts : ts[j].tx_out # << >>
  BY DEF BienFormado
<1>2. l \in Nat
  BY <1>1
<1>3. k \in 1..n
  OBVIOUS
<1> HIDE DEF ts, l
<1>4. /\ n \in Nat \ {0} /\ ts \in Seq(Transacciones) /\ \A j \in 1..n : ts[j] \in Transacciones
      /\ \A j \in 0..n : Posicion(ts, j) \in Nat
      /\ \A j \in 1..n : Posicion(ts, j) = Posicion(ts, j - 1) + Len(AsBytes(ts[j]))
      /\ Len(Escrito(ts)) = Posicion(ts, n)
  BY <1>1, EscritoEs
<1>5. \A j \in 1..n : Esta(r.bytes, Posicion(ts, j - 1), AsBytes(ts[j]))
  <2>1. \A b : Len(b) \in Nat /\ Esta(b, 0, Escrito(ts))
               => \A j \in 1..n : Esta(b, Posicion(ts, j - 1), AsBytes(ts[j]))
    BY <1>1, EscritoEs
  <2> QED BY <1>1, <1>2, <2>1 DEF l
<1>6. DOMAIN ts = 1..n
  BY <1>4
<1> HIDE DEF n
<1>7. t \in Transacciones /\ t.tx_out # << >> /\ i \in Nat /\ y \in Nat /\ y = i + x
  <2>1. k - 1 \in 0..n /\ k \in 0..n
    BY <1>3, <1>4
  <2> QED BY <1>1, <1>3, <1>4, <1>6, <2>1
<1>8. x \in Nat /\ c \in Nat
  BY <1>7, LargoAsBytes
<1>9. Esta(r.bytes, i, AsBytes(t))
  BY <1>3, <1>5
<1> HIDE DEF i, t, c, x, y, q
<1>10. IF i + x + 10 <= l + c
       THEN FromBytes(r.bytes, i) = [txn |-> t, indice |-> i + x]
       ELSE FromBytes(r.bytes, i).indice = Fuera
  BY <1>1, <1>7, <1>9, FromBytesEs DEF x, c, l
<1>11. CASE k # n
  <2> DEFINE h == k + 1
             v == Len(AsBytes(ts[h]))
  <2>1. h \in 1..n /\ h - 1 = k
    BY <1>3, <1>4, <1>11
  <2> HIDE DEF h
  <2>2. v \in Nat /\ v >= 10
    BY <1>1, <1>4, <1>6, <2>1, LargoAsBytes
  <2>3. y + v <= l
    BY <1>5, <2>1 DEF Esta, l, y
  <2> HIDE DEF v
  <2>4. i + x + 10 <= l + c
    BY <1>2, <1>7, <1>8, <2>2, <2>3
  <2> QED BY <1>7, <1>10, <1>11, <2>4 DEF n, ts, i, t, y
<1>12. CASE k = n
  <2>1. l = y + q
    BY <1>1, <1>4, <1>12 DEF y
  <2>2. i + x + 10 <= l + c <=> c + q >= 10
    BY <1>1, <1>7, <1>8, <2>1
  <2>3. Last(ts) = t
    BY <1>12 DEF Last, t, n
  <2>4. c + q >= 10 <=> Cola(Last(r.txns)) + r.sobrantes >= 10
    BY <2>3 DEF c, q, ts
  <2> QED BY <1>7, <1>10, <1>12, <2>2, <2>4 DEF n, ts, i, t, y
<1> QED BY <1>11, <1>12
-----------------------------------------------------------------------------
(* The invariants.                                                         *)

Fases == {"cantidad", "txn", "trabajo", "inclusion", "aceptado"} \cup Rechazos \cup PasosDeLaPrueba

\* What is read stays inside of the bytes and of the count.
LecturaInv ==
    /\ bloque \in Recibidos /\ pc \in Fases
    /\ pc # "panico" => indice \in 0..Len(bloque.bytes)
    /\ cantidad \in Nat /\ EsSecuencia(txns) /\ Len(txns) <= cantidad
    /\ pc = "cantidad" => txns = << >>

\* The phases in which there are levels.
ConNiveles == {"inclusion", "aceptado"} \cup PasosDeLaPrueba

\* h has the levels from that of the transactions on, n of them.
Niveles(h, n) ==
    /\ n \in Nat \ {0} /\ h[1] = Txids(txns)
    /\ \A k \in 1..n : EsSecuencia(h[k])
    /\ \A k \in 1..n - 1 : Len(h[k]) # 1 /\ h[k + 1] = Padres(Completar(h[k]))

\* The tree has the first of those levels, completed except the last one it has.
Crecido(h, n) ==
    /\ EsSecuencia(arbol) /\ Len(arbol) \in 1..n
    /\ arbol[Len(arbol)] = h[Len(arbol)]
    /\ \A k \in 1..Len(arbol) - 1 : arbol[k] = Completar(h[k])
    /\ pc # "arbol" => Len(arbol) = n

\* The level is the last of some that begin with the transactions, and the tree has the same ones.
PisosInv ==
    /\ pc \in ConNiveles =>
          \E h : \E n :
             /\ Niveles(h, n) /\ nivel = h[n]
             /\ pc # "inclusion" => Len(nivel) = 1 /\ nivel[1] = bloque.raiz
             /\ pc \in PasosDeLaPrueba => Crecido(h, n)
    /\ pc \notin PasosDeLaPrueba => arbol = << >>

\* What the path has led to so far.
CaminoInv ==
    /\ pc \in {"subir", "plegar", "mostrada"} \/ prueba = << >>
    /\ pc = "subir" =>
          /\ EsSecuencia(prueba) /\ Piso \in 1..Len(arbol)
          /\ posicion \in 0..Len(arbol[Piso]) - 1
          /\ Plegar(prueba) = arbol[Piso][posicion + 1]
          /\ buscada \in Range(txns)
    /\ pc \in {"plegar", "mostrada"} => Piso <= Len(arbol)
    /\ pc = "plegar" => IF buscada \in Range(txns) THEN Plegar(prueba) = nivel[1] ELSE prueba = << >>
    /\ pc = "mostrada" => raiz = IF buscada \in Range(txns) THEN nivel[1] ELSE Nada

IInv == LecturaInv /\ PisosInv /\ CaminoInv

\* The bytes that arrive are whole numbers.
LEMMA BytesDe == ASSUME NEW r \in Recibidos PROVE r.bytes \in Seq(Nat) /\ Len(r.bytes) \in Nat
<1>1. r.bytes \in Seq(0..Base - 1)
  BY ValidacionAssumption
<1> DEFINE b == r.bytes
           digitos == 0..Base - 1
           l == Len(b)
<1>2. b \in Seq(digitos)
  BY <1>1
<1>3. \A d \in digitos : d \in Nat
  BY BaseAssumption
<1> HIDE DEF b, digitos
<1>4. l \in Nat /\ b \in [1..l -> digitos]
  BY <1>2
<1> HIDE DEF l
<1>5. b \in [1..l -> Nat]
  BY <1>3, <1>4
<1>6. b \in Seq(Nat)
  BY <1>4, <1>5
<1> QED BY <1>4, <1>6 DEF b, l

\* A block that arrives has nothing read, no level and no path.
LEMMA IInvInit == Init => IInv
<1> SUFFICES ASSUME Init PROVE IInv
  OBVIOUS
<1>1. Len(bloque.bytes) \in Nat
  BY BytesDe DEF Init
<1>2. LecturaInv
  BY <1>1, SecuenciaVacia DEF Init, LecturaInv, Fases
<1>3. PisosInv
  BY DEF Init, PisosInv, ConNiveles, PasosDeLaPrueba
<1>4. CaminoInv
  BY DEF Init, CaminoInv
<1> QED BY <1>2, <1>3, <1>4 DEF IInv
-----------------------------------------------------------------------------
(* Reading. *)

\* A step of the phases before the levels, which leaves the tree alone.
LEMMA SinNiveles ==
    ASSUME PisosInv, CaminoInv, UNCHANGED <<camino>>,
           pc \notin ConNiveles, pc' \notin ConNiveles
    PROVE  PisosInv' /\ CaminoInv'
  BY DEF PisosInv, CaminoInv, ConNiveles, PasosDeLaPrueba, camino

\* The count is a number, and the index is after it.
LEMMA TrasLeerCantidad ==
    ASSUME LecturaInv, LeerCantidad
    PROVE  LecturaInv'
<1> DEFINE b == bloque.bytes
           n == LeerNumero(b, 0)
<1>1. b \in Seq(Nat) /\ Len(b) \in Nat
  BY BytesDe DEF LecturaInv
<1>2. n.valor \in Nat /\ n.indice \in Indices(b)
  <2>1. 0 \in Indices(b)
    BY <1>1 DEF Indices
  <2> HIDE DEF b
  <2> QED BY <1>1, <2>1, LeerNumeroDe
<1>3. cantidad' = n.valor /\ indice' = n.indice /\ pc' = IF n.indice = Fuera THEN "panico" ELSE "txn"
  BY DEF LeerCantidad
<1>4. bloque' = bloque /\ txns' = << >> /\ bloque \in Recibidos
  BY DEF LeerCantidad, LecturaInv
<1>5. Len(txns') = 0 /\ EsSecuencia(txns')
  BY <1>4, SecuenciaVacia
<1> HIDE DEF n
<1>6. pc' # "panico" => indice' \in 0..Len(b)
  BY <1>2, <1>3 DEF Indices
<1> QED BY <1>2, <1>3, <1>4, <1>5, <1>6 DEF LecturaInv, Fases, Rechazos

\* One more transaction, below the count.
LEMMA TrasLeerTxn ==
    ASSUME LecturaInv, LeerTxn
    PROVE  LecturaInv'
<1> DEFINE b == bloque.bytes
           leida == FromBytes(b, indice)
<1>1. b \in Seq(Nat) /\ Len(b) \in Nat
  BY BytesDe DEF LecturaInv
<1>2. leida.indice \in Indices(b)
  <2>1. indice \in Indices(b)
    BY <1>1 DEF Indices, LecturaInv, LeerTxn
  <2> HIDE DEF b
  <2> QED BY <1>1, <2>1, FromBytesDe
<1>3. /\ indice' = leida.indice
      /\ IF leida.indice = Fuera THEN pc' = "panico" /\ txns' = txns
         ELSE txns' = Append(txns, leida.txn) /\ pc' = pc
  BY DEF LeerTxn
<1>4. /\ bloque' = bloque /\ bloque \in Recibidos /\ cantidad' = cantidad /\ cantidad \in Nat
      /\ pc = "txn" /\ Len(txns) < cantidad /\ EsSecuencia(txns)
  BY DEF LeerTxn, LecturaInv
<1> HIDE DEF leida
<1>5. EsSecuencia(txns') /\ Len(txns') <= cantidad
  <2> DEFINE t == Append(txns, leida.txn)
  <2>1. Len(txns) \in Nat
    BY <1>4, Secuencia
  <2>2. EsSecuencia(t) /\ Len(t) = Len(txns) + 1
    BY <1>4, SecuenciaCrece
  <2> HIDE DEF t
  <2>3. txns' \in {txns, t}
    BY <1>3 DEF t
  <2> QED BY <1>4, <2>1, <2>2, <2>3
<1>6. pc' # "panico" => indice' \in 0..Len(b)
  BY <1>2, <1>3 DEF Indices
<1>7. pc' \in {"panico", "txn"}
  BY <1>3, <1>4
<1> QED BY <1>4, <1>5, <1>6, <1>7 DEF LecturaInv, Fases, Rechazos

\* The phases change and what is read does not.
LEMMA LecturaQuieta ==
    ASSUME LecturaInv, UNCHANGED <<bloque, leido>>, pc' \in Fases, pc' # "cantidad", pc # "panico"
    PROVE  LecturaInv'
  BY DEF LecturaInv, leido
-----------------------------------------------------------------------------
(* The levels of proof_of_inclusion.                                       *)

\* The first level is that of the transactions.
LEMMA TrasProbarTrabajo ==
    ASSUME IInv, ProbarTrabajo
    PROVE  IInv'
<1>1. pc' \in {"panico", "inclusion", "rechazado"} /\ pc = "trabajo"
  BY DEF ProbarTrabajo
<1>2. LecturaInv'
  <2>1. pc' \in Fases
    BY <1>1 DEF Fases, Rechazos
  <2> QED BY <1>1, <2>1, LecturaQuieta DEF ProbarTrabajo, IInv
<1>3. UNCHANGED <<bloque, leido, camino>> /\ arbol = << >> /\ prueba = << >> /\ EsSecuencia(txns)
  BY <1>1 DEF ProbarTrabajo, IInv, LecturaInv, PisosInv, CaminoInv, PasosDeLaPrueba
<1>4. arbol' = << >> /\ prueba' = << >> /\ txns' = txns
  BY <1>3 DEF camino, leido
<1>5. CaminoInv'
  BY <1>1, <1>4 DEF CaminoInv
<1>6. PisosInv'
  <2>1. CASE pc' = "inclusion"
    <3>0. PICK h : h = [k \in 1..1 |-> Txids(txns)]
      OBVIOUS
    <3>1. nivel' = Txids(txns)
      BY <2>1 DEF ProbarTrabajo
    <3>2. h[1] = Txids(txns) /\ EsSecuencia(h[1])
      BY <1>3, <3>0, TxidsDe
    <3>3. Niveles(h, 1)'
      BY <1>4, <3>2 DEF Niveles
    <3> QED BY <1>4, <2>1, <3>1, <3>2, <3>3 DEF PisosInv, PasosDeLaPrueba
  <2>2. CASE pc' # "inclusion"
    BY <1>1, <1>4, <2>2 DEF PisosInv, ConNiveles, PasosDeLaPrueba
  <2> QED BY <2>1, <2>2
<1> QED BY <1>2, <1>5, <1>6 DEF IInv

\* One more level.
LEMMA TrasReducirNivel ==
    ASSUME IInv, ReducirNivel
    PROVE  IInv'
<1>1. pc = "inclusion" /\ pc' = pc /\ Len(nivel) # 1 /\ nivel' = Padres(Completar(nivel))
      /\ txns' = txns /\ arbol' = arbol /\ prueba' = prueba
  BY DEF ReducirNivel, leido, camino
<1>2. LecturaInv'
  BY <1>1, LecturaQuieta DEF ReducirNivel, IInv, Fases
<1>3. arbol = << >> /\ prueba = << >>
  BY <1>1 DEF IInv, PisosInv, CaminoInv, PasosDeLaPrueba
<1>4. CaminoInv'
  BY <1>1, <1>3 DEF CaminoInv
<1>5. PICK h : \E n : Niveles(h, n) /\ nivel = h[n]
  BY <1>1 DEF IInv, PisosInv, ConNiveles
<1>6. PICK n : Niveles(h, n) /\ nivel = h[n]
  BY <1>5
<1>0. PICK g : g = [k \in 1..n + 1 |-> IF k = n + 1 THEN Padres(Completar(nivel)) ELSE h[k]]
  OBVIOUS
<1>7. n \in Nat \ {0} /\ EsSecuencia(nivel)
  BY <1>6 DEF Niveles
<1>8. g[n + 1] = nivel' /\ \A k \in 1..n : g[k] = h[k]
  BY <1>0, <1>1, <1>7
<1>9. EsSecuencia(nivel')
  <2> DEFINE c == Completar(nivel)
  <2>1. EsSecuencia(c)
    BY <1>7, Completa
  <2> HIDE DEF c
  <2>2. EsSecuencia(Padres(c))
    BY <2>1, PadresDe
  <2> QED BY <1>1, <2>2 DEF c
<1>10. Niveles(g, n + 1)'
  <2>1. n + 1 \in Nat \ {0} /\ g[1] = Txids(txns')
    BY <1>1, <1>6, <1>7, <1>8 DEF Niveles
  <2>2. ASSUME NEW k \in 1..n + 1 PROVE EsSecuencia(g[k])
    BY <1>6, <1>7, <1>8, <1>9 DEF Niveles
  <2>3. ASSUME NEW k \in 1..n PROVE Len(g[k]) # 1 /\ g[k + 1] = Padres(Completar(g[k]))
    <3>1. CASE k = n
      <4>1. g[k] = nivel /\ g[k + 1] = nivel'
        BY <1>6, <1>7, <1>8, <3>1
      <4> QED BY <1>1, <4>1
    <3>2. CASE k # n
      <4>1. k \in 1..n - 1 /\ k + 1 \in 1..n
        BY <1>7, <3>2
      <4>2. g[k] = h[k] /\ g[k + 1] = h[k + 1]
        BY <1>8, <4>1
      <4>3. Len(h[k]) # 1 /\ h[k + 1] = Padres(Completar(h[k]))
        BY <1>6, <4>1 DEF Niveles
      <4> QED BY <4>2, <4>3
    <3> QED BY <3>1, <3>2
  <2>4. (n + 1) - 1 = n
    BY <1>7
  <2> QED BY <2>1, <2>2, <2>3, <2>4 DEF Niveles
<1>11. PisosInv'
  <2>1. pc' = "inclusion" /\ pc' \notin PasosDeLaPrueba /\ arbol' = << >> /\ nivel' = g[n + 1]
    BY <1>1, <1>3, <1>8 DEF PasosDeLaPrueba
  <2> QED BY <1>10, <2>1 DEF PisosInv
<1> QED BY <1>2, <1>4, <1>11 DEF IInv

\* The last level is the root of the header, or the block is rejected.
LEMMA TrasCompararRaiz ==
    ASSUME IInv, CompararRaiz
    PROVE  IInv'
<1>1. /\ pc = "inclusion" /\ Len(nivel) = 1 /\ nivel' = nivel /\ bloque' = bloque
      /\ pc' = IF nivel[1] = bloque.raiz THEN "aceptado" ELSE "rechazado"
      /\ txns' = txns /\ arbol' = arbol /\ prueba' = prueba
  BY DEF CompararRaiz, leido, camino
<1>2. pc' \in {"aceptado", "rechazado"} /\ pc' \in Fases
  BY <1>1 DEF Fases, Rechazos
<1>3. LecturaInv'
  BY <1>1, <1>2, LecturaQuieta DEF CompararRaiz, IInv
<1>4. arbol = << >> /\ prueba = << >>
  BY <1>1 DEF IInv, PisosInv, CaminoInv, PasosDeLaPrueba
<1>5. CaminoInv'
  BY <1>1, <1>2, <1>4 DEF CaminoInv
<1>6. PICK h : \E n : Niveles(h, n) /\ nivel = h[n]
  BY <1>1 DEF IInv, PisosInv, ConNiveles
<1>7. PICK n : Niveles(h, n) /\ nivel = h[n]
  BY <1>6
<1>8. Niveles(h, n)'
  BY <1>1, <1>7 DEF Niveles
<1>9. PisosInv'
  <2>1. pc' \notin PasosDeLaPrueba /\ arbol' = << >> /\ nivel' = h[n]
    BY <1>1, <1>2, <1>4, <1>7 DEF PasosDeLaPrueba
  <2>2. pc' \in ConNiveles => Len(nivel') = 1 /\ nivel'[1] = bloque'.raiz
    BY <1>1 DEF ConNiveles, PasosDeLaPrueba
  <2> QED BY <1>8, <2>1, <2>2 DEF PisosInv
<1> QED BY <1>3, <1>5, <1>9 DEF IInv
-----------------------------------------------------------------------------
(* The tree of merkle_proof.                                               *)

\* What is known of a block that is accepted.
LEMMA ConPisos ==
    ASSUME IInv, pc \in {"aceptado"} \cup PasosDeLaPrueba
    PROVE  /\ Len(nivel) = 1 /\ nivel[1] = bloque.raiz
           /\ \E h : \E n : /\ Niveles(h, n) /\ nivel = h[n]
                            /\ pc \in PasosDeLaPrueba => Crecido(h, n)
<1>1. pc \in ConNiveles /\ pc # "inclusion"
  BY DEF ConNiveles, PasosDeLaPrueba
<1> QED BY <1>1 DEF IInv, PisosInv

\* The levels and the tree are enough for the next state.
LEMMA PisosDespues ==
    ASSUME IInv, NEW h, NEW n, Niveles(h, n), nivel = h[n], Len(nivel) = 1, nivel[1] = bloque.raiz,
           UNCHANGED <<bloque, leido, nivel>>, pc' \in PasosDeLaPrueba, Crecido(h, n)'
    PROVE  PisosInv'
<1>1. Niveles(h, n)' /\ nivel' = h[n] /\ Len(nivel') = 1 /\ nivel'[1] = bloque'.raiz
  BY DEF Niveles, leido
<1> QED BY <1>1 DEF PisosInv

\* The tree begins with the level that proof_of_inclusion began with.
LEMMA TrasPedirPrueba ==
    ASSUME IInv, NEW t, PedirPrueba(t)
    PROVE  IInv'
<1>1. /\ pc = "aceptado" /\ pc' = "arbol" /\ arbol' = <<Txids(txns)>> /\ prueba' = prueba
      /\ UNCHANGED <<bloque, leido, nivel>>
  BY DEF PedirPrueba
<1>2. LecturaInv'
  BY <1>1, LecturaQuieta DEF IInv, Fases, PasosDeLaPrueba
<1>3. CaminoInv'
  BY <1>1 DEF IInv, CaminoInv
<1>4. /\ Len(nivel) = 1 /\ nivel[1] = bloque.raiz
      /\ \E h : \E n : Niveles(h, n) /\ nivel = h[n]
  BY <1>1, ConPisos
<1>5. PICK h : \E n : Niveles(h, n) /\ nivel = h[n]
  BY <1>4
<1>6. PICK n : Niveles(h, n) /\ nivel = h[n]
  BY <1>5
<1>7. Crecido(h, n)'
  <2>1. PICK x : x = Txids(txns)
    OBVIOUS
  <2>2. EsSecuencia(<<x>>) /\ Len(<<x>>) = 1 /\ <<x>>[1] = x
    <3>1. <<x>> \in Seq({x}) /\ Len(<<x>>) = 1 /\ <<x>>[1] = x
      OBVIOUS
    <3> QED BY <3>1 DEF EsSecuencia
  <2>3. arbol' = <<x>> /\ h[1] = x /\ n \in Nat \ {0}
    BY <1>1, <1>6, <2>1 DEF Niveles
  <2>4. EsSecuencia(arbol') /\ Len(arbol') = 1 /\ arbol'[1] = x
    BY <2>2, <2>3
  <2> QED BY <1>1, <2>3, <2>4 DEF Crecido
<1>8. PisosInv'
  BY <1>1, <1>4, <1>6, <1>7, PisosDespues DEF PasosDeLaPrueba
<1> QED BY <1>2, <1>3, <1>8 DEF IInv

\* The tree gets the level after its last one.
LEMMA TrasCrecerArbol ==
    ASSUME IInv, CrecerArbol
    PROVE  IInv'
<1> DEFINE m == Len(arbol)
           lleno == Completar(Last(arbol))
           a == [arbol EXCEPT ![m] = lleno]
<1>1. /\ pc = "arbol" /\ pc' = pc /\ Len(Last(arbol)) # 1 /\ prueba' = prueba
      /\ arbol' = Append(a, Padres(lleno))
      /\ UNCHANGED <<bloque, leido, nivel>>
  BY DEF CrecerArbol
<1>2. LecturaInv'
  BY <1>1, LecturaQuieta DEF IInv, Fases, PasosDeLaPrueba
<1>3. CaminoInv'
  BY <1>1 DEF IInv, CaminoInv
<1>4. /\ Len(nivel) = 1 /\ nivel[1] = bloque.raiz
      /\ \E h : \E n : Niveles(h, n) /\ nivel = h[n] /\ Crecido(h, n)
  BY <1>1, ConPisos DEF PasosDeLaPrueba
<1>5. PICK h : \E n : Niveles(h, n) /\ nivel = h[n] /\ Crecido(h, n)
  BY <1>4
<1>6. PICK n : Niveles(h, n) /\ nivel = h[n] /\ Crecido(h, n)
  BY <1>5
<1>7. n \in Nat \ {0} /\ m \in 1..n /\ EsSecuencia(arbol) /\ arbol[m] = h[m]
      /\ \A k \in 1..m - 1 : arbol[k] = Completar(h[k])
  BY <1>6 DEF Niveles, Crecido
<1>8. Last(arbol) = h[m] /\ m \in Nat /\ DOMAIN arbol = 1..m
  BY <1>7, UltimoDe, Secuencia
<1>9. m # n
  BY <1>1, <1>4, <1>6, <1>8
<1>10. m \in 1..n - 1 /\ m + 1 \in 1..n
  BY <1>7, <1>9
<1> HIDE DEF m
<1>11. h[m + 1] = Padres(Completar(h[m]))
  BY <1>6, <1>10 DEF Niveles
<1>12. lleno = Completar(h[m]) /\ h[m + 1] = Padres(lleno)
  BY <1>8, <1>11
<1> HIDE DEF lleno
<1>13. /\ DOMAIN a = 1..m /\ a[m] = lleno /\ a = [i \in 1..m |-> a[i]]
       /\ \A k \in 1..m - 1 : a[k] = arbol[k]
  <2>1. a = [i \in DOMAIN arbol |-> IF i = m THEN lleno ELSE arbol[i]]
    OBVIOUS
  <2>2. a = [i \in 1..m |-> IF i = m THEN lleno ELSE arbol[i]]
    BY <1>8, <2>1
  <2> HIDE DEF a
  <2>3. DOMAIN a = 1..m /\ a = [i \in 1..m |-> a[i]]
    BY <2>2
  <2>4. a[m] = lleno /\ \A k \in 1..m - 1 : a[k] = arbol[k]
    BY <1>8, <1>10, <2>2
  <2> QED BY <2>3, <2>4
<1> HIDE DEF a
<1>14. EsSecuencia(a) /\ Len(a) = m
  BY <1>8, <1>13, SecuenciaDe
<1>15. /\ EsSecuencia(arbol') /\ Len(arbol') = m + 1 /\ arbol'[m + 1] = h[m + 1]
       /\ \A k \in 1..m : arbol'[k] = a[k]
  <2> DEFINE x == Padres(lleno)
  <2> HIDE DEF x
  <2>1. arbol' = Append(a, x) /\ h[m + 1] = x
    BY <1>1, <1>12 DEF x
  <2>2. /\ EsSecuencia(Append(a, x)) /\ Len(Append(a, x)) = m + 1 /\ Append(a, x)[m + 1] = x
        /\ \A k \in 1..m : Append(a, x)[k] = a[k]
    BY <1>14, SecuenciaCrece
  <2> QED BY <2>1, <2>2
<1>16. ASSUME NEW k \in 1..m PROVE arbol'[k] = Completar(h[k])
  <2>1. CASE k = m
    BY <1>12, <1>13, <1>15, <2>1
  <2>2. CASE k # m
    <3>1. k \in 1..m - 1
      BY <1>8, <2>2
    <3> QED BY <1>7, <1>13, <1>15, <3>1
  <2> QED BY <2>1, <2>2
<1>17. Crecido(h, n)'
  <2>1. (m + 1) - 1 = m
    BY <1>8
  <2> QED BY <1>1, <1>10, <1>15, <1>16, <2>1 DEF Crecido
<1>18. PisosInv'
  BY <1>1, <1>4, <1>6, <1>17, PisosDespues DEF PasosDeLaPrueba
<1> QED BY <1>2, <1>3, <1>18 DEF IInv

\* What is known of the tree once its last level has one hash.
LEMMA ArbolEntero ==
    ASSUME IInv, pc \in PasosDeLaPrueba, pc # "arbol" \/ Len(Last(arbol)) = 1
    PROVE  /\ Len(nivel) = 1 /\ nivel[1] = bloque.raiz
           /\ \E h : \E n : Niveles(h, n) /\ nivel = h[n] /\ Crecido(h, n) /\ Len(arbol) = n
<1>1. /\ Len(nivel) = 1 /\ nivel[1] = bloque.raiz
      /\ \E h : \E n : Niveles(h, n) /\ nivel = h[n] /\ Crecido(h, n)
  BY ConPisos
<1>2. PICK h : \E n : Niveles(h, n) /\ nivel = h[n] /\ Crecido(h, n)
  BY <1>1
<1>3. PICK n : Niveles(h, n) /\ nivel = h[n] /\ Crecido(h, n)
  BY <1>2
<1>4. Len(arbol) = n
  <2>1. CASE pc # "arbol"
    BY <1>3, <2>1 DEF Crecido
  <2>2. CASE Len(Last(arbol)) = 1
    <3> DEFINE m == Len(arbol)
    <3>1. m \in 1..n /\ Len(h[m]) = 1 /\ n \in Nat
      BY <1>3, <2>2, UltimoDe DEF Crecido, Niveles
    <3> HIDE DEF m
    <3>2. \A k \in 1..n - 1 : Len(h[k]) # 1
      BY <1>3 DEF Niveles
    <3>3. m = n
      BY <3>1, <3>2
    <3> QED BY <3>3 DEF m
  <2> QED BY <2>1, <2>2
<1> QED BY <1>1, <1>3, <1>4

\* The tree does not change any more.
LEMMA PisosQuietos ==
    ASSUME IInv, pc \in PasosDeLaPrueba, pc # "arbol" \/ Len(Last(arbol)) = 1,
           UNCHANGED <<bloque, leido, nivel, arbol>>, pc' \in PasosDeLaPrueba
    PROVE  PisosInv'
<1>1. /\ Len(nivel) = 1 /\ nivel[1] = bloque.raiz
      /\ \E h : \E n : Niveles(h, n) /\ nivel = h[n] /\ Crecido(h, n) /\ Len(arbol) = n
  BY ArbolEntero
<1>2. PICK h : \E n : Niveles(h, n) /\ nivel = h[n] /\ Crecido(h, n) /\ Len(arbol) = n
  BY <1>1
<1>3. PICK n : Niveles(h, n) /\ nivel = h[n] /\ Crecido(h, n) /\ Len(arbol) = n
  BY <1>2
<1>4. Crecido(h, n)'
  BY <1>3 DEF Crecido
<1> QED BY <1>1, <1>3, <1>4, PisosDespues
-----------------------------------------------------------------------------
(* The path. *)

\* The first place of what is sought, and that it is one of the transactions or none.
LEMMA LugarDe ==
    ASSUME IInv, pc = "arbol", Len(Last(arbol)) = 1
    PROVE  LET lugares == {i \in DOMAIN arbol[1] : arbol[1][i] = Txid(buscada)} IN
           /\ lugares = {} <=> buscada \notin Range(txns)
           /\ lugares # {} => Min(lugares) \in lugares
           /\ EsSecuencia(arbol[1])
<1> DEFINE lugares == {i \in DOMAIN arbol[1] : arbol[1][i] = Txid(buscada)}
           s == Txids(txns)
           a == arbol[1]
<1>1. \E h : \E n : Niveles(h, n) /\ nivel = h[n] /\ Crecido(h, n) /\ Len(arbol) = n
  BY ArbolEntero DEF PasosDeLaPrueba
<1>2. PICK h : \E n : Niveles(h, n) /\ nivel = h[n] /\ Crecido(h, n) /\ Len(arbol) = n
  BY <1>1
<1>3. PICK n : Niveles(h, n) /\ nivel = h[n] /\ Crecido(h, n) /\ Len(arbol) = n
  BY <1>2
<1>4. EsSecuencia(txns) /\ Len(txns) \in Nat /\ DOMAIN txns = 1..Len(txns)
  BY Secuencia DEF IInv, LecturaInv
<1>5. EsSecuencia(s) /\ Len(s) = Len(txns) /\ \A i \in 1..Len(txns) : s[i] = <<txns[i]>>
  BY <1>4, TxidsDe DEF Txid
<1>6. a = s \/ a = Completar(s)
  <2>1. n \in Nat \ {0} /\ h[1] = s
    BY <1>3 DEF Niveles
  <2>2. CASE n = 1
    BY <1>3, <2>1, <2>2 DEF Crecido
  <2>3. CASE n # 1
    <3>1. 1 \in 1..Len(arbol) - 1
      BY <1>3, <2>1, <2>3
    <3> QED BY <1>3, <2>1, <3>1 DEF Crecido
  <2> QED BY <2>2, <2>3
<1> HIDE DEF s, a
<1>7. /\ EsSecuencia(a) /\ Len(a) \in Len(txns)..Len(txns) + 1
      /\ \A i \in 1..Len(txns) : a[i] = <<txns[i]>>
      /\ Len(a) = Len(txns) + 1 => Len(txns) # 0 /\ a[Len(txns) + 1] = <<txns[Len(txns)]>>
  <2>1. CASE a = s
    BY <1>4, <1>5, <2>1
  <2>2. CASE a = Completar(s)
    <3> DEFINE c == Completar(s)
    <3>1. /\ EsSecuencia(c) /\ Len(c) \in Len(s)..Len(s) + 1
          /\ \A i \in 1..Len(s) : c[i] = s[i]
          /\ Len(c) = Len(s) + 1 => Len(s) # 0 /\ c[Len(s) + 1] = s[Len(s)]
      BY <1>5, Completa
    <3> HIDE DEF c
    <3>2. a = c
      BY <2>2 DEF c
    <3> QED BY <1>4, <1>5, <3>1, <3>2
  <2> QED BY <1>6, <2>1, <2>2
<1>8. DOMAIN a = 1..Len(a) /\ Len(a) \in Nat
  BY <1>7, Secuencia
<1>9. ASSUME NEW i \in 1..Len(a) PROVE \E j \in 1..Len(txns) : a[i] = <<txns[j]>>
  <2>1. CASE i \in 1..Len(txns)
    BY <1>7, <2>1
  <2>2. CASE i \notin 1..Len(txns)
    <3>1. i = Len(txns) + 1 /\ Len(a) = Len(txns) + 1 /\ Len(txns) \in 1..Len(txns)
      BY <1>4, <1>7, <2>2
    <3> QED BY <1>7, <3>1
  <2> QED BY <2>1, <2>2
<1>10. lugares = {i \in 1..Len(a) : a[i] = <<buscada>>}
  BY <1>8 DEF a, Txid
<1>11. Range(txns) = {txns[j] : j \in 1..Len(txns)}
  BY <1>4 DEF Range
<1> HIDE DEF lugares
<1>12. ASSUME lugares # {} PROVE buscada \in Range(txns)
  <2>1. PICK i \in 1..Len(a) : a[i] = <<buscada>>
    BY <1>10, <1>12
  <2>2. PICK j \in 1..Len(txns) : a[i] = <<txns[j]>>
    BY <1>9
  <2>3. buscada = txns[j]
    BY <2>1, <2>2
  <2> QED BY <1>11, <2>3
<1>13. ASSUME buscada \in Range(txns) PROVE lugares # {}
  <2>1. PICK j \in 1..Len(txns) : buscada = txns[j]
    BY <1>11, <1>13
  <2>2. j \in 1..Len(a) /\ a[j] = <<txns[j]>>
    BY <1>4, <1>7
  <2> QED BY <1>10, <2>1, <2>2
<1>14. ASSUME lugares # {} PROVE Min(lugares) \in lugares
  <2>1. lugares \in SUBSET Nat
    BY <1>8, <1>10
  <2>2. \E x \in lugares : \A y \in lugares : x <= y
    BY <1>14, <2>1, Minimo
  <2> QED BY <2>2 DEF Min
<1>15. EsSecuencia(arbol[1])
  BY <1>7 DEF a
<1> QED BY <1>12, <1>13, <1>14, <1>15 DEF lugares

\* A sequence of one.
LEMMA DeUna == ASSUME NEW x PROVE EsSecuencia(<<x>>) /\ Len(<<x>>) = 1
<1>1. <<x>> \in Seq({x}) /\ Len(<<x>>) = 1
  OBVIOUS
<1> QED BY <1>1 DEF EsSecuencia

\* The path begins with the transaction, if the block has it.
LEMMA TrasBuscar ==
    ASSUME IInv, Buscar
    PROVE  IInv'
<1> DEFINE lugares == {i \in DOMAIN arbol[1] : arbol[1][i] = Txid(buscada)}
<1>1. /\ pc = "arbol" /\ Len(Last(arbol)) = 1 /\ arbol' = arbol /\ buscada' = buscada /\ raiz' = raiz
      /\ UNCHANGED <<bloque, leido, nivel>>
      /\ IF lugares = {} THEN pc' = "plegar" /\ prueba' = prueba
         ELSE /\ pc' = "subir" /\ posicion' = Min(lugares) - 1
              /\ prueba' = <<[hash |-> Txid(buscada), lado |-> Lado(posicion')]>>
  BY DEF Buscar
<1>2. /\ lugares = {} <=> buscada \notin Range(txns)
      /\ lugares # {} => Min(lugares) \in lugares
      /\ EsSecuencia(arbol[1])
  BY <1>1, LugarDe
<1> DEFINE i == Min(lugares)
<1>3. lugares # {} => i \in DOMAIN arbol[1] /\ arbol[1][i] = Txid(buscada)
  BY <1>2
<1> HIDE DEF i
<1>4. lugares # {} => posicion' = i - 1
  BY <1>1 DEF i
<1> HIDE DEF lugares
<1>5. pc' \in {"subir", "plegar"}
  BY <1>1
<1>6. LecturaInv'
  <2>1. pc' \in Fases
    BY <1>5 DEF Fases, PasosDeLaPrueba
  <2> QED BY <1>1, <1>5, <2>1, LecturaQuieta DEF IInv
<1>7. PisosInv'
  BY <1>1, <1>5, PisosQuietos DEF PasosDeLaPrueba
<1>8. txns' = txns /\ prueba = << >> /\ Len(arbol) \in Nat \ {0}
  <2>1. \E h : \E n : Niveles(h, n) /\ nivel = h[n] /\ Crecido(h, n) /\ Len(arbol) = n
    BY <1>1, ArbolEntero DEF PasosDeLaPrueba
  <2>2. Len(arbol) \in Nat \ {0}
    BY <2>1 DEF Niveles
  <2> QED BY <1>1, <2>2 DEF leido, IInv, CaminoInv
<1>9. CASE lugares = {}
  <2>1. pc' = "plegar" /\ prueba' = << >> /\ buscada' \notin Range(txns')
    BY <1>1, <1>2, <1>8, <1>9
  <2>2. Len(prueba') = 0
    BY <2>1
  <2>3. CaminoInv'
    BY <1>1, <1>8, <2>1, <2>2 DEF CaminoInv, Piso
  <2> QED BY <1>6, <1>7, <2>3 DEF IInv
<1>10. CASE lugares # {}
  <2>1. PICK x : x = [hash |-> Txid(buscada), lado |-> Lado(posicion')]
    OBVIOUS
  <2>2. pc' = "subir" /\ prueba' = <<x>> /\ buscada' \in Range(txns') /\ x.hash = Txid(buscada)
    BY <1>1, <1>2, <1>8, <1>10, <2>1
  <2>3. EsSecuencia(prueba') /\ Len(prueba') = 1 /\ Plegar(prueba') = Txid(buscada)
    BY <2>2, DeUna, PlegarUna
  <2>4. i \in 1..Len(arbol[1]) /\ Len(arbol[1]) \in Nat /\ arbol[1][i] = Txid(buscada)
    BY <1>2, <1>3, <1>10, Secuencia
  <2>5. posicion' \in 0..Len(arbol[1]) - 1 /\ posicion' + 1 = i
    BY <1>4, <1>10, <2>4
  <2>6. Piso' = 1 /\ arbol' = arbol /\ 1 \in 1..Len(arbol)
    BY <1>1, <1>8, <2>3 DEF Piso
  <2>7. /\ Piso' \in 1..Len(arbol') /\ posicion' \in 0..Len(arbol'[Piso']) - 1
        /\ Plegar(prueba') = arbol'[Piso'][posicion' + 1]
    BY <2>3, <2>4, <2>5, <2>6
  <2>8. CaminoInv'
    BY <2>2, <2>3, <2>7 DEF CaminoInv
  <2> QED BY <1>6, <1>7, <2>8 DEF IInv
<1> QED BY <1>9, <1>10

\* A node of the tree and its sibling make the node above them.
LEMMA DeUnPisoAlOtro ==
    ASSUME IInv, pc = "subir", NEW m \in 1..Len(arbol) - 1
    PROVE  /\ Len(arbol[m]) \in Nat /\ Len(arbol[m]) % 2 = 0
           /\ Len(arbol[m + 1]) \in Nat /\ Len(arbol[m + 1]) >= Len(arbol[m]) \div 2
           /\ \A j \in 1..Len(arbol[m]) \div 2 :
                 arbol[m + 1][j] = <<arbol[m][2 * j - 1], arbol[m][2 * j]>>
<1>1. \E h : \E n : Niveles(h, n) /\ nivel = h[n] /\ Crecido(h, n) /\ Len(arbol) = n
  BY ArbolEntero DEF PasosDeLaPrueba
<1>2. PICK h : \E n : Niveles(h, n) /\ nivel = h[n] /\ Crecido(h, n) /\ Len(arbol) = n
  BY <1>1
<1>3. PICK n : Niveles(h, n) /\ nivel = h[n] /\ Crecido(h, n) /\ Len(arbol) = n
  BY <1>2
<1> DEFINE s == arbol[m]
           p == Padres(s)
           t == arbol[m + 1]
<1>4. n \in Nat /\ m \in 1..n - 1 /\ m \in 1..n /\ m + 1 \in 1..n
  BY <1>3 DEF Niveles
<1>5. s = Completar(h[m]) /\ EsSecuencia(h[m]) /\ h[m + 1] = p /\ EsSecuencia(h[m + 1])
  BY <1>3, <1>4 DEF Niveles, Crecido
<1>6. t = h[m + 1] \/ t = Completar(h[m + 1])
  <2>1. CASE m + 1 = n
    BY <1>3, <2>1 DEF Crecido
  <2>2. CASE m + 1 # n
    <3>1. m + 1 \in 1..Len(arbol) - 1
      BY <1>3, <1>4, <2>2
    <3> QED BY <1>3, <3>1 DEF Crecido
  <2> QED BY <2>1, <2>2
<1> HIDE DEF s, t
<1>7. EsSecuencia(s) /\ Len(s) % 2 = 0 /\ Len(s) \in Nat
  BY <1>5, Completa, Secuencia
<1>8. /\ EsSecuencia(p) /\ Len(p) = Len(s) \div 2
      /\ \A i \in 1..Len(s) \div 2 : p[i] = <<s[2 * i - 1], s[2 * i]>>
  BY <1>7, PadresDe
<1> HIDE DEF p
<1> DEFINE mitad == Len(s) \div 2
<1>9. mitad \in Nat
  BY <1>7
<1> HIDE DEF mitad
<1>10. /\ Len(t) \in Nat /\ Len(t) >= mitad /\ \A j \in 1..mitad : t[j] = p[j]
  <2>1. CASE t = p
    BY <1>8, <1>9, <2>1 DEF mitad
  <2>2. CASE t = Completar(p)
    <3> DEFINE c == Completar(p)
    <3>1. Len(c) \in Len(p)..Len(p) + 1 /\ \A j \in 1..Len(p) : c[j] = p[j]
      BY <1>8, Completa
    <3> HIDE DEF c
    <3>2. t = c /\ Len(p) = mitad
      BY <1>8, <2>2 DEF c, mitad
    <3> QED BY <1>9, <3>1, <3>2
  <2> QED BY <1>5, <1>6, <2>1, <2>2
<1> QED BY <1>7, <1>8, <1>10 DEF s, t, mitad

\* The path goes up from a node to the one above it.
LEMMA TrasSubir ==
    ASSUME IInv, Subir
    PROVE  IInv'
<1> DEFINE m == Len(prueba)
           s == arbol[m]
           izquierdo == posicion % 2 = 0
           hermano == IF izquierdo THEN posicion + 1 ELSE posicion - 1
           x == [hash |-> s[hermano + 1], lado |-> IF izquierdo THEN "right" ELSE "left"]
           q == posicion \div 2
<1>1. /\ pc = "subir" /\ pc' = pc /\ m < Len(arbol) /\ posicion' = q
      /\ prueba' = Append(prueba, x)
      /\ arbol' = arbol /\ buscada' = buscada
      /\ UNCHANGED <<bloque, leido, nivel, arbol>>
  BY DEF Subir, Piso
<1>2. LecturaInv'
  BY <1>1, LecturaQuieta DEF IInv, Fases, PasosDeLaPrueba
<1>3. PisosInv'
  BY <1>1, PisosQuietos DEF PasosDeLaPrueba
<1>4. /\ EsSecuencia(prueba) /\ m \in 1..Len(arbol) /\ posicion \in 0..Len(s) - 1
      /\ Plegar(prueba) = s[posicion + 1] /\ buscada \in Range(txns)
  BY <1>1 DEF IInv, CaminoInv, Piso
<1>5. Len(arbol) \in Nat
  <2>1. \E h : \E n : Niveles(h, n) /\ nivel = h[n] /\ Crecido(h, n) /\ Len(arbol) = n
    BY <1>1, ArbolEntero DEF PasosDeLaPrueba
  <2> QED BY <2>1 DEF Niveles
<1>6. m \in 1..Len(arbol) - 1
  BY <1>1, <1>4, <1>5
<1>7. m \in Nat \ {0} /\ m + 1 \in 1..Len(arbol)
  BY <1>5, <1>6
<1> HIDE DEF m
<1>8. /\ Len(s) \in Nat /\ Len(s) % 2 = 0
      /\ Len(arbol[m + 1]) \in Nat /\ Len(arbol[m + 1]) >= Len(s) \div 2
      /\ \A j \in 1..Len(s) \div 2 : arbol[m + 1][j] = <<s[2 * j - 1], s[2 * j]>>
  BY <1>1, <1>6, DeUnPisoAlOtro
<1> HIDE DEF s
<1>9. /\ posicion \in Nat /\ q \in Nat /\ q + 1 \in 1..Len(s) \div 2
      /\ posicion = IF izquierdo THEN 2 * q ELSE 2 * q + 1
  BY <1>4, <1>8
<1>10. arbol[m + 1][q + 1] = <<s[2 * (q + 1) - 1], s[2 * (q + 1)]>>
  BY <1>8, <1>9
<1> HIDE DEF q
<1>11. 2 * (q + 1) - 1 = 2 * q + 1 /\ 2 * (q + 1) = 2 * q + 2
  BY <1>9
<1>12. arbol[m + 1][q + 1] = <<s[2 * q + 1], s[2 * q + 2]>>
  BY <1>10, <1>11
<1>13. Plegar(prueba') = arbol[m + 1][q + 1]
  <2>1. Plegar(Append(prueba, x)) =
           IF x.lado = "right" THEN <<Plegar(prueba), x.hash>> ELSE <<x.hash, Plegar(prueba)>>
    <3> HIDE DEF x
    <3> QED BY <1>4, <1>7, PlegarUnaMas DEF m
  <2>2. CASE izquierdo
    <3>1. posicion + 1 = 2 * q + 1 /\ hermano + 1 = 2 * q + 2
      BY <1>9, <2>2
    <3> HIDE DEF izquierdo, hermano
    <3>2. x.lado = "right" /\ x.hash = s[2 * q + 2]
      BY <2>2, <3>1
    <3> HIDE DEF x
    <3> QED BY <1>1, <1>4, <1>12, <2>1, <3>1, <3>2
  <2>3. CASE ~izquierdo
    <3>1. posicion + 1 = 2 * q + 2 /\ hermano + 1 = 2 * q + 1
      BY <1>9, <2>3
    <3> HIDE DEF izquierdo, hermano
    <3>2. x.lado = "left" /\ x.hash = s[2 * q + 1]
      BY <2>3, <3>1
    <3> HIDE DEF x
    <3> QED BY <1>1, <1>4, <1>12, <2>1, <3>1, <3>2
  <2> QED BY <2>2, <2>3
<1>14. EsSecuencia(prueba') /\ Len(prueba') = m + 1
  <2> HIDE DEF x
  <2> QED BY <1>1, <1>4, SecuenciaCrece DEF m
<1>15. posicion' \in 0..Len(arbol[m + 1]) - 1
  <2> DEFINE mitad == Len(s) \div 2
             l == Len(arbol[m + 1])
  <2>1. mitad \in Nat /\ l \in Nat /\ l >= mitad /\ q + 1 \in 1..mitad
    BY <1>8, <1>9
  <2> HIDE DEF mitad, l
  <2>2. q \in 0..l - 1
    BY <1>9, <2>1
  <2> QED BY <1>1, <2>2 DEF l
<1>16. CaminoInv'
  <2>1. Piso' = m + 1 /\ txns' = txns /\ pc' = "subir"
    BY <1>1, <1>14 DEF Piso, leido
  <2> QED BY <1>1, <1>4, <1>7, <1>13, <1>14, <1>15, <2>1 DEF CaminoInv
<1> QED BY <1>2, <1>3, <1>16 DEF IInv

\* The last level has one node, which is the root.
LEMMA TrasLlegar ==
    ASSUME IInv, Llegar
    PROVE  IInv'
<1>1. /\ pc = "subir" /\ pc' = "plegar" /\ Piso = Len(arbol)
      /\ arbol' = arbol /\ buscada' = buscada /\ prueba' = prueba /\ txns' = txns /\ nivel' = nivel
      /\ UNCHANGED <<bloque, leido, nivel, arbol>>
  BY DEF Llegar, camino, leido
<1>2. LecturaInv'
  BY <1>1, LecturaQuieta DEF IInv, Fases, PasosDeLaPrueba
<1>3. PisosInv'
  BY <1>1, PisosQuietos DEF PasosDeLaPrueba
<1>4. /\ Piso \in 1..Len(arbol) /\ posicion \in 0..Len(arbol[Piso]) - 1
      /\ Plegar(prueba) = arbol[Piso][posicion + 1] /\ buscada \in Range(txns)
  BY <1>1 DEF IInv, CaminoInv
<1>5. Len(nivel) = 1 /\ \E h : \E n : Niveles(h, n) /\ nivel = h[n] /\ Crecido(h, n) /\ Len(arbol) = n
  BY <1>1, ArbolEntero DEF PasosDeLaPrueba
<1>6. arbol[Piso] = nivel
  BY <1>1, <1>5 DEF Crecido
<1>7. posicion = 0
  BY <1>4, <1>5, <1>6
<1>8. Plegar(prueba') = nivel'[1]
  BY <1>1, <1>4, <1>6, <1>7
<1>9. Piso' <= Len(arbol')
  BY <1>1, <1>4, <1>5 DEF Piso, Niveles
<1>10. CaminoInv'
  BY <1>1, <1>4, <1>8, <1>9 DEF CaminoInv
<1> QED BY <1>2, <1>3, <1>10 DEF IInv

\* What is shown is what the path led to.
LEMMA TrasMostrar ==
    ASSUME IInv, Mostrar
    PROVE  IInv'
<1>1. /\ pc = "plegar" /\ pc' = "mostrada" /\ raiz' = Plegar(prueba)
      /\ arbol' = arbol /\ buscada' = buscada /\ prueba' = prueba /\ txns' = txns /\ nivel' = nivel
      /\ UNCHANGED <<bloque, leido, nivel, arbol>>
  BY DEF Mostrar, leido
<1>2. LecturaInv'
  BY <1>1, LecturaQuieta DEF IInv, Fases, PasosDeLaPrueba
<1>3. PisosInv'
  BY <1>1, PisosQuietos DEF PasosDeLaPrueba
<1>4. Piso <= Len(arbol) /\ IF buscada \in Range(txns) THEN Plegar(prueba) = nivel[1] ELSE prueba = << >>
  BY <1>1 DEF IInv, CaminoInv
<1>5. raiz' = IF buscada \in Range(txns) THEN nivel[1] ELSE Nada
  BY <1>1, <1>4, PlegarVacia DEF Nada
<1>6. CaminoInv'
  BY <1>1, <1>4, <1>5 DEF CaminoInv, Piso
<1> QED BY <1>2, <1>3, <1>6 DEF IInv

\* Every step keeps the invariant.
LEMMA IInvNext == IInv /\ [Next]_vars => IInv'
<1> SUFFICES ASSUME IInv, [Next]_vars PROVE IInv'
  OBVIOUS
<1>1. CASE LeerCantidad
  <2>1. pc = "cantidad" /\ pc' \in {"panico", "txn"} /\ UNCHANGED <<camino>>
    BY <1>1 DEF LeerCantidad
  <2>2. pc \notin ConNiveles /\ pc' \notin ConNiveles
    BY <2>1 DEF ConNiveles, PasosDeLaPrueba
  <2> QED BY <1>1, <2>1, <2>2, TrasLeerCantidad, SinNiveles DEF IInv
<1>2. CASE LeerTxn
  <2>1. pc = "txn" /\ pc' \in {"panico", "txn"} /\ UNCHANGED <<camino>>
    BY <1>2 DEF LeerTxn
  <2>2. pc \notin ConNiveles /\ pc' \notin ConNiveles
    BY <2>1 DEF ConNiveles, PasosDeLaPrueba
  <2> QED BY <1>2, <2>1, <2>2, TrasLeerTxn, SinNiveles DEF IInv
<1>3. CASE TerminarLectura
  <2>1. pc = "txn" /\ pc' \in {"trabajo", "error"} /\ UNCHANGED <<bloque, leido, camino>>
    BY <1>3 DEF TerminarLectura
  <2>2. pc \notin ConNiveles /\ pc' \notin ConNiveles /\ pc' \in Fases /\ pc' # "cantidad" /\ pc # "panico"
    BY <2>1 DEF ConNiveles, PasosDeLaPrueba, Fases, Rechazos
  <2> QED BY <2>1, <2>2, LecturaQuieta, SinNiveles DEF IInv
<1>4. CASE ProbarTrabajo
  BY <1>4, TrasProbarTrabajo
<1>5. CASE ReducirNivel
  BY <1>5, TrasReducirNivel
<1>6. CASE CompararRaiz
  BY <1>6, TrasCompararRaiz
<1>7. ASSUME NEW t \in Buscadas, PedirPrueba(t) PROVE IInv'
  BY <1>7, TrasPedirPrueba
<1>8. CASE CrecerArbol
  BY <1>8, TrasCrecerArbol
<1>9. CASE Buscar
  BY <1>9, TrasBuscar
<1>10. CASE Subir
  BY <1>10, TrasSubir
<1>11. CASE Llegar
  BY <1>11, TrasLlegar
<1>12. CASE Mostrar
  BY <1>12, TrasMostrar
<1>13. CASE UNCHANGED vars
  <2>1. UNCHANGED <<bloque, pc, indice, cantidad, txns, nivel, buscada, arbol, posicion, prueba, raiz>>
    BY <1>13 DEF vars, leido, camino
  <2>2. LecturaInv'
    BY <2>1 DEF IInv, LecturaInv
  <2>3. PisosInv'
    BY <2>1 DEF IInv, PisosInv, Niveles, Crecido
  <2>4. CaminoInv'
    BY <2>1 DEF IInv, CaminoInv, Piso
  <2> QED BY <2>2, <2>3, <2>4 DEF IInv
<1> QED BY <1>1, <1>2, <1>3, <1>4, <1>5, <1>6, <1>7, <1>8, <1>9, <1>10, <1>11, <1>12, <1>13 DEF Next

\* The invariant holds in every state.
LEMMA IInvSiempre == Spec => []IInv
  BY IInvInit, IInvNext, PTL DEF Spec
-----------------------------------------------------------------------------
(* The verdict.                                                            *)

\* What is read is what was written, up to where the parser is, and each phase knows what the ones
\* before it have checked.
FielInv ==
    /\ pc = "txn" =>
          /\ cantidad = Len(bloque.txns) /\ indice = Posicion(bloque.txns, Len(txns))
          /\ \A i \in 1..Len(txns) : txns[i] = bloque.txns[i]
    /\ pc = "trabajo" \/ pc \in ConNiveles => txns = bloque.txns /\ bloque.sobrantes = 0
    /\ pc \in ConNiveles => Trabaja
    /\ pc = "rechazado" => ~Trabaja \/ ~Incluye
    /\ pc = "error" => bloque.sobrantes > 0
    /\ pc = "panico" => ~ExponenteUtil(bloque.n_bits) \/ ~SePuedeLeer

\* The blocks that arrive, with what is written and where.
LEMMA BloqueDe ==
    ASSUME BienFormados, NEW r \in Recibidos
    PROVE  BienFormado(r)
<1> DEFINE b == r.bytes
           e == Escrito(r.txns)
<1>1. b \in Seq(Nat) /\ Len(b) \in Nat
  BY BytesDe
<1>2. /\ r.txns # << >> /\ \A i \in DOMAIN r.txns : r.txns[i].tx_out # << >>
      /\ r.sobrantes \in Nat
  BY ValidacionAssumption
<1>3. r.txns \in Cortas(Transacciones) /\ IsPrefix(e, b) /\ Len(b) = Len(e) + r.sobrantes
  BY DEF BienFormados
<1>4. e \in Seq(Digitos)
  BY <1>2, <1>3, EscritoEs
<1>5. Esta(b, 0, e)
  <2> DEFINE m == Len(e)
  <2>1. m \in Nat /\ m <= Len(b) /\ SubSeq(e, 1, m) = SubSeq(b, 1, m)
    BY <1>3, <1>4 DEF IsPrefix
  <2> HIDE DEF m, b, e
  <2>2. 0 + m = m /\ 0 + 1 = 1
    BY <2>1
  <2>3. \A k \in 1..m : SubSeq(b, 0 + 1, 0 + m)[k] = b[0 + k]
    BY <1>1, <2>1, <2>2, Rebanada
  <2>4. \A k \in 1..m : SubSeq(e, 0 + 1, 0 + m)[k] = e[0 + k]
    BY <1>4, <2>1, <2>2, Rebanada DEF m
  <2>5. ASSUME NEW k \in 1..m PROVE b[0 + k] = e[k]
    <3>1. 0 + k = k
      OBVIOUS
    <3> QED BY <2>1, <2>2, <2>3, <2>4, <3>1
  <2> QED BY <2>1, <2>2, <2>5 DEF Esta, m
<1> QED BY <1>1, <1>2, <1>3, <1>5 DEF BienFormado

\* The last script in the terms of the layout.
LEMMA ColaDe == SePuedeLeer <=> Cola(Last(bloque.txns)) + bloque.sobrantes >= 10
  BY DEF SePuedeLeer, Cola, Mirada

\* Nothing is known of a block that arrives.
LEMMA FielInit == Init => FielInv
  BY DEF Init, FielInv, ConNiveles, PasosDeLaPrueba

\* The count is that of the transactions, and it can always be read.
LEMMA FielLeerCantidad ==
    ASSUME BienFormados, LecturaInv, LeerCantidad
    PROVE  FielInv'
<1> DEFINE ts == bloque.txns
<1>1. BienFormado(bloque)
  BY BloqueDe DEF LecturaInv
<1>2. ts \in Cortas(Transacciones) /\ ts # << >>
  BY <1>1 DEF BienFormado
<1>3. Posicion(ts, 0) \in Nat
  <2>1. Len(ts) \in Nat
    BY <1>2, EscritoEs
  <2>2. 0 \in 0..Len(ts)
    BY <2>1
  <2> QED BY <1>2, <2>2, EscritoEs
<1>4. LeerNumero(bloque.bytes, 0) = [valor |-> Len(ts), indice |-> Posicion(ts, 0)]
  BY <1>1, CantidadEs
<1>5. Posicion(ts, 0) # Fuera
  BY <1>3 DEF Fuera
<1>6. /\ pc' = "txn" /\ cantidad' = Len(ts) /\ indice' = Posicion(ts, 0)
      /\ txns' = << >> /\ bloque' = bloque
  BY <1>4, <1>5 DEF LeerCantidad, LecturaInv
<1>7. Len(txns') = 0 /\ \A i \in 1..Len(txns') : FALSE
  BY <1>6
<1> QED BY <1>6, <1>7 DEF FielInv, ConNiveles, PasosDeLaPrueba

\* The next transaction is the one that was written, and it can be read or it is the last one.
LEMMA FielLeerTxn ==
    ASSUME BienFormados, LecturaInv, FielInv, LeerTxn
    PROVE  FielInv'
<1> DEFINE ts == bloque.txns
           n == Len(ts)
           m == Len(txns)
           k == m + 1
           leida == FromBytes(bloque.bytes, indice)
<1>1. BienFormado(bloque)
  BY BloqueDe DEF LecturaInv
<1>2. ts \in Cortas(Transacciones) /\ ts # << >>
  BY <1>1 DEF BienFormado
<1>3. /\ pc = "txn" /\ cantidad = n /\ indice = Posicion(ts, m) /\ m < n
      /\ \A i \in 1..m : txns[i] = ts[i]
      /\ EsSecuencia(txns)
  BY DEF FielInv, LeerTxn, LecturaInv
<1>4. m \in Nat /\ n \in Nat
  BY <1>2, <1>3, EscritoEs, Secuencia
<1>5. /\ indice' = leida.indice /\ bloque' = bloque /\ cantidad' = cantidad
      /\ IF leida.indice = Fuera THEN pc' = "panico" /\ txns' = txns
         ELSE txns' = Append(txns, leida.txn) /\ pc' = pc
  BY DEF LeerTxn
<1>6. k \in 1..n /\ k - 1 = m /\ k \in 0..n
  <2> HIDE DEF m, n
  <2> QED BY <1>3, <1>4
<1>7. IF k # n \/ Cola(Last(ts)) + bloque.sobrantes >= 10
      THEN leida = [txn |-> ts[k], indice |-> Posicion(ts, k)]
      ELSE leida.indice = Fuera
  <2> HIDE DEF k, m
  <2> QED BY <1>1, <1>3, <1>6, TransaccionEs
<1>8. Posicion(ts, k) # Fuera
  <2>1. Posicion(ts, k) \in Nat
    <3> HIDE DEF k
    <3> QED BY <1>2, <1>6, EscritoEs
  <2> QED BY <2>1 DEF Fuera
<1> HIDE DEF leida
<1>9. CASE k # n \/ Cola(Last(ts)) + bloque.sobrantes >= 10
  <2>1. leida.txn = ts[k] /\ leida.indice = Posicion(ts, k)
    <3> HIDE DEF k, ts, n
    <3> QED BY <1>7, <1>9
  <2>2. txns' = Append(txns, ts[k]) /\ pc' = "txn" /\ indice' = Posicion(ts, k)
    <3> HIDE DEF k, ts
    <3> QED BY <1>3, <1>5, <1>8, <2>1
  <2>3. /\ Len(txns') = k /\ txns'[k] = ts[k]
        /\ \A i \in 1..m : txns'[i] = txns[i]
    BY <1>3, <2>2, SecuenciaCrece
  <2>4. ASSUME NEW i \in 1..k PROVE txns'[i] = ts[i]
    <3>1. i = k \/ i \in 1..m
      <4> HIDE DEF m
      <4> QED BY <1>4
    <3> HIDE DEF k, m, ts
    <3> QED BY <1>3, <2>3, <3>1
  <2> QED BY <1>3, <1>5, <2>2, <2>3, <2>4 DEF FielInv, ConNiveles, PasosDeLaPrueba
<1>10. CASE ~(k # n \/ Cola(Last(ts)) + bloque.sobrantes >= 10)
  <2>1. leida.indice = Fuera
    BY <1>7, <1>10
  <2>2. pc' = "panico"
    BY <1>5, <2>1
  <2>3. ~SePuedeLeer
    BY <1>10, ColaDe
  <2>4. ~SePuedeLeer'
    BY <1>5, <2>3 DEF SePuedeLeer
  <2> QED BY <2>2, <2>4 DEF FielInv, ConNiveles, PasosDeLaPrueba
<1> QED BY <1>9, <1>10

\* What is left after the last transaction is what is written too much.
LEMMA FielTerminarLectura ==
    ASSUME BienFormados, LecturaInv, FielInv, TerminarLectura
    PROVE  FielInv'
<1> DEFINE ts == bloque.txns
           n == Len(ts)
           l == Len(bloque.bytes)
           q == bloque.sobrantes
           y == Posicion(ts, n)
<1>1. BienFormado(bloque)
  BY BloqueDe DEF LecturaInv
<1>2. ts \in Cortas(Transacciones) /\ ts # << >> /\ q \in Nat /\ l = Len(Escrito(ts)) + q
  BY <1>1 DEF BienFormado
<1>3. /\ pc = "txn" /\ Len(txns) = n /\ indice = y
      /\ \A i \in 1..n : txns[i] = ts[i]
      /\ EsSecuencia(txns)
  BY DEF FielInv, TerminarLectura, LecturaInv
<1>4. n \in Nat /\ y \in Nat /\ l = y + q /\ EsSecuencia(ts)
  <2>1. n \in Nat /\ ts \in Seq(Transacciones) /\ Len(Escrito(ts)) = y
    BY <1>2, EscritoEs
  <2>2. n \in 0..n
    <3> HIDE DEF n
    <3> QED BY <2>1
  <2>3. y \in Nat
    BY <1>2, <2>2, EscritoEs
  <2> QED BY <1>2, <2>1, <2>3 DEF EsSecuencia
<1>5. /\ pc' = IF indice = l THEN "trabajo" ELSE "error"
      /\ bloque' = bloque /\ txns' = txns
  BY DEF TerminarLectura, leido
<1>6. txns = ts
  <2>1. txns = [i \in 1..n |-> txns[i]] /\ ts = [i \in 1..n |-> ts[i]]
    BY <1>3, <1>4, Secuencia
  <2> HIDE DEF ts, n
  <2> QED BY <1>3, <2>1
<1> HIDE DEF l, q, y
<1>7. indice = l <=> q = 0
  BY <1>2, <1>3, <1>4
<1>8. CASE q = 0
  <2>1. pc' = "trabajo" /\ txns' = bloque'.txns /\ bloque'.sobrantes = 0
    BY <1>5, <1>6, <1>7, <1>8 DEF q
  <2> QED BY <2>1 DEF FielInv, ConNiveles, PasosDeLaPrueba
<1>9. CASE q # 0
  <2>1. q > 0
    BY <1>2, <1>9
  <2>2. pc' = "error" /\ bloque'.sobrantes > 0
    BY <1>5, <1>7, <1>9, <2>1 DEF q
  <2> QED BY <2>2 DEF FielInv, ConNiveles, PasosDeLaPrueba
<1> QED BY <1>8, <1>9

\* The comparison of the bytes is that of the numbers.
LEMMA FielProbarTrabajo ==
    ASSUME LecturaInv, FielInv, ProbarTrabajo
    PROVE  FielInv'
<1> DEFINE hash == BeBytes(bloque.hash, LargoTarget)
<1>1. /\ pc = "trabajo" /\ bloque' = bloque /\ txns' = txns
      /\ txns = bloque.txns /\ bloque.sobrantes = 0
  BY DEF ProbarTrabajo, FielInv, leido
<1>2. bloque.n_bits.mantisa \in 0..Tope(3) - 1 /\ bloque.hash \in 0..Tope(LargoTarget) - 1
  BY ValidacionAssumption DEF LecturaInv
<1>3. Trabaja <=> ExponenteUtil(bloque.n_bits) /\ Cumple(bloque.n_bits, hash)
  BY <1>2, CumpleEsMenor DEF Trabaja
<1>4. pc' = IF ~ExponenteUtil(bloque.n_bits) THEN "panico"
            ELSE IF Cumple(bloque.n_bits, hash) THEN "inclusion" ELSE "rechazado"
  BY DEF ProbarTrabajo
<1> HIDE DEF hash
<1>5. Trabaja' <=> Trabaja
  BY <1>1 DEF Trabaja
<1>6. CASE ~ExponenteUtil(bloque.n_bits)
  BY <1>1, <1>4, <1>6 DEF FielInv, ConNiveles, PasosDeLaPrueba
<1>7. CASE Trabaja
  <2>1. pc' = "inclusion"
    BY <1>3, <1>4, <1>7
  <2> QED BY <1>1, <1>5, <1>7, <2>1 DEF FielInv, ConNiveles, PasosDeLaPrueba
<1>8. CASE ExponenteUtil(bloque.n_bits) /\ ~Trabaja
  <2>1. pc' = "rechazado"
    BY <1>3, <1>4, <1>8
  <2> QED BY <1>1, <1>5, <1>8, <2>1 DEF FielInv, ConNiveles, PasosDeLaPrueba
<1> QED BY <1>6, <1>7, <1>8

\* The only hash of the last level is the root of the reference tree.
LEMMA RaizDelNivel ==
    ASSUME BienFormados, IInv, FielInv, pc \in ConNiveles, Len(nivel) = 1
    PROVE  nivel[1] = RaizDe(bloque.txns)
<1>1. PICK h : \E n : Niveles(h, n) /\ nivel = h[n]
  BY DEF IInv, PisosInv
<1>2. PICK n : Niveles(h, n) /\ nivel = h[n]
  BY <1>1
<1>3. txns = bloque.txns /\ EsSecuencia(txns)
  BY DEF FielInv, IInv, LecturaInv
<1>4. Len(txns) # 0
  <2>1. BienFormado(bloque)
    BY BloqueDe DEF IInv, LecturaInv
  <2>2. bloque.txns \in Cortas(Transacciones) /\ bloque.txns # << >>
    BY <2>1 DEF BienFormado
  <2> QED BY <1>3, <2>2, EscritoEs
<1>5. h[n][1] = RaizDe(txns)
  BY <1>2, <1>3, <1>4, NivelesHastaLaRaiz DEF Niveles
<1> QED BY <1>2, <1>3, <1>5

\* The verdict is that of the root.
LEMMA FielCompararRaiz ==
    ASSUME BienFormados, IInv, FielInv, CompararRaiz
    PROVE  FielInv'
<1>1. /\ pc = "inclusion" /\ pc \in ConNiveles /\ Len(nivel) = 1 /\ bloque' = bloque /\ txns' = txns
      /\ pc' = IF nivel[1] = bloque.raiz THEN "aceptado" ELSE "rechazado"
  BY DEF CompararRaiz, ConNiveles, leido
<1>2. nivel[1] = bloque.raiz <=> Incluye
  BY <1>1, RaizDelNivel DEF Incluye
<1>3. txns = bloque.txns /\ bloque.sobrantes = 0 /\ Trabaja
  BY <1>1 DEF FielInv
<1>4. (Trabaja' <=> Trabaja) /\ (Incluye' <=> Incluye)
  BY <1>1 DEF Trabaja, Incluye
<1>5. CASE Incluye
  <2>1. pc' = "aceptado"
    BY <1>1, <1>2, <1>5
  <2> QED BY <1>1, <1>3, <1>4, <2>1 DEF FielInv, ConNiveles, PasosDeLaPrueba
<1>6. CASE ~Incluye
  <2>1. pc' = "rechazado"
    BY <1>1, <1>2, <1>6
  <2> QED BY <1>4, <1>6, <2>1 DEF FielInv, ConNiveles, PasosDeLaPrueba
<1> QED BY <1>5, <1>6

\* The steps of the levels and of the path leave what is read alone.
LEMMA FielQuieto ==
    ASSUME FielInv, UNCHANGED <<bloque, leido>>, pc \in ConNiveles, pc' \in ConNiveles
    PROVE  FielInv'
<1>1. bloque' = bloque /\ txns' = txns
  BY DEF leido
<1>2. txns = bloque.txns /\ bloque.sobrantes = 0 /\ Trabaja
  BY DEF FielInv
<1>3. Trabaja'
  BY <1>1, <1>2 DEF Trabaja
<1>4. pc' \notin {"txn", "rechazado", "error", "panico"}
  BY DEF ConNiveles, PasosDeLaPrueba
<1> QED BY <1>1, <1>2, <1>3, <1>4 DEF FielInv

\* Every step keeps it.
LEMMA FielNext == BienFormados /\ IInv /\ FielInv /\ [Next]_vars => FielInv'
<1> SUFFICES ASSUME BienFormados, IInv, FielInv, [Next]_vars PROVE FielInv'
  OBVIOUS
<1>0. LecturaInv
  BY DEF IInv
<1>1. CASE LeerCantidad
  BY <1>0, <1>1, FielLeerCantidad
<1>2. CASE LeerTxn
  BY <1>0, <1>2, FielLeerTxn
<1>3. CASE TerminarLectura
  BY <1>0, <1>3, FielTerminarLectura
<1>4. CASE ProbarTrabajo
  BY <1>0, <1>4, FielProbarTrabajo
<1>5. CASE ReducirNivel
  BY <1>5, FielQuieto DEF ReducirNivel, ConNiveles
<1>6. CASE CompararRaiz
  BY <1>6, FielCompararRaiz
<1>7. ASSUME NEW t \in Buscadas, PedirPrueba(t) PROVE FielInv'
  BY <1>7, FielQuieto DEF PedirPrueba, ConNiveles, PasosDeLaPrueba
<1>8. CASE CrecerArbol
  BY <1>8, FielQuieto DEF CrecerArbol, ConNiveles, PasosDeLaPrueba
<1>9. CASE Buscar
  <2>1. pc = "arbol" /\ pc' \in {"plegar", "subir"} /\ UNCHANGED <<bloque, leido>>
    BY <1>9 DEF Buscar
  <2> QED BY <2>1, FielQuieto DEF ConNiveles, PasosDeLaPrueba
<1>10. CASE Subir
  <2>1. pc = "subir" /\ pc' = pc /\ UNCHANGED <<bloque, leido>>
    BY <1>10 DEF Subir
  <2> QED BY <2>1, FielQuieto DEF ConNiveles, PasosDeLaPrueba
<1>11. CASE Llegar
  BY <1>11, FielQuieto DEF Llegar, ConNiveles, PasosDeLaPrueba
<1>12. CASE Mostrar
  BY <1>12, FielQuieto DEF Mostrar, ConNiveles, PasosDeLaPrueba
<1>13. CASE UNCHANGED vars
  <2>1. UNCHANGED <<bloque, pc, indice, cantidad, txns>>
    BY <1>13 DEF vars, leido
  <2>2. (Trabaja' <=> Trabaja) /\ (Incluye' <=> Incluye) /\ (SePuedeLeer' <=> SePuedeLeer)
    BY <2>1 DEF Trabaja, Incluye, SePuedeLeer
  <2> QED BY <2>1, <2>2 DEF FielInv
<1> QED BY <1>1, <1>2, <1>3, <1>4, <1>5, <1>6, <1>7, <1>8, <1>9, <1>10, <1>11, <1>12, <1>13 DEF Next

\* What both invariants say of how a block ends.
LEMMA FielVeredicto == BienFormados /\ IInv /\ FielInv => AceptaLosValidos
<1> SUFFICES ASSUME BienFormados, IInv, FielInv PROVE AceptaLosValidos
  OBVIOUS
<1> DEFINE Aceptado == {"aceptado"} \cup PasosDeLaPrueba
<1>1. CASE pc = "rechazado"
  <2>1. pc # "error" /\ pc # "panico" /\ pc \notin Aceptado /\ (~Trabaja \/ ~Incluye)
    BY <1>1 DEF FielInv, PasosDeLaPrueba
  <2> QED BY <1>1, <2>1, Zenon DEF AceptaLosValidos
<1>2. CASE pc = "error"
  <2>1. pc # "rechazado" /\ pc # "panico" /\ pc \notin Aceptado /\ bloque.sobrantes > 0
    BY <1>2 DEF FielInv, PasosDeLaPrueba
  <2> QED BY <1>2, <2>1, Zenon DEF AceptaLosValidos
<1>3. CASE pc = "panico"
  <2>1. pc # "rechazado" /\ pc # "error" /\ pc \notin Aceptado
        /\ (~ExponenteUtil(bloque.n_bits) \/ ~SePuedeLeer)
    BY <1>3 DEF FielInv, PasosDeLaPrueba
  <2> QED BY <1>3, <2>1, Zenon DEF AceptaLosValidos
<1>4. CASE pc \in Aceptado
  <2>1. pc # "rechazado" /\ pc # "error" /\ pc # "panico" /\ pc \in ConNiveles
    BY <1>4 DEF ConNiveles, PasosDeLaPrueba
  <2>2. Len(nivel) = 1 /\ nivel[1] = bloque.raiz
    BY <1>4, ConPisos
  <2>3. Incluye
    BY <2>1, <2>2, RaizDelNivel DEF Incluye
  <2>4. Trabaja /\ Incluye /\ txns = bloque.txns /\ bloque.sobrantes = 0
    BY <2>1, <2>3 DEF FielInv
  <2> QED BY <1>4, <2>1, <2>4, Zenon DEF AceptaLosValidos
<1>5. CASE pc # "rechazado" /\ pc # "error" /\ pc # "panico" /\ pc \notin Aceptado
  BY <1>5, Zenon DEF AceptaLosValidos
<1> QED BY <1>1, <1>2, <1>3, <1>4, <1>5
-----------------------------------------------------------------------------
\* What the invariant says of the indices.
LEMMA IInvTipo == IInv => TypeOK
<1> SUFFICES ASSUME IInv PROVE TypeOK
  OBVIOUS
<1>1. /\ pc \in Fases /\ (pc # "panico" => indice \in 0..Len(bloque.bytes))
      /\ cantidad \in Nat /\ Len(txns) <= cantidad
  BY DEF IInv, LecturaInv
<1>2. /\ \A k \in 1..Len(arbol) - 1 : Len(arbol[k]) % 2 = 0
      /\ Len(arbol) \in Nat
  <2>1. CASE pc \notin PasosDeLaPrueba
    <3>1. arbol = << >> /\ Len(arbol) = 0
      BY <2>1 DEF IInv, PisosInv
    <3> QED BY <3>1
  <2>2. CASE pc \in PasosDeLaPrueba
    <3>1. \E h : \E n : Niveles(h, n) /\ nivel = h[n] /\ Crecido(h, n)
      BY <2>2, ConPisos
    <3>2. PICK h : \E n : Niveles(h, n) /\ Crecido(h, n)
      BY <3>1
    <3>3. PICK n : Niveles(h, n) /\ Crecido(h, n)
      BY <3>2
    <3>4. n \in Nat /\ Len(arbol) \in 1..n
      BY <3>3 DEF Niveles, Crecido
    <3>5. ASSUME NEW k \in 1..Len(arbol) - 1 PROVE Len(arbol[k]) % 2 = 0
      <4>1. k \in 1..n
        BY <3>4
      <4>2. arbol[k] = Completar(h[k]) /\ EsSecuencia(h[k])
        BY <3>3, <4>1 DEF Niveles, Crecido
      <4> QED BY <4>2, Completa
    <3>6. Len(arbol) \in Nat
      BY <3>4
    <3> QED BY <3>5, <3>6
  <2> QED BY <2>1, <2>2
<1>3. Piso <= Len(arbol)
  <2>1. CASE prueba = << >>
    <3>1. Len(prueba) = 0
      BY <2>1
    <3> QED BY <1>2, <3>1 DEF Piso
  <2>2. CASE pc = "subir"
    <3>1. Piso \in 1..Len(arbol)
      BY <2>2 DEF IInv, CaminoInv
    <3> QED BY <1>2, <3>1
  <2>3. CASE pc \in {"plegar", "mostrada"}
    BY <2>3 DEF IInv, CaminoInv
  <2> QED BY <2>1, <2>2, <2>3 DEF IInv, CaminoInv
<1>4. ASSUME pc = "subir" PROVE posicion < Len(arbol[Piso])
  <2>1. Piso \in 1..Len(arbol) /\ posicion \in 0..Len(arbol[Piso]) - 1
    BY <1>4 DEF IInv, CaminoInv
  <2> QED BY <2>1
<1> QED BY <1>1, <1>2, <1>3, <1>4 DEF TypeOK, Fases

\* What the invariant says of the path.
LEMMA IInvCamino == IInv => CaminoCorrecto
<1> SUFFICES ASSUME IInv PROVE CaminoCorrecto
  OBVIOUS
<1>1. pc = "subir" => Plegar(prueba) = arbol[Piso][posicion + 1]
  BY DEF IInv, CaminoInv
<1>2. ASSUME pc = "mostrada" PROVE raiz = IF buscada \in Range(txns) THEN bloque.raiz ELSE Nada
  <2>1. nivel[1] = bloque.raiz
    BY <1>2, ConPisos DEF PasosDeLaPrueba
  <2> QED BY <1>2, <2>1 DEF IInv, CaminoInv
<1> QED BY <1>1, <1>2 DEF CaminoCorrecto

\* Whatever the bytes that arrive are, no index of the parser, of the levels or of the path
\* leaves what it indexes, and below the root of the tree every hash has the other of its pair
\* (SerializedBlock::from_bytes, Txn::from_bytes, generar_niveles_arbol, merkle_proof).
THEOREM TipoCorrecto == Spec => []TypeOK
  BY IInvSiempre, IInvTipo, PTL

\* For a block of any number of transactions, repeated or not, the path of one of them leads to
\* the root of the header, and at each level to the node that it has there; one that the block
\* does not have has no path (merkle_proof, generar_merkle_root_con_merkle_proof).
THEOREM CaminoALaRaiz == Spec => []CaminoCorrecto
  BY IInvSiempre, IInvCamino, PTL

\* Of blocks whose bytes are those of what their sender wrote, with any number of transactions and
\* of scripts of any length that a compact size can say, and any base and width of the target: what
\* is accepted has its hash below its target, the root of its header is that of the transactions
\* written, and these are the ones read; what is rejected fails one of the two; and only an exponent
\* out of range, bytes after the end or too short a last script keep a block from being looked at
\* (SerializedBlock::from_bytes, proof_of_work, proof_of_inclusion).
THEOREM VeredictoCorrecto == BienFormados /\ Spec => []AceptaLosValidos
<1>1. BienFormados /\ Init => FielInv
  BY FielInit
<1>2. BienFormados /\ IInv /\ FielInv /\ [Next]_vars => FielInv'
  BY FielNext
<1>3. BienFormados /\ IInv /\ FielInv => AceptaLosValidos
  BY FielVeredicto
<1>4. ASSUME BienFormados PROVE Spec => []AceptaLosValidos
  <2>1. Init => FielInv
    BY <1>1, <1>4
  <2>2. IInv /\ FielInv /\ [Next]_vars => FielInv'
    BY <1>2, <1>4
  <2>3. IInv /\ FielInv => AceptaLosValidos
    BY <1>3, <1>4
  <2> QED BY <2>1, <2>2, <2>3, IInvSiempre, PTL DEF Spec
<1> QED BY <1>4
=============================================================================
