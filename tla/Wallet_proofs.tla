--------------------------- MODULE Wallet_proofs ---------------------------
(***************************************************************************)
(* Proofs about Wallet, for every value of its constants: that what is     *)
(* saved and what is shown follow the memory; that the set of unspent      *)
(* outputs becomes that of the chain once the queue is applied; the types; *)
(* and that what is confirmed is noted.                                    *)
(***************************************************************************)
EXTENDS Wallet, FiniteSetTheorems, WellFoundedInduction, TLAPS

\* A bag of transactions with finitely many outputs each.
Bolsa(l) ==
    /\ l = [t \in DOMAIN l |-> l[t]]
    /\ \A t \in DOMAIN l : l[t] \in Nat /\ l[t] > 0 /\ IsFiniteSet(DOMAIN t.sal)

Bolsas(x) == Bolsa(x.sending) /\ Bolsa(x.sent) /\ Bolsa(x.receiving) /\ Bolsa(x.received)

LEMMA BolsaVacia == Bolsa(EmptyBag)
  BY DEF EmptyBag, SetToBag, Bolsa

LEMMA BolsaSuma ==
    ASSUME NEW k, NEW l, Bolsa(k), Bolsa(l)
    PROVE  Bolsa(k (+) l)
  BY DEF (+), Bolsa

LEMMA BolsaResta ==
    ASSUME NEW k, NEW l, Bolsa(k), Bolsa(l)
    PROVE  Bolsa(k (-) l)
  BY DEF (-), Bolsa

\* Moving nothing changes no list.
LEMMA SinMover ==
    ASSUME NEW k, NEW l, Bolsa(k), Bolsa(l), DOMAIN l = {}
    PROVE  k (-) l = k /\ k (+) l = k
<1>1. k = [t \in DOMAIN k |-> k[t]] /\ \A t \in DOMAIN k : k[t] \in Nat /\ k[t] > 0
  BY DEF Bolsa
<1>2. k (-) l = k
  <2> DEFINE r == [t \in DOMAIN k |-> IF t \in DOMAIN l THEN k[t] - l[t] ELSE k[t]]
  <2>1. DOMAIN r = DOMAIN k /\ \A t \in DOMAIN k : r[t] = k[t]
    OBVIOUS
  <2>2. {d \in DOMAIN r : r[d] > 0} = DOMAIN k
    BY <1>1, <2>1
  <2>3. k (-) l = [t \in {d \in DOMAIN r : r[d] > 0} |-> r[t]]
    BY DEF (-)
  <2> HIDE DEF r
  <2> QED BY <1>1, <2>1, <2>2, <2>3
<1>3. k (+) l = k
  <2>1. (DOMAIN k) \cup (DOMAIN l) = DOMAIN k
    OBVIOUS
  <2>2. \A t \in DOMAIN k : (IF t \in DOMAIN k THEN k[t] ELSE 0) + (IF t \in DOMAIN l THEN l[t] ELSE 0) = k[t]
    BY <1>1
  <2>3. k (+) l = [t \in DOMAIN k |-> k[t]]
    BY <2>1, <2>2 DEF (+)
  <2> QED BY <1>1, <2>3
<1> QED BY <1>2, <1>3

LEMMA SalidasContadas ==
    ASSUME NEW t, NEW c, IsFiniteSet(DOMAIN t.sal)
    PROVE  CantSalidas(t, c) \in Nat
<1>1. IsFiniteSet({n \in DOMAIN t.sal : t.sal[n].dest = c})
  BY FS_Subset
<1> QED BY <1>1, FS_CardinalityType DEF CantSalidas

\* What a block moves from a list.
LEMMA BolsaMovidas ==
    ASSUME NEW l, NEW b, NEW c, Bolsa(l)
    PROVE  /\ Bolsa(Movidas(l, b, c))
           /\ (\A t \in b : ~(CantSalidas(t, c) > 0)) => DOMAIN Movidas(l, b, c) = {}
<1>1. \A t \in b \cap BagToSet(l) : CantSalidas(t, c) \in Nat
  BY SalidasContadas DEF Bolsa, BagToSet
<1> QED BY <1>1 DEF Movidas, Bolsa, BagToSet
-----------------------------------------------------------------------------
(* The form of what is in memory and on disk. *)

Armada(x) == [utxos |-> x.utxos, pendiente |-> x.pendiente, sending |-> x.sending,
              sent |-> x.sent, receiving |-> x.receiving, received |-> x.received]

Forma(cs) ==
    /\ cs = [c \in DOMAIN cs |-> cs[c]]
    /\ \A c \in DOMAIN cs : cs[c] = Armada(cs[c]) /\ Bolsas(cs[c])

FormaArchivo(a) ==
    /\ a = [c \in DOMAIN a |-> a[c]]
    /\ \A c \in DOMAIN a : a[c] = Listas(a[c]) /\ Bolsas(a[c])

FormaInv ==
    /\ Forma(cuentas) /\ Forma(previas) /\ FormaArchivo(archivo)
    /\ \E S : eventos \in Seq(S) /\ \A e \in S : e.tipo = "txn" => e.txn \in Ajenas
    /\ \A n \in nueva : IsFiniteSet(DOMAIN n.txn.sal)

LEMMA FormaVacia == Forma(<< >>) /\ FormaArchivo(<< >>) /\ Volcado(<< >>) = << >>
  BY DEF Forma, FormaArchivo, Volcado

LEMMA FormaVolcado ==
    ASSUME NEW cs, Forma(cs), NEW s \in SUBSET DOMAIN cs
    PROVE  FormaArchivo([c \in s |-> Listas(cs[c])])
  BY DEF Forma, FormaArchivo, Listas, Bolsas

LEMMA FormaInvInit == Init => FormaInv
<1> SUFFICES ASSUME Init PROVE FormaInv
  OBVIOUS
<1>1. FormaArchivo(archivo)
  <2>1. archivo = [c \in Iniciales |-> SinTxns]
    BY DEF Init
  <2>2. SinTxns = Listas(SinTxns) /\ Bolsas(SinTxns)
    BY BolsaVacia DEF SinTxns, Listas, Bolsas
  <2> QED BY <2>1, <2>2 DEF FormaArchivo
<1>2. Forma(cuentas) /\ Forma(previas) /\ nueva = {}
  BY FormaVacia DEF Init
<1>3. eventos \in Seq({})
  BY DEF Init
<1> QED BY <1>1, <1>2, <1>3 DEF FormaInv

\* The events that are left, and one more.
LEMMA EventosQueLlegan ==
    ASSUME FormaInv, NEW e, e.tipo = "txn" => e.txn \in Ajenas, eventos' = Append(eventos, e)
    PROVE  \E S : eventos' \in Seq(S) /\ \A x \in S : x.tipo = "txn" => x.txn \in Ajenas
<1>1. PICK S : eventos \in Seq(S) /\ \A x \in S : x.tipo = "txn" => x.txn \in Ajenas
  BY DEF FormaInv
<1>2. eventos \in Seq(S \cup {e})
  BY <1>1
<1>3. eventos' \in Seq(S \cup {e})
  BY <1>2
<1> QED BY <1>1, <1>3

LEMMA EventosQueSeToman ==
    ASSUME FormaInv, eventos # << >>
    PROVE  /\ \E S : Tail(eventos) \in Seq(S) /\ \A x \in S : x.tipo = "txn" => x.txn \in Ajenas
           /\ Head(eventos).tipo = "txn" => Head(eventos).txn \in Ajenas
<1>1. PICK S : eventos \in Seq(S) /\ \A x \in S : x.tipo = "txn" => x.txn \in Ajenas
  BY DEF FormaInv
<1>2. Tail(eventos) \in Seq(S) /\ Head(eventos) \in S
  BY <1>1
<1> QED BY <1>1, <1>2
-----------------------------------------------------------------------------
(* What each event does to an account. *)

\* The sender's account, and the receiver's.
TrasEnviar(x, l, p) == [utxos |-> x.utxos, pendiente |-> p, sending |-> x.sending (+) l,
                        sent |-> x.sent, receiving |-> x.receiving, received |-> x.received]

TrasCobrar(x, cobro) == [utxos |-> x.utxos, pendiente |-> x.pendiente, sending |-> x.sending,
                         sent |-> x.sent, receiving |-> x.receiving (+) cobro, received |-> x.received]

LEMMA Cobrada ==
    ASSUME NEW x, x = Armada(x), NEW cobro
    PROVE  [x EXCEPT !.receiving = @ (+) cobro] = TrasCobrar(x, cobro)
<1> DEFINE r == x.receiving (+) cobro
<1>1. [x EXCEPT !.receiving = r] = [Armada(x) EXCEPT !.receiving = r]
  OBVIOUS
<1> HIDE DEF r
<1>2. [Armada(x) EXCEPT !.receiving = r] =
          [utxos |-> x.utxos, pendiente |-> x.pendiente, sending |-> x.sending,
           sent |-> x.sent, receiving |-> r, received |-> x.received]
  BY DEF Armada
<1> QED BY <1>1, <1>2 DEF TrasCobrar, r

\* Two fields of a record, one after the other.
LEMMA DosCampos ==
    ASSUME NEW x, x = Armada(x), NEW s, NEW p
    PROVE  [x EXCEPT !.sending = s, !.pendiente = p] =
               [utxos |-> x.utxos, pendiente |-> p, sending |-> s, sent |-> x.sent,
                receiving |-> x.receiving, received |-> x.received]
<1> DEFINE y == [utxos |-> x.utxos, pendiente |-> x.pendiente, sending |-> s, sent |-> x.sent,
                 receiving |-> x.receiving, received |-> x.received]
<1>1. [Armada(x) EXCEPT !.sending = s] = y
  BY DEF Armada
<1>2. [x EXCEPT !.sending = s] = y
  BY <1>1
<1>3. [y EXCEPT !.pendiente = p] =
          [utxos |-> x.utxos, pendiente |-> p, sending |-> s, sent |-> x.sent,
           receiving |-> x.receiving, received |-> x.received]
  OBVIOUS
<1>4. [x EXCEPT !.sending = s, !.pendiente = p] = [[x EXCEPT !.sending = s] EXCEPT !.pendiente = p]
  OBVIOUS
<1> QED BY <1>2, <1>3, <1>4

LEMMA BolsaDeUna == ASSUME NEW t, IsFiniteSet(DOMAIN t.sal) PROVE Bolsa(SetToBag({t}))
  BY DEF SetToBag, Bolsa

\* A function after the change of one of its values.
LEMMA Cambiada ==
    ASSUME NEW cs, cs = [c \in DOMAIN cs |-> cs[c]], NEW a, NEW v
    PROVE  [cs EXCEPT ![a] = v] = [c \in DOMAIN cs |-> IF c = a THEN v ELSE cs[c]]
  OBVIOUS

\* The two changes of a transfer as the event writes them, and account by account.
AlEnviar(cs, a, l, p) == [cs EXCEPT ![a].sending = @ (+) l, ![a].pendiente = p]
AlCobrar(cs, a, l) == [cs EXCEPT ![a].receiving = @ (+) l]

TrasEnvio(cs, a, l, p) == [c \in DOMAIN cs |-> IF c = a THEN TrasEnviar(cs[c], l, p) ELSE cs[c]]
TrasCobro(cs, a, l) == [c \in DOMAIN cs |-> IF c = a THEN TrasCobrar(cs[c], l) ELSE cs[c]]

LEMMA EnvioAnotado ==
    ASSUME NEW cs, Forma(cs), NEW a, NEW l, NEW p
    PROVE  AlEnviar(cs, a, l, p) = TrasEnvio(cs, a, l, p)
<1> DEFINE x == cs[a]
           s == x.sending (+) l
           y == TrasEnviar(x, l, p)
<1>1. cs = [c \in DOMAIN cs |-> cs[c]]
  BY DEF Forma
<1>2. CASE a \in DOMAIN cs
  <2>1. [x EXCEPT !.sending = s, !.pendiente = p] = y
    BY <1>2, DosCampos DEF Forma, TrasEnviar
  <2>2. AlEnviar(cs, a, l, p) = [cs EXCEPT ![a] = [x EXCEPT !.sending = s, !.pendiente = p]]
    BY <1>1, <1>2 DEF AlEnviar
  <2>3. [cs EXCEPT ![a] = y] = [c \in DOMAIN cs |-> IF c = a THEN y ELSE cs[c]]
    BY <1>1, Cambiada
  <2> QED BY <2>1, <2>2, <2>3 DEF TrasEnvio
<1>3. CASE a \notin DOMAIN cs
  <2>1. AlEnviar(cs, a, l, p) = cs
    BY <1>1, <1>3 DEF AlEnviar
  <2> QED BY <1>1, <1>3, <2>1 DEF TrasEnvio
<1> QED BY <1>2, <1>3

LEMMA CobroAnotado ==
    ASSUME NEW cs, Forma(cs), NEW a, NEW l
    PROVE  (IF a \in DOMAIN cs THEN AlCobrar(cs, a, l) ELSE cs) = TrasCobro(cs, a, l)
<1>1. cs = [c \in DOMAIN cs |-> cs[c]]
  BY DEF Forma
<1>2. CASE a \in DOMAIN cs
  <2>1. AlCobrar(cs, a, l) = [cs EXCEPT ![a] = [cs[a] EXCEPT !.receiving = @ (+) l]]
    BY <1>1, <1>2 DEF AlCobrar
  <2>2. [cs[a] EXCEPT !.receiving = @ (+) l] = TrasCobrar(cs[a], l)
    BY <1>2, Cobrada DEF Forma
  <2>3. [cs EXCEPT ![a] = TrasCobrar(cs[a], l)] =
            [c \in DOMAIN cs |-> IF c = a THEN TrasCobrar(cs[a], l) ELSE cs[c]]
    BY <1>1, Cambiada
  <2> QED BY <1>2, <2>1, <2>2, <2>3 DEF TrasCobro
<1>3. CASE a \notin DOMAIN cs
  BY <1>1, <1>3 DEF TrasCobro
<1> QED BY <1>2, <1>3

LEMMA FormaEnvio ==
    ASSUME NEW cs, Forma(cs), NEW a, NEW l, Bolsa(l), NEW p
    PROVE  Forma(TrasEnvio(cs, a, l, p))
<1> DEFINE e == TrasEnvio(cs, a, l, p)
<1>1. e = [c \in DOMAIN e |-> e[c]] /\ DOMAIN e = DOMAIN cs
  BY DEF TrasEnvio
<1>2. \A c \in DOMAIN cs : cs[c] = Armada(cs[c]) /\ Bolsas(cs[c])
  BY DEF Forma
<1>3. ASSUME NEW c \in DOMAIN cs PROVE e[c] = Armada(e[c]) /\ Bolsas(e[c])
  <2>1. CASE c = a
    <3>1. e[c] = TrasEnviar(cs[c], l, p)
      BY <2>1 DEF TrasEnvio
    <3>2. Bolsa(cs[c].sending (+) l)
      BY <1>2, BolsaSuma DEF Bolsas
    <3> HIDE DEF e
    <3> QED BY <1>2, <3>1, <3>2 DEF TrasEnviar, Armada, Bolsas
  <2>2. CASE c # a
    BY <1>2, <2>2 DEF TrasEnvio
  <2> QED BY <2>1, <2>2
<1> HIDE DEF e
<1>4. Forma(e)
  BY <1>1, <1>3 DEF Forma
<1> QED BY <1>4 DEF e

LEMMA FormaCobrar ==
    ASSUME NEW x, x = Armada(x), Bolsas(x), NEW l, Bolsa(l)
    PROVE  LET y == TrasCobrar(x, l) IN y = Armada(y) /\ Bolsas(y)
<1>1. Bolsa(x.receiving (+) l)
  BY BolsaSuma DEF Bolsas
<1> QED BY <1>1 DEF TrasCobrar, Armada, Bolsas

LEMMA FormaCobro ==
    ASSUME NEW cs, Forma(cs), NEW a, NEW l, Bolsa(l)
    PROVE  Forma(TrasCobro(cs, a, l))
<1> DEFINE e == TrasCobro(cs, a, l)
<1>1. e = [c \in DOMAIN e |-> e[c]] /\ DOMAIN e = DOMAIN cs
  BY DEF TrasCobro
<1>2. \A c \in DOMAIN cs : e[c] = IF c = a THEN TrasCobrar(cs[c], l) ELSE cs[c]
  BY DEF TrasCobro
<1>3. \A c \in DOMAIN cs : cs[c] = Armada(cs[c]) /\ Bolsas(cs[c])
  BY DEF Forma
<1> HIDE DEF e
<1>4. \A c \in DOMAIN cs : e[c] = Armada(e[c]) /\ Bolsas(e[c])
  BY <1>2, <1>3, FormaCobrar
<1>5. Forma(e)
  BY <1>1, <1>4 DEF Forma
<1> QED BY <1>5 DEF e

LEMMA TransferenciaAnotada ==
    ASSUME FormaInv, AnotarTransferencia
    PROVE  \E n \in nueva :
              LET l == SetToBag({n.txn})
                  e == TrasEnvio(cuentas, n.de, l, Pendiente(cuentas[n.de].sending (+) l))
              IN  Bolsa(l) /\ Forma(e) /\ cuentas' = TrasCobro(e, n.a, l) /\ Forma(cuentas')
<1> DEFINE l(n) == SetToBag({n.txn})
           p(n) == Pendiente(cuentas[n.de].sending (+) l(n))
           f(n) == AlEnviar(cuentas, n.de, l(n), p(n))
           e(n) == TrasEnvio(cuentas, n.de, l(n), p(n))
<1>1. PICK n \in nueva :
          cuentas' = IF n.a \in DOMAIN cuentas THEN AlCobrar(f(n), n.a, l(n)) ELSE f(n)
  BY DEF AnotarTransferencia, CambiarYGuardar, AlEnviar, AlCobrar
<1>2. Bolsa(l(n))
  BY BolsaDeUna DEF FormaInv
<1> HIDE DEF l, p
<1>3. f(n) = e(n)
  BY EnvioAnotado DEF FormaInv
<1>4. Forma(e(n))
  BY <1>2, FormaEnvio DEF FormaInv
<1>5. DOMAIN e(n) = DOMAIN cuentas
  BY DEF TrasEnvio
<1> HIDE DEF e, f
<1>6. cuentas' = TrasCobro(e(n), n.a, l(n))
  BY <1>1, <1>3, <1>4, <1>5, CobroAnotado
<1>7. Forma(cuentas')
  BY <1>2, <1>4, <1>6, FormaCobro
<1> QED BY <1>2, <1>4, <1>6, <1>7 DEF e, l, p

\* Each account has its outputs and the balance of what it sent.
Saldos(cs, us) == \A c \in DOMAIN cs :
    /\ cs[c].utxos = Propios(us, c)
    /\ cs[c].pendiente \in {0, Pendiente(cs[c].sending)}

LEMMA SaldosTrasTransferir ==
    ASSUME FormaInv, Saldos(cuentas, utxos), AnotarTransferencia
    PROVE  Saldos(cuentas', utxos')
<1>1. PICK n \in nueva :
        LET l == SetToBag({n.txn})
            e == TrasEnvio(cuentas, n.de, l, Pendiente(cuentas[n.de].sending (+) l))
        IN  cuentas' = TrasCobro(e, n.a, l)
  BY TransferenciaAnotada
<1> DEFINE l == SetToBag({n.txn})
           p == Pendiente(cuentas[n.de].sending (+) l)
           e == TrasEnvio(cuentas, n.de, l, p)
<1>2. cuentas' = TrasCobro(e, n.a, l)
  BY <1>1
<1>3. utxos' = utxos
  BY DEF AnotarTransferencia
<1>4. /\ DOMAIN e = DOMAIN cuentas
      /\ \A c \in DOMAIN cuentas : e[c] = IF c = n.de THEN TrasEnviar(cuentas[c], l, p) ELSE cuentas[c]
  BY DEF TrasEnvio
<1> HIDE DEF l, p, e
<1>5. \A c \in DOMAIN cuentas : /\ e[c].utxos = cuentas[c].utxos
                               /\ e[c].pendiente \in {0, Pendiente(e[c].sending)}
  <2> TAKE c \in DOMAIN cuentas
  <2>1. CASE c = n.de
    <3>1. /\ e[c].utxos = cuentas[c].utxos /\ e[c].pendiente = p
          /\ e[c].sending = cuentas[c].sending (+) l
      BY <1>4, <2>1 DEF TrasEnviar
    <3> QED BY <2>1, <3>1 DEF p
  <2>2. CASE c # n.de
    BY <1>4, <2>2 DEF Saldos
  <2> QED BY <2>1, <2>2
<1>6. /\ DOMAIN cuentas' = DOMAIN cuentas
      /\ \A c \in DOMAIN cuentas : cuentas'[c] = IF c = n.a THEN TrasCobrar(e[c], l) ELSE e[c]
  BY <1>2, <1>4 DEF TrasCobro
<1>7. \A c \in DOMAIN cuentas : /\ cuentas'[c].utxos = e[c].utxos /\ cuentas'[c].sending = e[c].sending
                               /\ cuentas'[c].pendiente = e[c].pendiente
  BY <1>6 DEF TrasCobrar
<1>8. \A c \in DOMAIN cuentas : Pendiente(cuentas'[c].sending) = Pendiente(e[c].sending)
  BY <1>7
<1> QED BY <1>3, <1>5, <1>6, <1>7, <1>8 DEF Saldos

\* The two fields that the event writes, one after the other.
LEMMA WalletCargada ==
    ASSUME FormaInv, CargarWallet
    PROVE  \E c \in DOMAIN cuentas :
              LET x == cuentas[c]
                  y == [utxos |-> Propios(utxos, c), pendiente |-> Pendiente(x.sending),
                        sending |-> x.sending, sent |-> x.sent,
                        receiving |-> x.receiving, received |-> x.received]
              IN  cuentas' = [d \in DOMAIN cuentas |-> IF d = c THEN y ELSE cuentas[d]]
<1>1. PICK c \in DOMAIN cuentas :
          cuentas' = [cuentas EXCEPT ![c].utxos = Propios(utxos, c),
                                     ![c].pendiente = Pendiente(cuentas[c].sending)]
  BY DEF CargarWallet
<1> DEFINE x == cuentas[c]
           u == Propios(utxos, c)
           p == Pendiente(x.sending)
           y == [utxos |-> u, pendiente |-> p, sending |-> x.sending, sent |-> x.sent,
                 receiving |-> x.receiving, received |-> x.received]
<1>2. cuentas = [d \in DOMAIN cuentas |-> cuentas[d]]
  BY DEF FormaInv, Forma
<1>3. [[x EXCEPT !.utxos = u] EXCEPT !.pendiente = p] = y
  <2> DEFINE z == [utxos |-> u, pendiente |-> x.pendiente, sending |-> x.sending, sent |-> x.sent,
                   receiving |-> x.receiving, received |-> x.received]
  <2> HIDE DEF u, p
  <2>1. x = Armada(x)
    BY DEF FormaInv, Forma
  <2> HIDE DEF x
  <2>2. [Armada(x) EXCEPT !.utxos = u] = z
    BY DEF Armada
  <2>3. [x EXCEPT !.utxos = u] = z
    BY <2>1, <2>2
  <2>4. [z EXCEPT !.pendiente = p] = y
    OBVIOUS
  <2> QED BY <2>3, <2>4
<1>4. cuentas' = [cuentas EXCEPT ![c] = [[x EXCEPT !.utxos = u] EXCEPT !.pendiente = p]]
  BY <1>1, <1>2
<1>5. cuentas' = [d \in DOMAIN cuentas |-> IF d = c THEN y ELSE cuentas[d]]
  <2> HIDE DEF y
  <2> QED BY <1>2, <1>3, <1>4, Cambiada
<1> QED BY <1>5

LEMMA TrasCargarWallet ==
    ASSUME FormaInv, CargarWallet
    PROVE  Forma(cuentas') /\ Volcado(cuentas') = Volcado(cuentas) /\ (Saldos(cuentas, utxos) => Saldos(cuentas', utxos'))
<1>1. PICK c \in DOMAIN cuentas :
          LET x == cuentas[c]
              y == [utxos |-> Propios(utxos, c), pendiente |-> Pendiente(x.sending),
                    sending |-> x.sending, sent |-> x.sent,
                    receiving |-> x.receiving, received |-> x.received]
          IN  cuentas' = [d \in DOMAIN cuentas |-> IF d = c THEN y ELSE cuentas[d]]
  BY WalletCargada
<1>2. utxos' = utxos
  BY DEF CargarWallet
<1> DEFINE x == cuentas[c]
           u == Propios(utxos, c)
           p == Pendiente(x.sending)
           y == [utxos |-> u, pendiente |-> p, sending |-> x.sending, sent |-> x.sent,
                 receiving |-> x.receiving, received |-> x.received]
<1>4. \A d \in DOMAIN cuentas : cuentas[d] = Armada(cuentas[d]) /\ Bolsas(cuentas[d])
  BY DEF FormaInv, Forma
<1>7. cuentas' = [d \in DOMAIN cuentas |-> IF d = c THEN y ELSE cuentas[d]]
  BY <1>1
<1>8. y = Armada(y) /\ Bolsas(y) /\ Listas(y) = Listas(x)
  <2> HIDE DEF u, p
  <2>1. y = Armada(y) /\ Listas(y) = Listas(x)
    BY DEF Armada, Listas
  <2>2. Bolsas(y)
    BY <1>4 DEF Bolsas
  <2> QED BY <2>1, <2>2
<1>9. Forma(cuentas')
  <2> HIDE DEF y
  <2> QED BY <1>4, <1>7, <1>8 DEF Forma
<1>10. Volcado(cuentas') = Volcado(cuentas)
  <2> HIDE DEF y
  <2>1. DOMAIN cuentas' = DOMAIN cuentas /\ \A d \in DOMAIN cuentas : Listas(cuentas'[d]) = Listas(cuentas[d])
    BY <1>7, <1>8
  <2> QED BY <2>1 DEF Volcado
<1>11. ASSUME Saldos(cuentas, utxos) PROVE Saldos(cuentas', utxos')
  <2>1. y.utxos = Propios(utxos, c) /\ y.pendiente = Pendiente(y.sending)
    OBVIOUS
  <2> HIDE DEF y
  <2>2. DOMAIN cuentas' = DOMAIN cuentas
    BY <1>7
  <2>3. ASSUME NEW d \in DOMAIN cuentas
        PROVE  /\ cuentas'[d].utxos = Propios(utxos, d)
               /\ cuentas'[d].pendiente \in {0, Pendiente(cuentas'[d].sending)}
    <3>1. CASE d = c
      <4>1. cuentas'[d] = y
        BY <1>7, <3>1
      <4> QED BY <2>1, <3>1, <4>1
    <3>2. CASE d # c
      <4>1. cuentas'[d] = cuentas[d]
        BY <1>7, <3>2
      <4> QED BY <1>11, <4>1 DEF Saldos
    <3> QED BY <3>1, <3>2
  <2> QED BY <1>2, <2>2, <2>3 DEF Saldos
<1> QED BY <1>9, <1>10, <1>11

LEMMA TrasRecibirTxn ==
    ASSUME FormaInv, RecibirTxn
    PROVE  /\ Forma(cuentas') /\ Forma(previas')
           /\ Saldos(cuentas, utxos) => Saldos(cuentas', utxos')
           /\ pc' = "escribir" \/ cuentas' = cuentas
<1> DEFINE t == Head(eventos).txn
           tocadas == {c \in DOMAIN cuentas : CantSalidas(t, c) > 0}
           cobro(c) == [u \in {t} |-> CantSalidas(t, c)]
           cs == [c \in DOMAIN cuentas |->
                     IF c \in tocadas
                     THEN [cuentas[c] EXCEPT !.receiving = @ (+) cobro(c)]
                     ELSE cuentas[c]]
<1>1. t \in Ajenas
  BY EventosQueSeToman DEF RecibirTxn
<1>2. IsFiniteSet(DOMAIN t.sal)
  BY <1>1, WalletAssumption
<1>3. \/ cuentas' = cuentas /\ previas' = previas
      \/ cuentas' = cs /\ previas' = cuentas /\ pc' = "escribir"
  BY DEF RecibirTxn, CambiarYGuardar
<1>u. utxos' = utxos
  BY DEF RecibirTxn
<1>4. \A c \in tocadas : Bolsa(cobro(c))
  BY <1>2, SalidasContadas DEF Bolsa
<1>5. \A c \in DOMAIN cuentas : cuentas[c] = Armada(cuentas[c]) /\ Bolsas(cuentas[c])
  BY DEF FormaInv, Forma
<1>6. /\ cs = [c \in DOMAIN cs |-> cs[c]] /\ DOMAIN cs = DOMAIN cuentas
      /\ \A c \in DOMAIN cuentas :
            cs[c] = IF c \in tocadas THEN [cuentas[c] EXCEPT !.receiving = @ (+) cobro(c)] ELSE cuentas[c]
  OBVIOUS
<1> HIDE DEF cs, cobro
<1>7. \A c \in DOMAIN cuentas : c \in tocadas => cs[c] = TrasCobrar(cuentas[c], cobro(c))
  <2> TAKE c \in DOMAIN cuentas
  <2>1. [cuentas[c] EXCEPT !.receiving = @ (+) cobro(c)] = TrasCobrar(cuentas[c], cobro(c))
    BY <1>5, Cobrada
  <2> QED BY <1>6, <2>1
<1>8. \A c \in DOMAIN cuentas : c \notin tocadas => cs[c] = cuentas[c]
  BY <1>6
<1> HIDE DEF tocadas
<1>9. ASSUME NEW c \in DOMAIN cuentas
      PROVE  /\ cs[c] = Armada(cs[c]) /\ Bolsas(cs[c])
             /\ cs[c].utxos = cuentas[c].utxos /\ cs[c].pendiente = cuentas[c].pendiente
             /\ cs[c].sending = cuentas[c].sending
  <2>1. CASE c \in tocadas
    <3>1. cs[c] = Armada(cs[c]) /\ Bolsas(cs[c])
      BY <1>4, <1>5, <1>7, <2>1, FormaCobrar
    <3>2. cs[c] = TrasCobrar(cuentas[c], cobro(c))
      BY <1>7, <2>1
    <3>3. LET y == TrasCobrar(cuentas[c], cobro(c))
          IN  /\ y.utxos = cuentas[c].utxos /\ y.pendiente = cuentas[c].pendiente
              /\ y.sending = cuentas[c].sending
      BY DEF TrasCobrar
    <3> QED BY <3>1, <3>2, <3>3
  <2>2. CASE c \notin tocadas
    BY <1>5, <1>8, <2>2
  <2> QED BY <2>1, <2>2
<1>10. Forma(cs) /\ (Saldos(cuentas, utxos) => Saldos(cs, utxos))
  <2>1. Forma(cs)
    BY <1>6, <1>9 DEF Forma
  <2>2. \A c \in DOMAIN cuentas : Pendiente(cs[c].sending) = Pendiente(cuentas[c].sending)
    BY <1>9
  <2> QED BY <1>6, <1>9, <2>1, <2>2 DEF Saldos
<1> QED BY <1>3, <1>u, <1>10 DEF FormaInv

\* A block that pays nobody changes no list, and one that does is saved.
LEMMA TrasRecibirBloque ==
    ASSUME FormaInv, RecibirBloque
    PROVE  /\ Forma(cuentas') /\ Forma(previas')
           /\ Saldos(cuentas, utxos) => Saldos(cuentas', utxos')
           /\ pc' = "escribir" \/ (pc' = pc /\ Volcado(cuentas') = Volcado(cuentas))
<1> DEFINE b == Head(eventos).bloque
           us == Actualizar(utxos, b)
           cs == [c \in DOMAIN cuentas |-> CuentaTrasBloque(cuentas[c], c, b, us)]
<1>1. /\ cuentas' = cs /\ utxos' = us
      /\ \/ previas' = cuentas /\ pc' = "escribir"
         \/ /\ previas' = previas /\ pc' = pc
            /\ ~(\E t \in b, c \in DOMAIN cuentas : CantSalidas(t, c) > 0)
  BY DEF RecibirBloque, CambiarYGuardar
<1>2. \A c \in DOMAIN cuentas : cuentas[c] = Armada(cuentas[c]) /\ Bolsas(cuentas[c])
  BY DEF FormaInv, Forma
<1>3. /\ cs = [c \in DOMAIN cs |-> cs[c]] /\ DOMAIN cs = DOMAIN cuentas
      /\ \A c \in DOMAIN cuentas : cs[c] = CuentaTrasBloque(cuentas[c], c, b, us)
  OBVIOUS
<1> HIDE DEF cs, us, b
<1>4. ASSUME NEW c \in DOMAIN cuentas
      PROVE  /\ cs[c] = Armada(cs[c]) /\ Bolsas(cs[c])
             /\ cs[c].utxos = Propios(us, c)
             /\ cuentas[c].pendiente \in {0, Pendiente(cuentas[c].sending)} =>
                   cs[c].pendiente \in {0, Pendiente(cs[c].sending)}
             /\ ~(\E t \in b : CantSalidas(t, c) > 0) => Listas(cs[c]) = Listas(cuentas[c])
  <2> DEFINE x == cuentas[c]
             envios == Movidas(x.sending, b, c)
             cobros == Movidas(x.receiving, b, c)
             paga == \E t \in b : CantSalidas(t, c) > 0
             s == x.sending (-) envios
             s2 == x.sent (+) envios
             r == x.receiving (-) cobros
             r2 == x.received (+) cobros
             p == PendienteTras(x, envios, paga)
             y == [utxos |-> Propios(us, c), sending |-> s, sent |-> s2,
                   receiving |-> r, received |-> r2, pendiente |-> p]
  <2>1. cs[c] = y
    BY <1>3 DEF CuentaTrasBloque
  <2>2. /\ Bolsa(x.sending) /\ Bolsa(x.sent) /\ Bolsa(x.receiving) /\ Bolsa(x.received)
        /\ x = Armada(x)
    BY <1>2 DEF Bolsas
  <2>3. /\ Bolsa(envios) /\ Bolsa(cobros)
        /\ ~paga => DOMAIN envios = {} /\ DOMAIN cobros = {}
    BY <2>2, BolsaMovidas
  <2>4. p = IF paga THEN Pendiente(s) ELSE x.pendiente
    BY DEF PendienteTras
  <2> HIDE DEF envios, cobros, paga, x, p
  <2>5. Bolsa(s) /\ Bolsa(s2) /\ Bolsa(r) /\ Bolsa(r2)
    BY <2>2, <2>3, BolsaSuma, BolsaResta
  <2>6. ~paga => s = x.sending /\ s2 = x.sent /\ r = x.receiving /\ r2 = x.received
    BY <2>2, <2>3, SinMover
  <2> HIDE DEF s, s2, r, r2
  <2>7. y = Armada(y)
    BY DEF Armada
  <2>8. Bolsas(y)
    BY <2>5 DEF Bolsas
  <2>9. x.pendiente \in {0, Pendiente(x.sending)} => y.pendiente \in {0, Pendiente(y.sending)}
    <3>1. y.pendiente = p /\ y.sending = s
      OBVIOUS
    <3>2. CASE paga
      BY <2>4, <3>1, <3>2
    <3>3. CASE ~paga
      <4>1. y.pendiente = x.pendiente /\ y.sending = x.sending
        BY <2>4, <2>6, <3>1, <3>3
      <4> HIDE DEF y
      <4> QED BY <4>1
    <3> QED BY <3>2, <3>3
  <2>10. ~paga => Listas(y) = Listas(x)
    BY <2>6 DEF Listas
  <2>11. y.utxos = Propios(us, c)
    OBVIOUS
  <2> HIDE DEF y
  <2> QED BY <2>1, <2>7, <2>8, <2>9, <2>10, <2>11 DEF x, paga
<1>5. Forma(cs)
  BY <1>3, <1>4 DEF Forma
<1>6. Saldos(cuentas, utxos) => Saldos(cs, us)
  BY <1>3, <1>4 DEF Saldos
<1>7. ~(\E t \in b, c \in DOMAIN cuentas : CantSalidas(t, c) > 0) => Volcado(cs) = Volcado(cuentas)
  BY <1>3, <1>4 DEF Volcado
<1> QED BY <1>1, <1>5, <1>6, <1>7 DEF FormaInv

\* An account that enters the memory.
LEMMA CuentaNueva ==
    ASSUME NEW c, NEW us, NEW x, Bolsas(x), x = Listas(x)
    PROVE  LET y == Cuenta(c, us, x)
           IN  /\ y = Armada(y) /\ Bolsas(y) /\ Listas(y) = x
               /\ y.utxos = Propios(us, c) /\ y.pendiente = 0
<1>1. Cuenta(c, us, x) = Armada(Cuenta(c, us, x)) /\ Bolsas(Cuenta(c, us, x))
  BY DEF Cuenta, Armada, Bolsas
<1>2. Listas(Cuenta(c, us, x)) = Listas(x)
  BY DEF Cuenta, Listas
<1> QED BY <1>1, <1>2 DEF Cuenta

LEMMA TrasCargar ==
    ASSUME FormaInv, Cargar
    PROVE  Forma(cuentas') /\ Volcado(cuentas') = archivo' /\ Saldos(cuentas', utxos') /\ ~roto'
<1>1. /\ cuentas' = [c \in DOMAIN archivo |-> Cuenta(c, utxos, archivo[c])]
      /\ UNCHANGED <<archivo, utxos, roto>> /\ ~roto
  BY DEF Cargar, disco
<1>2. archivo = [c \in DOMAIN archivo |-> archivo[c]]
  BY DEF FormaInv, FormaArchivo
<1>3. \A c \in DOMAIN archivo : LET y == Cuenta(c, utxos, archivo[c])
           IN  /\ y = Armada(y) /\ Bolsas(y) /\ Listas(y) = archivo[c]
               /\ y.utxos = Propios(utxos, c) /\ y.pendiente = 0
  BY CuentaNueva DEF FormaInv, FormaArchivo
<1>4. Forma(cuentas')
  BY <1>1, <1>3 DEF Forma
<1>5. Volcado(cuentas') = archivo
  <2>1. DOMAIN cuentas' = DOMAIN archivo /\ \A c \in DOMAIN archivo : Listas(cuentas'[c]) = archivo[c]
    BY <1>1, <1>3
  <2> QED BY <1>2, <2>1 DEF Volcado
<1>6. Saldos(cuentas', utxos)
  BY <1>1, <1>3 DEF Saldos
<1> QED BY <1>1, <1>4, <1>5, <1>6

LEMMA TrasAgregarWallet ==
    ASSUME FormaInv, AgregarWallet
    PROVE  /\ Forma(cuentas') /\ previas' = cuentas'
           /\ Saldos(cuentas, utxos) => Saldos(cuentas', utxos')
<1>1. PICK c \in Direcciones \ DOMAIN cuentas :
          /\ cuentas' = [d \in DOMAIN cuentas \cup {c} |->
                            IF d = c THEN Cuenta(c, utxos, SinTxns) ELSE cuentas[d]]
          /\ previas' = cuentas'
  BY DEF AgregarWallet, CambiarYGuardar
<1>2. utxos' = utxos
  BY DEF AgregarWallet
<1> DEFINE y == Cuenta(c, utxos, SinTxns)
<1>3. /\ y = Armada(y) /\ Bolsas(y) /\ y.utxos = Propios(utxos, c) /\ y.pendiente = 0
  <2>1. SinTxns = Listas(SinTxns) /\ Bolsas(SinTxns)
    BY BolsaVacia DEF SinTxns, Listas, Bolsas
  <2> QED BY <2>1, CuentaNueva
<1> HIDE DEF y
<1>4. cuentas' = [d \in DOMAIN cuentas \cup {c} |-> IF d = c THEN y ELSE cuentas[d]]
  BY <1>1 DEF y
<1>5. Forma(cuentas')
  BY <1>3, <1>4 DEF Forma, FormaInv
<1>6. Saldos(cuentas, utxos) => Saldos(cuentas', utxos)
  BY <1>3, <1>4 DEF Saldos
<1> QED BY <1>1, <1>2, <1>5, <1>6
-----------------------------------------------------------------------------
(* The invariant. *)

\* Nothing but the listener's events and the network moves.
LEMMA FormaSigue ==
    ASSUME FormaInv, UNCHANGED <<cuentas, previas, archivo, nueva>>,
           \E S : eventos' \in Seq(S) /\ \A x \in S : x.tipo = "txn" => x.txn \in Ajenas
    PROVE  FormaInv'
  BY DEF FormaInv

LEMMA EventosQuietos ==
    FormaInv /\ UNCHANGED eventos =>
        \E S : eventos' \in Seq(S) /\ \A x \in S : x.tipo = "txn" => x.txn \in Ajenas
  BY DEF FormaInv

\* A save that stops in the middle.
LEMMA FormaAMedias ==
    ASSUME FormaInv, GuardarAMedias
    PROVE  FormaArchivo(archivo')
<1>1. CASE UNCHANGED disco
  BY <1>1 DEF FormaInv, disco
<1>2. CASE \E s \in SUBSET DOMAIN cuentas : archivo' = [c \in s |-> Listas(cuentas[c])]
  BY <1>2, FormaVolcado DEF FormaInv
<1> QED BY <1>1, <1>2 DEF GuardarAMedias

LEMMA FormaTrasTerminar ==
    ASSUME FormaInv, Terminar, FormaArchivo(archivo')
    PROVE  FormaInv'
<1>1. cuentas' = << >> /\ previas' = << >> /\ nueva' = {} /\ eventos' \in Seq({})
  BY DEF Terminar
<1> QED BY <1>1, FormaVacia DEF FormaInv

\* What the user sends has one output or two.
LEMMA FormaTransmitir ==
    ASSUME FormaInv, Transmitir
    PROVE  FormaInv'
<1>1. PICK c, d, i, k, hora, gastados :
          nueva' = {[de |-> c, a |-> d, importe |-> i, costo |-> k,
                     txn |-> Transaccion(c, gastados, d, i, k, hora)]}
  BY DEF Transmitir
<1>2. \A n \in nueva' : n.txn = Transaccion(c, gastados, d, i, k, hora)
  BY <1>1
<1> DEFINE T == Transaccion(c, gastados, d, i, k, hora)
           pago == <<[dest |-> d, monto |-> i]>>
<1>3. \E m \in {1, 2} : DOMAIN T.sal = 1..m
  <2> DEFINE v == Vuelto(gastados, i, k)
             uno == [dest |-> d, monto |-> i]
             otro == [dest |-> c, monto |-> v]
  <2>1. T.sal = IF v > 0 THEN Append(<<uno>>, otro) ELSE <<uno>>
    BY DEF Transaccion
  <2> HIDE DEF v, uno, otro, T
  <2>2. DOMAIN <<uno>> = 1..1 /\ DOMAIN Append(<<uno>>, otro) = 1..2
    OBVIOUS
  <2>3. CASE v > 0
    BY <2>1, <2>2, <2>3
  <2>4. CASE ~(v > 0)
    BY <2>1, <2>2, <2>4
  <2> QED BY <2>3, <2>4
<1>4. IsFiniteSet(DOMAIN T.sal)
  BY <1>3, FS_Interval
<1>5. UNCHANGED <<cuentas, previas, archivo, eventos>>
  BY DEF Transmitir, disco
<1> QED BY <1>2, <1>4, <1>5 DEF FormaInv

LEMMA FormaInvNext == FormaInv /\ [Next]_vars => FormaInv'
<1> SUFFICES ASSUME FormaInv, [Next]_vars PROVE FormaInv'
  OBVIOUS
<1>f. Forma(cuentas) /\ Forma(previas) /\ FormaArchivo(archivo)
      /\ \A n \in nueva : IsFiniteSet(DOMAIN n.txn.sal)
  BY DEF FormaInv
<1>1. CASE \/ LlegaBloque \/ AbrirDirectorio \/ LeerInputs \/ LeerOutputs \/ Reiniciar \/ UNCHANGED vars
  BY <1>1, FormaSigue, EventosQuietos
     DEF LlegaBloque, AbrirDirectorio, LeerInputs, LeerOutputs, Reiniciar, vars, disco
<1>2. CASE EnviarBloque
  <2>1. PICK b : eventos' = Append(eventos, [tipo |-> "bloque", bloque |-> b])
    BY <1>2 DEF EnviarBloque
  <2> QED BY <1>2, <2>1, EventosQueLlegan, FormaSigue DEF EnviarBloque, disco
<1>3. CASE LlegaTxn
  <2>1. PICK t \in Ajenas : eventos' = Append(eventos, [tipo |-> "txn", txn |-> t])
    BY <1>3 DEF LlegaTxn
  <2> QED BY <1>3, <2>1, EventosQueLlegan, FormaSigue DEF LlegaTxn, disco
<1>4. CASE Cargar
  BY <1>4, <1>f, TrasCargar, EventosQuietos DEF Cargar, FormaInv, disco
<1>5. CASE CargarRoto
  BY <1>5, <1>f, FormaTrasTerminar DEF CargarRoto, disco
<1>6. CASE AgregarWallet
  BY <1>6, <1>f, TrasAgregarWallet, EventosQuietos DEF AgregarWallet, FormaInv, disco
<1>7. CASE CargarWallet
  BY <1>7, <1>f, TrasCargarWallet, EventosQuietos DEF CargarWallet, FormaInv, disco
<1>8. CASE Transmitir
  BY <1>8, FormaTransmitir
<1>9. CASE AnotarTransferencia
  <2>1. Forma(cuentas') /\ previas' = cuentas' /\ nueva' = {} /\ archivo' = archivo
    BY <1>9, TransferenciaAnotada DEF AnotarTransferencia, CambiarYGuardar, disco
  <2> QED BY <1>9, <1>f, <2>1, EventosQuietos DEF AnotarTransferencia, FormaInv
<1>10. CASE RecibirTxn
  BY <1>10, <1>f, TrasRecibirTxn, EventosQueSeToman DEF RecibirTxn, FormaInv, disco
<1>11. CASE RecibirBloque
  BY <1>11, <1>f, TrasRecibirBloque, EventosQueSeToman DEF RecibirBloque, FormaInv, disco
<1>12. CASE Escribir
  <2>1. FormaArchivo(archivo')
    BY <1>12, <1>f, FormaVolcado DEF Escribir, Volcado
  <2> QED BY <1>12, <1>f, <2>1, FormaVacia, EventosQuietos DEF Escribir, FormaInv
<1>13. CASE FallaApertura
  BY <1>13, <1>f, FormaVacia, EventosQuietos DEF FallaApertura, FormaInv
<1>14. CASE FallaEscritura
  <2>1. FormaArchivo(archivo')
    BY <1>14, FormaAMedias DEF FallaEscritura
  <2> QED BY <1>14, <1>f, <2>1, FormaVacia, EventosQuietos DEF FallaEscritura, FormaInv
<1>15. CASE Caer
  <2>1. FormaArchivo(archivo')
    BY <1>15, <1>f, FormaAMedias DEF Caer, disco
  <2> QED BY <1>15, <2>1, FormaTrasTerminar DEF Caer
<1> QED
  BY <1>1, <1>2, <1>3, <1>4, <1>5, <1>6, <1>7, <1>8, <1>9, <1>10, <1>11, <1>12, <1>13, <1>14, <1>15
  DEF Next

LEMMA FormaSiempre == Spec => []FormaInv
  BY FormaInvInit, FormaInvNext, PTL DEF Spec

LEMMA ArchivoInit == Init => ArchivoAlDia /\ SaldosAlDia
  BY DEF Init, ArchivoAlDia, SaldosAlDia, Corriendo

\* The file: a step that leaves the main thread at rest either saves, or loads, or
\* changes nothing that is saved.
LEMMA ArchivoNext == FormaInv /\ ArchivoAlDia /\ [Next]_vars => ArchivoAlDia'
<1> SUFFICES ASSUME FormaInv, ArchivoAlDia, [Next]_vars,
                    pc' \in {"espera", "transmitida"}, ~fallo'
             PROVE  archivo' = Volcado(cuentas') /\ ~roto'
  BY DEF ArchivoAlDia, Volcado, Listas
<1>1. CASE LlegaBloque \/ EnviarBloque \/ LlegaTxn \/ Transmitir \/ UNCHANGED vars
  BY <1>1 DEF LlegaBloque, EnviarBloque, LlegaTxn, Transmitir, vars, disco, cuentaBound, ArchivoAlDia, Volcado
<1>2. CASE \/ AbrirDirectorio \/ LeerInputs \/ LeerOutputs \/ Reiniciar \/ Caer \/ CargarRoto
           \/ AgregarWallet \/ AnotarTransferencia \/ FallaApertura \/ FallaEscritura
  BY <1>2 DEF AbrirDirectorio, LeerInputs, LeerOutputs, Reiniciar, Caer, CargarRoto, Terminar,
         AgregarWallet, AnotarTransferencia, CambiarYGuardar, FallaApertura, FallaEscritura
<1>3. CASE Cargar
  BY <1>3, TrasCargar
<1>4. CASE CargarWallet
  <2>1. pc = "espera" /\ ~fallo /\ archivo' = archivo /\ roto' = roto
    BY <1>4 DEF CargarWallet, disco, cuentaBound
  <2> QED BY <1>4, <2>1, TrasCargarWallet DEF ArchivoAlDia
<1>5. CASE RecibirTxn
  <2>1. pc = "espera" /\ ~fallo /\ archivo' = archivo /\ roto' = roto
    BY <1>5 DEF RecibirTxn, disco, cuentaBound
  <2>2. cuentas' = cuentas
    BY <1>5, TrasRecibirTxn
  <2> QED BY <2>1, <2>2 DEF ArchivoAlDia
<1>6. CASE RecibirBloque
  <2>1. pc = "espera" /\ ~fallo /\ archivo' = archivo /\ roto' = roto
    BY <1>6 DEF RecibirBloque, disco, cuentaBound
  <2>2. Volcado(cuentas') = Volcado(cuentas)
    BY <1>6, TrasRecibirBloque
  <2> QED BY <2>1, <2>2 DEF ArchivoAlDia
<1>7. CASE Escribir
  BY <1>7 DEF Escribir
<1> QED BY <1>1, <1>2, <1>3, <1>4, <1>5, <1>6, <1>7 DEF Next

\* The balances: nothing changes the set, or what an account has sent, without
\* changing what follows from them.
LEMMA SaldosNext == FormaInv /\ SaldosAlDia /\ [Next]_vars => SaldosAlDia'
<1> SUFFICES ASSUME FormaInv, SaldosAlDia, [Next]_vars, Corriendo', ~fallo'
             PROVE  Saldos(cuentas', utxos')
  BY DEF SaldosAlDia, Saldos
<1>s. Corriendo /\ ~fallo => Saldos(cuentas, utxos)
  BY DEF SaldosAlDia, Saldos
<1>1. CASE LlegaBloque \/ EnviarBloque \/ LlegaTxn \/ Transmitir \/ Escribir \/ UNCHANGED vars
  <2>1. cuentas' = cuentas /\ utxos' = utxos /\ Corriendo /\ ~fallo
    BY <1>1 DEF LlegaBloque, EnviarBloque, LlegaTxn, Transmitir, Escribir, vars, cuentaBound, Corriendo
  <2> QED BY <1>s, <2>1
<1>2. CASE \/ AbrirDirectorio \/ LeerInputs \/ LeerOutputs \/ Reiniciar \/ Caer \/ CargarRoto
           \/ FallaApertura \/ FallaEscritura
  BY <1>2 DEF AbrirDirectorio, LeerInputs, LeerOutputs, Reiniciar, Caer, CargarRoto, Terminar,
         FallaApertura, FallaEscritura, Corriendo
<1>3. CASE Cargar
  BY <1>3, TrasCargar
<1>4. CASE AgregarWallet \/ CargarWallet \/ RecibirTxn \/ RecibirBloque
  <2>1. Corriendo /\ ~fallo
    <3>1. AgregarWallet => pc = "espera" /\ UNCHANGED cuentaBound
      BY DEF AgregarWallet
    <3>2. CargarWallet => pc = "espera" /\ UNCHANGED cuentaBound
      BY DEF CargarWallet
    <3>3. RecibirTxn => pc = "espera" /\ UNCHANGED cuentaBound
      BY DEF RecibirTxn
    <3>4. RecibirBloque => pc = "espera" /\ UNCHANGED cuentaBound
      BY DEF RecibirBloque
    <3> QED BY <1>4, <3>1, <3>2, <3>3, <3>4 DEF cuentaBound, Corriendo
  <2> QED BY <1>4, <1>s, <2>1, TrasAgregarWallet, TrasCargarWallet, TrasRecibirTxn, TrasRecibirBloque
<1>5. CASE AnotarTransferencia
  <2>1. Corriendo /\ ~fallo
    BY <1>5 DEF AnotarTransferencia, cuentaBound, Corriendo
  <2> QED BY <1>5, <1>s, <2>1, SaldosTrasTransferir
<1> QED BY <1>1, <1>2, <1>3, <1>4, <1>5 DEF Next

\* What is on disk when the main thread is at rest is what it has in memory, for any
\* accounts, chain and transfers: between events, no death of the process loses
\* what was entered, while no save of this life has failed (save).
THEOREM ArchivoCorrecto == Spec => []ArchivoAlDia
<1>1. FormaInv /\ ArchivoAlDia /\ [Next]_vars => ArchivoAlDia'
  BY ArchivoNext
<1>2. Init => ArchivoAlDia
  BY ArchivoInit
<1> QED BY <1>1, <1>2, FormaSiempre, PTL DEF Spec

\* Every account has exactly its outputs of the set, and the pending balance of its
\* transfers that are not confirmed or, if nothing touched it since it was loaded,
\* none, while no save of this life has failed (agregar_account,
\* evento_cargar_wallet, evento_realizar_trx, evento_recibir_bloque).
THEOREM SaldosCorrectos == Spec => []SaldosAlDia
<1>1. FormaInv /\ SaldosAlDia /\ [Next]_vars => SaldosAlDia'
  BY SaldosNext
<1>2. Init => SaldosAlDia
  BY ArchivoInit
<1> QED BY <1>1, <1>2, FormaSiempre, PTL DEF Spec
-----------------------------------------------------------------------------
(* Induction over the natural numbers, without an operator as a parameter. *)

\* A set of numbers that is not empty has a least one.
LEMMA Minimo ==
    ASSUME NEW T \in SUBSET Nat, T # {}
    PROVE  \E x \in T : \A y \in T : x <= y
<1>1. PICK x \in T : \A y \in T : ~(<<y, x>> \in OpToRel(<, Nat))
  BY NatLessThanWellFounded, WFMin
<1>2. ASSUME NEW y \in T, y < x PROVE FALSE
  <2>1. <<y, x>> \in OpToRel(<, Nat)
    BY <1>2 DEF OpToRel
  <2> QED BY <1>1, <2>1
<1> QED BY <1>2

\* A set of numbers with 0, and with n + 1 if it has n, has them all.
LEMMA Induccion ==
    ASSUME NEW T \in SUBSET Nat, 0 \in T, \A n \in T : n + 1 \in T
    PROVE  T = Nat
<1> SUFFICES ASSUME T # Nat PROVE FALSE
  OBVIOUS
<1>1. PICK x \in Nat \ T : \A y \in Nat \ T : x <= y
  BY Minimo
<1>2. x - 1 \in Nat /\ x - 1 \notin Nat \ T
  BY <1>1
<1> QED BY <1>1, <1>2

\* What an event does to the set of unspent outputs.
Avance(us, e) == IF e.tipo = "bloque" THEN Actualizar(us, e.bloque) ELSE us

\* The set after each of the events of a queue.
Avances(us, u, ev, n) == us = [i \in 0..n |-> IF i = 0 THEN u ELSE Avance(us[i - 1], ev[i])]

\* There are such sets for any number of events.
LEMMA AvancesExisten ==
    ASSUME NEW u, NEW ev, NEW n \in Nat
    PROVE  \E us : Avances(us, u, ev, n)
<1> DEFINE T == {m \in Nat : \E us : Avances(us, u, ev, m)}
<1>1. 0 \in T
  <2>1. Avances([i \in 0..0 |-> u], u, ev, 0)
    BY DEF Avances
  <2> QED BY <2>1
<1>2. ASSUME NEW m \in T PROVE m + 1 \in T
  <2>1. PICK us : Avances(us, u, ev, m)
    OBVIOUS
  <2> DEFINE w == [i \in 0..m + 1 |-> IF i = m + 1 THEN Avance(us[m], ev[m + 1]) ELSE us[i]]
  <2>2. ASSUME NEW i \in 0..m + 1 PROVE w[i] = IF i = 0 THEN u ELSE Avance(w[i - 1], ev[i])
    <3>1. CASE i = m + 1
      BY <3>1
    <3>2. CASE i # m + 1
      <4>1. i \in 0..m /\ w[i] = us[i] /\ (i # 0 => w[i - 1] = us[i - 1])
        BY <3>2
      <4>2. us[i] = IF i = 0 THEN u ELSE Avance(us[i - 1], ev[i])
        BY <2>1, <4>1 DEF Avances
      <4> HIDE DEF w
      <4> QED BY <4>1, <4>2
    <3> QED BY <3>1, <3>2
  <2>3. w = [i \in 0..m + 1 |-> w[i]]
    OBVIOUS
  <2> HIDE DEF w
  <2>4. Avances(w, u, ev, m + 1)
    BY <2>2, <2>3 DEF Avances
  <2> QED BY <2>4
<1> HIDE DEF T
<1>3. T = Nat
  <2>1. T \in SUBSET Nat
    BY DEF T
  <2> QED BY <1>1, <1>2, <2>1, Induccion
<1> QED BY <1>3 DEF T
-----------------------------------------------------------------------------
(* The chain, and what of it the set of unspent outputs has.               *)

\* The transactions of the first n blocks of a chain.
Hasta(ch, n) == UNION {ch[i] : i \in 1..n}
Todas(ch) == Hasta(ch, Len(ch))

EsSecuencia(ch) == \E S : ch \in Seq(S)

\* What several transactions spend and make.
LEMMA EntradasUnion ==
    ASSUME NEW a, NEW b
    PROVE  /\ Entradas(a \cup b) = Entradas(a) \cup Entradas(b)
           /\ Salidas(a \cup b) = Salidas(a) \cup Salidas(b)
           /\ a \subseteq b => Entradas(a) \subseteq Entradas(b) /\ Salidas(a) \subseteq Salidas(b)
  BY DEF Entradas, Salidas

\* The first part of an output is the transaction that makes it.
LEMMA SalidaDe ==
    ASSUME NEW b, NEW o \in Salidas(b)
    PROVE  o[1] \in b
  BY DEF Salidas

\* A list with one more at its end.
LEMMA ListaCrece ==
    ASSUME NEW ch, EsSecuencia(ch), NEW b
    PROVE  /\ EsSecuencia(Append(ch, b)) /\ Len(Append(ch, b)) = Len(ch) + 1
           /\ Append(ch, b)[Len(ch) + 1] = b
           /\ \A i \in 1..Len(ch) : Append(ch, b)[i] = ch[i]
<1>1. PICK S : ch \in Seq(S)
  BY DEF EsSecuencia
<1>2. ch \in Seq(S \cup {b})
  BY <1>1
<1>3. /\ Append(ch, b) \in Seq(S \cup {b}) /\ Len(Append(ch, b)) = Len(ch) + 1
      /\ Append(ch, b)[Len(ch) + 1] = b
      /\ \A i \in 1..Len(ch) : Append(ch, b)[i] = ch[i]
  BY <1>2
<1> QED BY <1>3 DEF EsSecuencia

\* A chain with a block more.
LEMMA CadenaCrece ==
    ASSUME NEW ch, EsSecuencia(ch), NEW b, NEW k \in 0..Len(ch)
    PROVE  /\ EsSecuencia(Append(ch, b)) /\ Len(Append(ch, b)) = Len(ch) + 1
           /\ Append(ch, b)[Len(ch) + 1] = b
           /\ \A i \in 1..Len(ch) : Append(ch, b)[i] = ch[i]
           /\ Hasta(Append(ch, b), k) = Hasta(ch, k)
           /\ Todas(Append(ch, b)) = Todas(ch) \cup b
<1>3. /\ EsSecuencia(Append(ch, b)) /\ Len(Append(ch, b)) = Len(ch) + 1
      /\ Append(ch, b)[Len(ch) + 1] = b
      /\ \A i \in 1..Len(ch) : Append(ch, b)[i] = ch[i]
  BY ListaCrece
<1>4. Len(ch) \in Nat
  BY DEF EsSecuencia
<1> DEFINE d == Append(ch, b)
<1> HIDE DEF d
<1>5. ASSUME NEW m \in 0..Len(ch) PROVE {d[i] : i \in 1..m} = {ch[i] : i \in 1..m}
  <2>1. \A i \in 1..m : i \in 1..Len(ch)
    BY <1>3, <1>4
  <2> QED BY <1>3, <1>4, <2>1 DEF d
<1>6. Hasta(d, k) = Hasta(ch, k)
  BY <1>5 DEF Hasta
<1>7. Hasta(d, Len(ch) + 1) = Hasta(ch, Len(ch)) \cup b
  <2>1. 1..Len(ch) + 1 = (1..Len(ch)) \cup {Len(ch) + 1}
    BY <1>3, <1>4
  <2>2. {d[i] : i \in 1..Len(ch) + 1} = {d[i] : i \in 1..Len(ch)} \cup {b}
    BY <1>3, <1>4, <2>1 DEF d
  <2>3. {d[i] : i \in 1..Len(ch)} = {ch[i] : i \in 1..Len(ch)}
    <3>1. Len(ch) \in 0..Len(ch)
      BY <1>3, <1>4
    <3> QED BY <1>5, <3>1
  <2> QED BY <2>2, <2>3 DEF Hasta
<1> QED BY <1>3, <1>6, <1>7 DEF d, Todas

\* The transactions of a prefix of the chain, and of a longer one.
LEMMA HastaSigue ==
    ASSUME NEW ch, EsSecuencia(ch), NEW k \in 0..Len(ch)
    PROVE  /\ k + 1 <= Len(ch) => Hasta(ch, k + 1) = Hasta(ch, k) \cup ch[k + 1]
           /\ \A j \in k..Len(ch) : Hasta(ch, k) \subseteq Hasta(ch, j)
           /\ \A i \in 1..k : ch[i] \subseteq Hasta(ch, k)
           /\ Hasta(ch, k) \subseteq Todas(ch) /\ Todas(ch) = UNION Rango(ch)
<1>1. Len(ch) \in Nat /\ DOMAIN ch = 1..Len(ch)
  BY DEF EsSecuencia
<1>2. 1..k + 1 = (1..k) \cup {k + 1}
  BY <1>1
<1>3. Hasta(ch, k + 1) = Hasta(ch, k) \cup ch[k + 1]
  BY <1>2 DEF Hasta
<1>4. ASSUME NEW j \in k..Len(ch) PROVE Hasta(ch, k) \subseteq Hasta(ch, j)
  <2>1. 1..k \subseteq 1..j
    BY <1>1
  <2> QED BY <2>1 DEF Hasta
<1>5. \A i \in 1..k : ch[i] \subseteq Hasta(ch, k)
  BY DEF Hasta
<1>6. Hasta(ch, k) \subseteq Todas(ch)
  BY <1>1, <1>4 DEF Todas
<1>7. Todas(ch) = UNION Rango(ch)
  BY <1>1 DEF Todas, Hasta, Rango
<1> QED BY <1>3, <1>4, <1>5, <1>6, <1>7

\* A set of outputs that is up to date with the first k blocks: it may lack some that
\* a later block spends, and may have some that a later block makes.
AlDia(us, ch, k) ==
    /\ us \subseteq Salidas(Todas(ch)) /\ us \cap Entradas(Hasta(ch, k)) = {}
    /\ Salidas(Hasta(ch, k)) \ Entradas(Todas(ch)) \subseteq us

\* From a length on, no output is spent by a block before the one that makes it.
Causal(ch, n) == \A j \in n + 1..Len(ch) : Salidas(ch[j]) \cap Entradas(Hasta(ch, j - 1)) = {}

\* The next block is applied.
LEMMA AlDiaAvanza ==
    ASSUME NEW ch, EsSecuencia(ch), NEW n \in Nat, Causal(ch, n),
           NEW us, NEW k \in n..Len(ch) - 1, AlDia(us, ch, k)
    PROVE  AlDia(Actualizar(us, ch[k + 1]), ch, k + 1)
<1>1. Len(ch) \in Nat
  BY DEF EsSecuencia
<1>2. k \in 0..Len(ch) /\ k + 1 \in 0..Len(ch) /\ k + 1 \in n + 1..Len(ch) /\ (k + 1) - 1 = k /\ k + 1 \in 1..k + 1
  BY <1>1
<1>3. Hasta(ch, k + 1) = Hasta(ch, k) \cup ch[k + 1] /\ ch[k + 1] \subseteq Todas(ch)
  BY <1>1, <1>2, HastaSigue
<1>4. Salidas(ch[k + 1]) \cap Entradas(Hasta(ch, k)) = {}
  BY <1>2 DEF Causal
<1>5. /\ Entradas(Hasta(ch, k + 1)) = Entradas(Hasta(ch, k)) \cup Entradas(ch[k + 1])
      /\ Salidas(Hasta(ch, k + 1)) = Salidas(Hasta(ch, k)) \cup Salidas(ch[k + 1])
  <2> DEFINE a == Hasta(ch, k)
             b == ch[k + 1]
  <2> HIDE DEF a, b
  <2>1. Entradas(a \cup b) = Entradas(a) \cup Entradas(b) /\ Salidas(a \cup b) = Salidas(a) \cup Salidas(b)
    BY EntradasUnion
  <2> QED BY <1>3, <2>1 DEF a, b
<1>6. Salidas(ch[k + 1]) \subseteq Salidas(Todas(ch)) /\ Entradas(ch[k + 1]) \subseteq Entradas(Todas(ch))
  <2> DEFINE a == ch[k + 1]
             b == Todas(ch)
  <2> HIDE DEF a, b
  <2>1. a \subseteq b
    BY <1>3 DEF a, b
  <2>2. Entradas(a) \subseteq Entradas(b) /\ Salidas(a) \subseteq Salidas(b)
    BY <2>1, EntradasUnion
  <2> QED BY <2>2 DEF a, b
<1> QED BY <1>4, <1>5, <1>6 DEF AlDia, Actualizar

\* A set that is up to date with the whole chain is that of the chain.
LEMMA AlDiaDelTodo ==
    ASSUME NEW ch, EsSecuencia(ch), NEW us, AlDia(us, ch, Len(ch))
    PROVE  us = Impagos(ch)
<1>1. DOMAIN ch = 1..Len(ch)
  BY DEF EsSecuencia
<1>2. Impagos(ch) = Salidas(Todas(ch)) \ Entradas(Todas(ch))
  BY <1>1 DEF Impagos, Todas, Hasta
<1> QED BY <1>2 DEF AlDia, Todas

\* The chain grows, and nothing of what was up to date changes.
LEMMA AlDiaCrece ==
    ASSUME NEW ch, EsSecuencia(ch), NEW b, NEW us, NEW k \in 0..Len(ch), AlDia(us, ch, k)
    PROVE  AlDia(us, Append(ch, b), k)
<1>1. Hasta(Append(ch, b), k) = Hasta(ch, k) /\ Todas(Append(ch, b)) = Todas(ch) \cup b
  BY CadenaCrece
<1>2. /\ Salidas(Todas(ch)) \subseteq Salidas(Todas(Append(ch, b)))
      /\ Entradas(Todas(ch)) \subseteq Entradas(Todas(Append(ch, b)))
  BY <1>1, EntradasUnion
<1> QED BY <1>1, <1>2 DEF AlDia
-----------------------------------------------------------------------------
(* The channel: the blocks whose event is in it are the last ones of the chain, *)
(* and f[i] is the length of the chain after the first i events.               *)

Cola(f, ev, ch, pe) ==
    /\ f \in [0..Len(ev) -> Len(Base)..Len(ch)]
    /\ \A i \in 1..Len(ev) :
          /\ ev[i].tipo = "bloque" => f[i] = f[i - 1] + 1 /\ ev[i].bloque = ch[f[i]]
          /\ ev[i].tipo # "bloque" => f[i] = f[i - 1] /\ ev[i].txn \notin Hasta(ch, f[i])
    /\ \/ pe = {} /\ f[Len(ev)] = Len(ch)
       \/ pe = {ch[Len(ch)]} /\ f[Len(ev)] = Len(ch) - 1

\* The chain at the beginning is a list.
LEMMA BaseEsSecuencia == EsSecuencia(Base) /\ Len(Base) \in Nat
  BY WalletAssumption DEF EsSecuencia

\* The channel at the start of a process.
LEMMA ColaVacia ==
    ASSUME NEW ch, EsSecuencia(ch), Len(ch) >= Len(Base)
    PROVE  \E f : Cola(f, << >>, ch, {}) /\ f[0] = Len(ch)
<1> DEFINE f == [i \in 0..0 |-> Len(ch)]
<1>1. Len(ch) \in Nat
  BY DEF EsSecuencia
<1>2. Cola(f, << >>, ch, {}) /\ f[0] = Len(ch)
  BY <1>1, BaseEsSecuencia DEF Cola
<1> QED BY <1>2

\* A block is written, and its event is not sent yet.
LEMMA ColaConBloque ==
    ASSUME NEW f, NEW ev, EsSecuencia(ev), NEW ch, EsSecuencia(ch), Cola(f, ev, ch, {}), NEW b
    PROVE  Cola(f, ev, Append(ch, b), {b})
<1>1. Len(ch) \in Nat /\ Len(ev) \in Nat /\ Len(Base) \in Nat
  BY BaseEsSecuencia DEF EsSecuencia
<1> DEFINE d == Append(ch, b)
<1>2. /\ Len(d) = Len(ch) + 1 /\ d[Len(d)] = b
      /\ \A i \in 1..Len(ch) : d[i] = ch[i]
      /\ \A k \in 0..Len(ch) : Hasta(d, k) = Hasta(ch, k)
  BY <1>1, CadenaCrece
<1> HIDE DEF d
<1>3. /\ f \in [0..Len(ev) -> Len(Base)..Len(ch)] /\ f[Len(ev)] = Len(ch)
      /\ \A i \in 1..Len(ev) :
          /\ ev[i].tipo = "bloque" => f[i] = f[i - 1] + 1 /\ ev[i].bloque = ch[f[i]]
          /\ ev[i].tipo # "bloque" => f[i] = f[i - 1] /\ ev[i].txn \notin Hasta(ch, f[i])
  BY <1>1 DEF Cola
<1>4. f \in [0..Len(ev) -> Len(Base)..Len(d)] /\ f[Len(ev)] = Len(d) - 1
  <2>1. Len(Base)..Len(ch) \subseteq Len(Base)..Len(d)
    BY <1>1, <1>2
  <2> QED BY <1>1, <1>2, <1>3, <2>1
<1>5. ASSUME NEW i \in 1..Len(ev)
      PROVE  /\ ev[i].tipo = "bloque" => f[i] = f[i - 1] + 1 /\ ev[i].bloque = d[f[i]]
             /\ ev[i].tipo # "bloque" => f[i] = f[i - 1] /\ ev[i].txn \notin Hasta(d, f[i])
  <2>1. i - 1 \in 0..Len(ev) /\ i \in 0..Len(ev)
    BY <1>1
  <2>2. f[i] \in Len(Base)..Len(ch) /\ f[i - 1] \in Len(Base)..Len(ch)
    BY <1>3, <2>1
  <2>3. f[i] \in 0..Len(ch) /\ (f[i] = f[i - 1] + 1 => f[i] \in 1..Len(ch))
    BY <1>1, <2>2
  <2> QED BY <1>2, <1>3, <2>3
<1>6. Cola(f, ev, d, {b})
  BY <1>2, <1>4, <1>5 DEF Cola
<1> QED BY <1>6 DEF d

\* One more event.
LEMMA ColaConEvento ==
    ASSUME NEW f, NEW ev, EsSecuencia(ev), NEW ch, EsSecuencia(ch), NEW pe, Cola(f, ev, ch, pe),
           NEW e, NEW qe,
           \/ e.tipo # "bloque" /\ qe = pe /\ e.txn \notin Todas(ch)
           \/ e.tipo = "bloque" /\ e.bloque \in pe /\ qe = {}
    PROVE  \E g : Cola(g, Append(ev, e), ch, qe) /\ g[0] = f[0]
<1>1. Len(ch) \in Nat /\ Len(ev) \in Nat /\ Len(Base) \in Nat
  BY BaseEsSecuencia DEF EsSecuencia
<1> DEFINE d == Append(ev, e)
           n == Len(ev)
           u == IF e.tipo = "bloque" THEN f[n] + 1 ELSE f[n]
           g == [i \in 0..n + 1 |-> IF i = n + 1 THEN u ELSE f[i]]
<1>2. Len(d) = n + 1 /\ d[n + 1] = e /\ \A i \in 1..n : d[i] = ev[i]
  BY CadenaCrece, <1>1
<1>3. /\ f \in [0..n -> Len(Base)..Len(ch)]
      /\ \A i \in 1..n :
          /\ ev[i].tipo = "bloque" => f[i] = f[i - 1] + 1 /\ ev[i].bloque = ch[f[i]]
          /\ ev[i].tipo # "bloque" => f[i] = f[i - 1] /\ ev[i].txn \notin Hasta(ch, f[i])
      /\ \/ pe = {} /\ f[n] = Len(ch)
         \/ pe = {ch[Len(ch)]} /\ f[n] = Len(ch) - 1
  BY DEF Cola
<1>4. f[n] \in Len(Base)..Len(ch) /\ u \in Len(Base)..Len(ch)
  <2>1. f[n] \in Len(Base)..Len(ch)
    BY <1>1, <1>3
  <2> QED BY <1>1, <1>3, <2>1
<1>5. /\ \A i \in 0..n : g[i] = f[i]
      /\ g[n + 1] = u
  BY <1>1
<1>6. g \in [0..n + 1 -> Len(Base)..Len(ch)]
  BY <1>1, <1>3, <1>4
<1>7. \/ qe = {} /\ u = Len(ch)
      \/ qe = {ch[Len(ch)]} /\ u = Len(ch) - 1
  BY <1>1, <1>3
<1>8. /\ e.tipo = "bloque" => u = f[n] + 1 /\ e.bloque = ch[u]
      /\ e.tipo # "bloque" => u = f[n] /\ e.txn \notin Hasta(ch, u)
  <2>1. CASE e.tipo = "bloque"
    BY <1>1, <1>3, <2>1
  <2>2. CASE e.tipo # "bloque"
    <3>1. u \in 0..Len(ch)
      BY <1>1, <1>4
    <3>2. Hasta(ch, u) \subseteq Todas(ch)
      BY <3>1, HastaSigue
    <3> QED BY <2>2, <3>2
  <2> QED BY <2>1, <2>2
<1> HIDE DEF d, g, u
<1>9. ASSUME NEW i \in 1..n + 1
      PROVE  /\ d[i].tipo = "bloque" => g[i] = g[i - 1] + 1 /\ d[i].bloque = ch[g[i]]
             /\ d[i].tipo # "bloque" => g[i] = g[i - 1] /\ d[i].txn \notin Hasta(ch, g[i])
  <2>1. CASE i = n + 1
    <3>1. i - 1 = n /\ n \in 0..n
      BY <1>1, <2>1
    <3> QED BY <1>2, <1>5, <1>8, <2>1, <3>1
  <2>2. CASE i # n + 1
    <3>1. i \in 1..n /\ i \in 0..n /\ i - 1 \in 0..n
      BY <1>1, <2>2
    <3> QED BY <1>2, <1>3, <1>5, <3>1
  <2> QED BY <2>1, <2>2
<1>10. Cola(g, d, ch, qe)
  BY <1>2, <1>5, <1>6, <1>7, <1>9 DEF Cola
<1>11. g[0] = f[0]
  BY <1>1, <1>5
<1> QED BY <1>10, <1>11 DEF d

\* The first event is taken.
LEMMA ColaTomada ==
    ASSUME NEW f, NEW ev, EsSecuencia(ev), ev # << >>, NEW ch, EsSecuencia(ch), NEW pe, Cola(f, ev, ch, pe)
    PROVE  /\ \E g : Cola(g, Tail(ev), ch, pe) /\ g[0] = f[1]
           /\ f[0] \in Len(Base)..Len(ch) /\ f[1] \in Len(Base)..Len(ch)
           /\ Head(ev).tipo = "bloque" => f[1] = f[0] + 1 /\ Head(ev).bloque = ch[f[1]]
           /\ Head(ev).tipo # "bloque" => f[1] = f[0] /\ Head(ev).txn \notin Hasta(ch, f[1])
<1> DEFINE d == Tail(ev)
           n == Len(ev)
           g == [i \in 0..n - 1 |-> f[i + 1]]
<1>1. Len(ch) \in Nat /\ n \in Nat /\ n > 0 /\ Len(Base) \in Nat
  BY BaseEsSecuencia DEF EsSecuencia
<1>2. Len(d) = n - 1 /\ Head(ev) = ev[1] /\ \A i \in 1..n - 1 : d[i] = ev[i + 1]
  BY DEF EsSecuencia
<1>3. /\ f \in [0..n -> Len(Base)..Len(ch)]
      /\ \A i \in 1..n :
          /\ ev[i].tipo = "bloque" => f[i] = f[i - 1] + 1 /\ ev[i].bloque = ch[f[i]]
          /\ ev[i].tipo # "bloque" => f[i] = f[i - 1] /\ ev[i].txn \notin Hasta(ch, f[i])
      /\ \/ pe = {} /\ f[n] = Len(ch)
         \/ pe = {ch[Len(ch)]} /\ f[n] = Len(ch) - 1
  BY DEF Cola
<1>4. f[0] \in Len(Base)..Len(ch) /\ f[1] \in Len(Base)..Len(ch)
  BY <1>1, <1>3
<1>5. /\ Head(ev).tipo = "bloque" => f[1] = f[0] + 1 /\ Head(ev).bloque = ch[f[1]]
      /\ Head(ev).tipo # "bloque" => f[1] = f[0] /\ Head(ev).txn \notin Hasta(ch, f[1])
  <2>1. 1 \in 1..n /\ 1 - 1 = 0
    BY <1>1
  <2> QED BY <1>2, <1>3, <2>1
<1>6. \A i \in 0..n - 1 : g[i] = f[i + 1]
  OBVIOUS
<1>7. g \in [0..n - 1 -> Len(Base)..Len(ch)]
  <2>1. \A i \in 0..n - 1 : i + 1 \in 0..n
    BY <1>1
  <2> QED BY <1>3, <2>1
<1>8. g[n - 1] = f[n] /\ g[0] = f[1]
  BY <1>1, <1>6
<1> HIDE DEF d, g
<1>9. ASSUME NEW i \in 1..n - 1
      PROVE  /\ d[i].tipo = "bloque" => g[i] = g[i - 1] + 1 /\ d[i].bloque = ch[g[i]]
             /\ d[i].tipo # "bloque" => g[i] = g[i - 1] /\ d[i].txn \notin Hasta(ch, g[i])
  <2>1. i + 1 \in 1..n /\ (i + 1) - 1 = i /\ i \in 0..n - 1 /\ i - 1 \in 0..n - 1 /\ (i - 1) + 1 = i
    BY <1>1
  <2>2. g[i] = f[i + 1] /\ g[i - 1] = f[i] /\ d[i] = ev[i + 1]
    BY <1>2, <1>6, <2>1
  <2> QED BY <1>3, <2>1, <2>2
<1>10. Cola(g, d, ch, pe)
  BY <1>1, <1>2, <1>3, <1>7, <1>8, <1>9 DEF Cola
<1> QED BY <1>4, <1>5, <1>8, <1>10 DEF d
-----------------------------------------------------------------------------
(* The network, the start and the channel together. *)

RedInv ==
    /\ EsSecuencia(bloques) /\ Len(bloques) >= Len(Base)
    /\ \A t \in mempool : t \in Ajenas \/ t.en # {}
    /\ \A o \in Entradas(Todas(bloques)) : o \in Salidas(Todas(bloques)) \/ Antigua(o, Todas(bloques))
    /\ Causal(bloques, Len(Base))

ConUtxos == pc = "cargar" \/ Corriendo

InicioInv ==
    /\ pc \in Pasos /\ leidos \in 0..Len(bloques)
    /\ pc # "outputs" => inputs = {}
    /\ ~ConUtxos => utxos = {}
    /\ ~Corriendo => vistas = {}
    /\ pc = "caido" => eventos = << >> /\ porEnviar = {}

\* What the start has done, and the length k of the chain before the channel.
Progreso(k) ==
    /\ pc \in {"inputs", "outputs"} => k <= leidos
    /\ pc = "outputs" => Entradas(Hasta(bloques, k)) \subseteq inputs /\ inputs \subseteq Entradas(Todas(bloques))
    /\ ConUtxos => AlDia(utxos, bloques, k)
    /\ vistas \subseteq Hasta(bloques, k)

ColaInv == \E f : Cola(f, eventos, bloques, porEnviar) /\ Progreso(f[0])

CadenaInv == RedInv /\ InicioInv /\ ColaInv

\* The channel is a list.
LEMMA EventosSonSecuencia == FormaInv => EsSecuencia(eventos)
  BY DEF FormaInv, EsSecuencia

\* The invariant at the beginning.
LEMMA CadenaInvInit == Init => CadenaInv
<1> SUFFICES ASSUME Init PROVE CadenaInv
  OBVIOUS
<1>1. /\ bloques = Base /\ mempool = {} /\ porEnviar = {} /\ eventos = << >> /\ pc = "abrir"
      /\ leidos = 0 /\ inputs = {} /\ utxos = {} /\ vistas = {}
  BY DEF Init
<1>2. EsSecuencia(Base) /\ Len(Base) \in Nat /\ Todas(Base) = UNION Rango(Base)
  BY BaseEsSecuencia, HastaSigue
<1>3. RedInv
  <2>1. Causal(bloques, Len(Base))
    BY <1>1, <1>2 DEF Causal
  <2>2. \A o \in Entradas(Todas(Base)) : o \in Salidas(Todas(Base)) \/ Antigua(o, Todas(Base))
    BY <1>2, WalletAssumption
  <2>3. EsSecuencia(bloques) /\ Len(bloques) >= Len(Base) /\ \A t \in mempool : t \in Ajenas \/ t.en # {}
    BY <1>1, <1>2
  <2>4. \A o \in Entradas(Todas(bloques)) : o \in Salidas(Todas(bloques)) \/ Antigua(o, Todas(bloques))
    BY <1>1, <2>2
  <2> QED BY <2>1, <2>3, <2>4 DEF RedInv
<1>4. InicioInv
  BY <1>1, <1>2 DEF InicioInv, ConUtxos, Corriendo, Pasos
<1>5. ColaInv
  <2>1. PICK f : Cola(f, << >>, Base, {}) /\ f[0] = Len(Base)
    BY <1>2, ColaVacia
  <2>2. Progreso(f[0])
    BY <1>1 DEF Progreso, ConUtxos, Corriendo
  <2> QED BY <1>1, <2>1, <2>2 DEF ColaInv
<1> QED BY <1>3, <1>4, <1>5 DEF CadenaInv

\* A block brings nothing that is in the chain, and nothing that the chain spends.
LEMMA BloqueNuevo ==
    ASSUME RedInv, NEW b \in BloquesPosibles
    PROVE  /\ b \subseteq mempool \cup Ajenas /\ b \cap Todas(bloques) = {}
           /\ Salidas(b) \cap Entradas(Todas(bloques)) = {}
           /\ \A o \in Entradas(b) : o \in Salidas(Todas(bloques)) \/ o \in Salidas(b) \/ Antigua(o, Todas(bloques))
<1>1. Len(bloques) \in Nat /\ Todas(bloques) = UNION Rango(bloques)
  BY HastaSigue DEF RedInv, EsSecuencia
<1>2. b \subseteq (mempool \cup Ajenas) \ Todas(bloques)
  BY <1>1 DEF BloquesPosibles
<1>3. ASSUME NEW o \in Entradas(b)
      PROVE  o \in Salidas(Todas(bloques)) \/ o \in Salidas(b) \/ Antigua(o, Todas(bloques))
  <2>1. PICK t \in b : o \in t.en
    BY DEF Entradas
  <2>2. o \in Impagos(bloques) \/ o \in Salidas(b) \/ Antigua(o, Todas(bloques))
    <3>1. o \in Impagos(bloques) \/ o \in Salidas(b) \/ Antigua(o, UNION Rango(bloques))
      BY DEF BloquesPosibles
    <3> QED BY <1>1, <3>1
  <2>3. Impagos(bloques) \subseteq Salidas(Todas(bloques))
    BY <1>1 DEF Impagos, Rango
  <2> QED BY <2>2, <2>3
<1>4. ASSUME NEW o \in Salidas(b), o \in Entradas(Todas(bloques)) PROVE FALSE
  <2>1. o[1] \in b
    BY SalidaDe
  <2>2. o \notin Salidas(Todas(bloques))
    BY <1>2, <2>1, SalidaDe
  <2>3. Antigua(o, Todas(bloques))
    BY <1>4, <2>2 DEF RedInv
  <2> QED BY <1>2, <2>1, <2>3 DEF Antigua, RedInv
<1> QED BY <1>2, <1>3, <1>4

\* The chain of before, and a block more.
LEMMA RedTrasBloque ==
    ASSUME RedInv, NEW b \in BloquesPosibles, bloques' = Append(bloques, b), mempool' = mempool
    PROVE  RedInv'
<1>1. Len(bloques) \in Nat /\ Len(Base) \in Nat
  BY BaseEsSecuencia DEF RedInv, EsSecuencia
<1> DEFINE ch == bloques
           d == Append(bloques, b)
           n == Len(bloques)
<1>2. /\ EsSecuencia(d) /\ Len(d) = n + 1 /\ d[n + 1] = b
      /\ \A i \in 1..n : d[i] = ch[i]
      /\ \A k \in 0..n : Hasta(d, k) = Hasta(ch, k)
      /\ Todas(d) = Todas(ch) \cup b
  BY <1>1, CadenaCrece DEF RedInv
<1>3. /\ b \subseteq mempool \cup Ajenas /\ b \cap Todas(ch) = {}
      /\ Salidas(b) \cap Entradas(Todas(ch)) = {}
      /\ \A o \in Entradas(b) : o \in Salidas(Todas(ch)) \/ o \in Salidas(b) \/ Antigua(o, Todas(ch))
  BY BloqueNuevo
<1> HIDE DEF d
<1>4. \A o : Antigua(o, Todas(ch)) => Antigua(o, Todas(d))
  BY <1>2, <1>3 DEF Antigua, RedInv
<1>5. ASSUME NEW o \in Entradas(Todas(d)) PROVE o \in Salidas(Todas(d)) \/ Antigua(o, Todas(d))
  <2>0. /\ Entradas(Todas(ch) \cup b) = Entradas(Todas(ch)) \cup Entradas(b)
        /\ Salidas(Todas(ch) \cup b) = Salidas(Todas(ch)) \cup Salidas(b)
    BY EntradasUnion
  <2>1. o \in Entradas(Todas(ch)) \/ o \in Entradas(b)
    BY <1>2, <2>0
  <2>2. Salidas(Todas(d)) = Salidas(Todas(ch)) \cup Salidas(b)
    BY <1>2, <2>0
  <2>3. CASE o \in Entradas(Todas(ch))
    BY <1>4, <2>2, <2>3 DEF RedInv
  <2>4. CASE o \in Entradas(b)
    BY <1>3, <1>4, <2>2, <2>4
  <2> QED BY <2>1, <2>3, <2>4
<1>6. Causal(d, Len(Base))
  <2>1. ASSUME NEW j \in Len(Base) + 1..n + 1 PROVE Salidas(d[j]) \cap Entradas(Hasta(d, j - 1)) = {}
    <3>1. CASE j = n + 1
      <4>1. Hasta(d, j - 1) = Todas(ch)
        BY <1>1, <1>2, <3>1 DEF Todas
      <4> QED BY <1>2, <1>3, <3>1, <4>1
    <3>2. CASE j # n + 1
      <4>1. j \in 1..n /\ j - 1 \in 0..n /\ j \in Len(Base) + 1..n
        BY <1>1, <3>2
      <4>2. d[j] = ch[j] /\ Hasta(d, j - 1) = Hasta(ch, j - 1)
        BY <1>2, <4>1
      <4>3. Salidas(ch[j]) \cap Entradas(Hasta(ch, j - 1)) = {}
        BY <4>1 DEF RedInv, Causal
      <4> QED BY <4>2, <4>3
    <3> QED BY <3>1, <3>2
  <2> QED BY <1>2, <2>1 DEF Causal
<1>7. Len(d) >= Len(Base)
  BY <1>1, <1>2 DEF RedInv
<1> QED BY <1>2, <1>5, <1>6, <1>7 DEF RedInv, d

\* A block is written to the directory (validar_bloque).
LEMMA CadenaTrasLlegaBloque ==
    ASSUME FormaInv, CadenaInv, LlegaBloque
    PROVE  CadenaInv'
<1>1. PICK b \in BloquesPosibles :
          bloques' = Append(bloques, b) /\ porEnviar' = IF pc = "caido" THEN {} ELSE {b}
  BY DEF LlegaBloque
<1>2. /\ porEnviar = {}
      /\ UNCHANGED <<mempool, eventos, pc, leidos, inputs, utxos, vistas>>
  BY DEF LlegaBloque, inicio
<1>3. RedInv'
  BY <1>1, <1>2, RedTrasBloque DEF CadenaInv
<1>4. EsSecuencia(bloques) /\ Len(bloques) \in Nat /\ Len(bloques') = Len(bloques) + 1 /\ Len(Base) \in Nat
      /\ Len(bloques) >= Len(Base)
  BY <1>1, CadenaCrece, BaseEsSecuencia DEF CadenaInv, RedInv, EsSecuencia
<1>5. InicioInv'
  BY <1>1, <1>2, <1>4 DEF CadenaInv, InicioInv, ConUtxos, Corriendo
<1>6. CASE pc = "caido"
  <2>1. eventos' = << >> /\ porEnviar' = {} /\ EsSecuencia(bloques') /\ pc' = "caido"
    BY <1>1, <1>2, <1>3, <1>6 DEF CadenaInv, InicioInv, RedInv
  <2>2. PICK f : Cola(f, << >>, bloques', {}) /\ f[0] = Len(bloques')
    BY <1>4, <2>1, ColaVacia
  <2>3. Progreso(f[0])'
    BY <1>5, <2>1 DEF Progreso, InicioInv, ConUtxos, Corriendo
  <2> QED BY <1>3, <1>5, <2>1, <2>2, <2>3 DEF CadenaInv, ColaInv
<1>7. CASE pc # "caido"
  <2>1. PICK f : Cola(f, eventos, bloques, {}) /\ Progreso(f[0])
    BY <1>2 DEF CadenaInv, ColaInv
  <2>2. Cola(f, eventos', bloques', porEnviar')
    BY <1>1, <1>2, <1>4, <1>7, <2>1, ColaConBloque, EventosSonSecuencia
  <2>3. f[0] \in 0..Len(bloques)
    <3>1. Len(eventos) \in Nat
      BY EventosSonSecuencia DEF EsSecuencia
    <3> QED BY <1>4, <2>1, <3>1 DEF Cola
  <2>4. /\ Hasta(bloques', f[0]) = Hasta(bloques, f[0])
        /\ Todas(bloques') = Todas(bloques) \cup b
        /\ AlDia(utxos, bloques, f[0]) => AlDia(utxos, bloques', f[0])
    <3> DEFINE k == f[0]
    <3> HIDE DEF k
    <3>1. k \in 0..Len(bloques)
      BY <2>3 DEF k
    <3>2. /\ Hasta(Append(bloques, b), k) = Hasta(bloques, k)
          /\ Todas(Append(bloques, b)) = Todas(bloques) \cup b
      BY <1>4, <3>1, CadenaCrece
    <3>3. AlDia(utxos, bloques, k) => AlDia(utxos, Append(bloques, b), k)
      BY <1>4, <3>1, AlDiaCrece
    <3> QED BY <1>1, <3>2, <3>3 DEF k
  <2>5. Entradas(Todas(bloques)) \subseteq Entradas(Todas(bloques'))
    BY <2>4, EntradasUnion
  <2>6. Progreso(f[0])'
    BY <1>2, <2>1, <2>4, <2>5 DEF Progreso, ConUtxos, Corriendo
  <2> QED BY <1>3, <1>5, <2>2, <2>6 DEF CadenaInv, ColaInv
<1> QED BY <1>6, <1>7

\* The steps that touch neither the chain nor the channel nor the start.
LEMMA CadenaQuieta ==
    ASSUME FormaInv, CadenaInv,
           UNCHANGED <<bloques, porEnviar, eventos, leidos, inputs, utxos, vistas>>,
           \A t \in mempool' : t \in Ajenas \/ t.en # {},
           pc' = pc \/ {pc, pc'} \cap {"inputs", "outputs"} = {},
           pc' \in Pasos, ConUtxos' = ConUtxos, Corriendo' = Corriendo, pc' = "caido" => pc = "caido"
    PROVE  CadenaInv'
<1>1. RedInv'
  BY DEF CadenaInv, RedInv
<1>2. InicioInv'
  BY DEF CadenaInv, InicioInv
<1>3. PICK f : Cola(f, eventos, bloques, porEnviar) /\ Progreso(f[0])
  BY DEF CadenaInv, ColaInv
<1>4. Progreso(f[0])'
  BY <1>3 DEF Progreso
<1> QED BY <1>1, <1>2, <1>3, <1>4 DEF CadenaInv, ColaInv

\* Where the channel is in the chain.
LEMMA DondeEstaLaCola ==
    ASSUME FormaInv, CadenaInv, NEW f, Cola(f, eventos, bloques, porEnviar)
    PROVE  /\ f[0] \in Len(Base)..Len(bloques) /\ f[0] \in 0..Len(bloques)
           /\ Len(bloques) \in Nat /\ Len(Base) \in Nat /\ EsSecuencia(bloques) /\ EsSecuencia(eventos)
<1>1. Len(eventos) \in Nat /\ Len(bloques) \in Nat /\ Len(Base) \in Nat
  BY EventosSonSecuencia, BaseEsSecuencia DEF EsSecuencia, CadenaInv, RedInv
<1> QED BY <1>1, EventosSonSecuencia DEF Cola, CadenaInv, RedInv

\* The event of a block or of a transaction is sent.
LEMMA CadenaTrasEvento ==
    ASSUME FormaInv, CadenaInv, EnviarBloque \/ LlegaTxn
    PROVE  CadenaInv'
<1>1. PICK f : Cola(f, eventos, bloques, porEnviar) /\ Progreso(f[0])
  BY DEF CadenaInv, ColaInv
<1>2. UNCHANGED <<bloques, leidos, inputs, utxos, pc, vistas>>
  BY DEF EnviarBloque, LlegaTxn, inicio
<1>3. EsSecuencia(bloques) /\ EsSecuencia(eventos) /\ Todas(bloques) = UNION Rango(bloques)
  <2>1. Len(bloques) \in Nat
    BY <1>1, DondeEstaLaCola
  <2> QED BY <1>1, <2>1, DondeEstaLaCola, HastaSigue
<1>4. \A t \in mempool' : t \in Ajenas \/ t.en # {}
  BY DEF EnviarBloque, LlegaTxn, CadenaInv, RedInv
<1>5. RedInv'
  BY <1>2, <1>4 DEF CadenaInv, RedInv
<1>6. (\E g : Cola(g, eventos', bloques, porEnviar') /\ g[0] = f[0]) /\ pc # "caido"
  <2>1. CASE EnviarBloque
    <3>1. PICK b \in porEnviar : eventos' = Append(eventos, [tipo |-> "bloque", bloque |-> b])
      BY <2>1 DEF EnviarBloque
    <3>2. porEnviar' = {} /\ pc # "caido"
      BY <2>1, <3>1 DEF EnviarBloque, CadenaInv, InicioInv
    <3> DEFINE e == [tipo |-> "bloque", bloque |-> b]
    <3>3. e.tipo = "bloque" /\ e.bloque \in porEnviar
      OBVIOUS
    <3> HIDE DEF e
    <3>4. \E g : Cola(g, Append(eventos, e), bloques, {}) /\ g[0] = f[0]
      BY <1>1, <1>3, <3>3, ColaConEvento
    <3> QED BY <3>1, <3>2, <3>4 DEF e
  <2>2. CASE LlegaTxn
    <3>1. PICK t \in Ajenas : t \notin UNION Rango(bloques) /\ eventos' = Append(eventos, [tipo |-> "txn", txn |-> t])
      BY <2>2 DEF LlegaTxn
    <3>2. porEnviar' = porEnviar /\ pc # "caido"
      BY <2>2 DEF LlegaTxn
    <3> DEFINE e == [tipo |-> "txn", txn |-> t]
    <3>3. e.tipo # "bloque" /\ e.txn \notin Todas(bloques)
      BY <1>3, <3>1
    <3> HIDE DEF e
    <3>4. \E g : Cola(g, Append(eventos, e), bloques, porEnviar) /\ g[0] = f[0]
      BY <1>1, <1>3, <3>3, ColaConEvento
    <3> QED BY <3>1, <3>2, <3>4 DEF e
  <2> QED BY <2>1, <2>2
<1>7. InicioInv'
  BY <1>2, <1>6 DEF CadenaInv, InicioInv, ConUtxos, Corriendo
<1>8. Progreso(f[0])'
  BY <1>1, <1>2 DEF Progreso, ConUtxos, Corriendo
<1> QED BY <1>2, <1>5, <1>6, <1>7, <1>8 DEF CadenaInv, ColaInv

\* What a reading of the directory gives.
LEMMA LoLeido ==
    ASSUME EsSecuencia(bloques), leidos \in 0..Len(bloques), NEW l \in Lecturas
    PROVE  Hasta(bloques, leidos) \subseteq UNION l /\ UNION l \subseteq Todas(bloques)
<1>1. Len(bloques) \in Nat
  BY DEF EsSecuencia
<1>2. PICK extra \in SUBSET (leidos + 1..Len(bloques)) : l = Enteras(leidos) \cup {bloques[i] : i \in extra}
  BY DEF Lecturas
<1>3. \A i \in extra : i \in 1..Len(bloques)
  BY <1>1, <1>2
<1>4. \A i \in 1..leidos : i \in 1..Len(bloques)
  BY <1>1
<1> QED BY <1>2, <1>3, <1>4 DEF Enteras, Hasta, Todas

\* The start: each reading gives at least the blocks of when the directory was opened (obtain_utxo).
LEMMA CadenaTrasInicio ==
    ASSUME FormaInv, CadenaInv, AbrirDirectorio \/ LeerInputs \/ LeerOutputs \/ Cargar
    PROVE  CadenaInv'
<1>1. PICK f : Cola(f, eventos, bloques, porEnviar) /\ Progreso(f[0])
  BY DEF CadenaInv, ColaInv
<1>2. UNCHANGED <<bloques, mempool, porEnviar, eventos>> /\ vistas = {} /\ vistas' = {}
  BY DEF AbrirDirectorio, LeerInputs, LeerOutputs, Cargar, red, CadenaInv, InicioInv, Corriendo
<1>3. RedInv'
  BY <1>2 DEF CadenaInv, RedInv
<1> DEFINE k == f[0]
<1>4. /\ k \in 0..Len(bloques) /\ EsSecuencia(bloques) /\ Len(bloques) \in Nat
      /\ leidos \in 0..Len(bloques)
  BY <1>1, DondeEstaLaCola DEF CadenaInv, InicioInv
<1> HIDE DEF k
<1>5. InicioInv' /\ Progreso(k)'
  <2>1. CASE AbrirDirectorio
    BY <1>2, <1>4, <2>1 DEF AbrirDirectorio, CadenaInv, InicioInv, Progreso, ConUtxos, Corriendo, Pasos
  <2>2. CASE LeerInputs
    <3>1. PICK l \in Lecturas : inputs' = ObtenerInputs(l)
      BY <2>2 DEF LeerInputs
    <3>2. pc = "inputs" /\ pc' = "outputs" /\ leidos' = leidos /\ utxos' = utxos
      BY <2>2 DEF LeerInputs
    <3>3. Hasta(bloques, k) \subseteq UNION l /\ UNION l \subseteq Todas(bloques)
      <4>1. k <= leidos
        BY <1>1, <3>2 DEF Progreso, k
      <4>2. Hasta(bloques, k) \subseteq Hasta(bloques, leidos)
        <5>1. leidos \in k..Len(bloques)
          BY <1>4, <4>1
        <5> QED BY <1>4, <5>1, HastaSigue
      <4> QED BY <1>4, <4>2, LoLeido
    <3>4. Entradas(Hasta(bloques, k)) \subseteq inputs' /\ inputs' \subseteq Entradas(Todas(bloques))
      BY <3>1, <3>3, EntradasUnion DEF ObtenerInputs
    <3>5. Progreso(k)'
      BY <1>1, <1>2, <3>2, <3>4 DEF Progreso, ConUtxos, Corriendo, k
    <3> QED BY <1>2, <3>2, <3>5 DEF CadenaInv, InicioInv, ConUtxos, Corriendo, Pasos
  <2>3. CASE LeerOutputs
    <3>1. PICK l \in Lecturas : utxos' = ObtenerUtxos(inputs, l)
      BY <2>3 DEF LeerOutputs
    <3>2. pc = "outputs" /\ pc' = "cargar" /\ leidos' = 0 /\ inputs' = {}
      BY <2>3 DEF LeerOutputs
    <3>3. Hasta(bloques, k) \subseteq UNION l /\ UNION l \subseteq Todas(bloques)
      <4>1. k <= leidos
        BY <1>1, <3>2 DEF Progreso, k
      <4>2. Hasta(bloques, k) \subseteq Hasta(bloques, leidos)
        <5>1. leidos \in k..Len(bloques)
          BY <1>4, <4>1
        <5> QED BY <1>4, <5>1, HastaSigue
      <4> QED BY <1>4, <4>2, LoLeido
    <3>4. Salidas(Hasta(bloques, k)) \subseteq Salidas(UNION l) /\ Salidas(UNION l) \subseteq Salidas(Todas(bloques))
      BY <3>3, EntradasUnion
    <3>5. Entradas(Hasta(bloques, k)) \subseteq inputs /\ inputs \subseteq Entradas(Todas(bloques))
      BY <1>1, <3>2 DEF Progreso, k
    <3>6. AlDia(utxos', bloques, k)
      BY <3>1, <3>4, <3>5 DEF AlDia, ObtenerUtxos
    <3>7. Progreso(k)'
      BY <1>2, <3>2, <3>6 DEF Progreso
    <3> QED BY <1>2, <1>4, <3>2, <3>7 DEF CadenaInv, InicioInv, ConUtxos, Corriendo, Pasos
  <2>4. CASE Cargar
    <3>1. pc = "cargar" /\ pc' = "espera" /\ UNCHANGED <<leidos, inputs, utxos>>
      BY <2>4 DEF Cargar, inicio
    <3>2. Progreso(k)'
      BY <1>1, <1>2, <3>1 DEF Progreso, ConUtxos, Corriendo, k
    <3> QED BY <1>2, <3>1, <3>2 DEF CadenaInv, InicioInv, ConUtxos, Corriendo, Pasos
  <2> QED BY <2>1, <2>2, <2>3, <2>4
<1> QED BY <1>1, <1>2, <1>3, <1>5 DEF CadenaInv, ColaInv, k

\* An event is taken from the channel.
LEMMA CadenaTrasTomar ==
    ASSUME FormaInv, CadenaInv, RecibirTxn \/ RecibirBloque
    PROVE  CadenaInv'
<1>1. PICK f : Cola(f, eventos, bloques, porEnviar) /\ Progreso(f[0])
  BY DEF CadenaInv, ColaInv
<1>2. UNCHANGED <<bloques, mempool, porEnviar, leidos, inputs>> /\ eventos # << >> /\ eventos' = Tail(eventos)
      /\ pc = "espera"
  BY DEF RecibirTxn, RecibirBloque, red, inicio
<1>3. RedInv'
  BY <1>2 DEF CadenaInv, RedInv
<1>4. /\ f[0] \in Len(Base)..Len(bloques) /\ Len(bloques) \in Nat /\ Len(Base) \in Nat
      /\ EsSecuencia(bloques) /\ EsSecuencia(eventos)
  BY <1>1, DondeEstaLaCola
<1>5. /\ f[1] \in Len(Base)..Len(bloques)
      /\ Head(eventos).tipo = "bloque" => f[1] = f[0] + 1 /\ Head(eventos).bloque = bloques[f[1]]
      /\ Head(eventos).tipo # "bloque" => f[1] = f[0]
  BY <1>1, <1>2, <1>4, ColaTomada
<1>6. PICK g : Cola(g, Tail(eventos), bloques, porEnviar) /\ g[0] = f[1]
  BY <1>1, <1>2, <1>4, ColaTomada
<1>7. AlDia(utxos, bloques, f[0])
  BY <1>1, <1>2 DEF Progreso, ConUtxos, Corriendo
<1>8. AlDia(utxos', bloques, f[1]) /\ pc' \in {"espera", "escribir"}
  <2>1. CASE RecibirTxn
    <3>1. utxos' = utxos /\ f[1] = f[0] /\ pc' \in {"espera", "escribir"}
      BY <1>2, <1>5, <2>1 DEF RecibirTxn, CambiarYGuardar
    <3> QED BY <1>7, <3>1
  <2>2. CASE RecibirBloque
    <3>1. /\ utxos' = Actualizar(utxos, Head(eventos).bloque) /\ pc' \in {"espera", "escribir"}
          /\ Head(eventos).tipo = "bloque"
      BY <1>2, <2>2 DEF RecibirBloque, CambiarYGuardar
    <3> DEFINE k == f[0]
    <3> HIDE DEF k
    <3>2. k \in Len(Base)..Len(bloques) - 1
      BY <1>4, <1>5, <3>1 DEF k
    <3>3. AlDia(Actualizar(utxos, bloques[k + 1]), bloques, k + 1)
      BY <1>4, <1>7, <3>2, AlDiaAvanza DEF CadenaInv, RedInv, k
    <3> QED BY <1>5, <3>1, <3>3 DEF k
  <2> QED BY <2>1, <2>2
<1>v. vistas' \subseteq Hasta(bloques, f[1])
  <2> DEFINE k == f[0]
             c == f[1]
  <2>1. vistas \subseteq Hasta(bloques, k)
    BY <1>1 DEF Progreso
  <2>2. CASE RecibirTxn
    <3>1. vistas' = vistas /\ c = k
      BY <1>2, <1>5, <2>2 DEF RecibirTxn
    <3> QED BY <2>1, <3>1
  <2>3. CASE RecibirBloque
    <3>1. vistas' = vistas \cup bloques[c] /\ c = k + 1
      BY <1>5, <2>3 DEF RecibirBloque
    <3>2. k \in 0..Len(bloques) /\ k + 1 <= Len(bloques)
      BY <1>4, <1>5, <3>1
    <3> HIDE DEF k, c
    <3>3. Hasta(bloques, k + 1) = Hasta(bloques, k) \cup bloques[k + 1]
      BY <1>4, <3>2, HastaSigue
    <3> QED BY <2>1, <3>1, <3>3 DEF c
  <2> QED BY <2>2, <2>3
<1>9. Progreso(g[0])'
  BY <1>2, <1>6, <1>8, <1>v DEF Progreso
<1>10. InicioInv'
  BY <1>2, <1>8 DEF CadenaInv, InicioInv, ConUtxos, Corriendo, Pasos
<1> QED BY <1>2, <1>3, <1>6, <1>9, <1>10 DEF CadenaInv, ColaInv

\* The process ends: the channel is empty, and the next start reads the whole chain.
LEMMA CadenaTrasTerminar ==
    ASSUME FormaInv, CadenaInv, Terminar, UNCHANGED <<bloques, mempool>>
    PROVE  CadenaInv'
<1>1. /\ pc' = "caido" /\ porEnviar' = {} /\ eventos' = << >>
      /\ leidos' = 0 /\ inputs' = {} /\ utxos' = {} /\ vistas' = {}
  BY DEF Terminar
<1>2. RedInv'
  BY DEF CadenaInv, RedInv
<1>3. Len(bloques) \in Nat
  BY DEF CadenaInv, RedInv, EsSecuencia
<1>4. InicioInv'
  BY <1>1, <1>3 DEF InicioInv, ConUtxos, Corriendo, Pasos
<1>5. PICK f : Cola(f, << >>, bloques, {}) /\ f[0] = Len(bloques)
  BY ColaVacia DEF CadenaInv, RedInv
<1>6. Progreso(f[0])'
  BY <1>1 DEF Progreso, ConUtxos, Corriendo
<1> QED BY <1>1, <1>2, <1>4, <1>5, <1>6 DEF CadenaInv, ColaInv

\* A transfer spends something.
LEMMA TransferenciaGasta ==
    ASSUME Transmitir
    PROVE  \E c \in DOMAIN cuentas, d \in Destinos, i \in Importes, k \in Costos, hora \in Int :
              \E gastados \in Selecciones(cuentas[c].utxos, i + k) :
              /\ gastados \in (SUBSET cuentas[c].utxos) \ {{}}
              /\ LET t == Transaccion(c, gastados, d, i, k, hora)
                 IN  /\ nueva' = {[de |-> c, a |-> d, importe |-> i, costo |-> k, txn |-> t]}
                     /\ mempool' = mempool \cup {t} /\ t.en = gastados
<1>1. PICK c \in DOMAIN cuentas, d \in Destinos, i \in Importes, k \in Costos, hora \in 0..hechas :
          \E gastados \in Selecciones(cuentas[c].utxos, i + k) :
              nueva' = {[de |-> c, a |-> d, importe |-> i, costo |-> k,
                         txn |-> Transaccion(c, gastados, d, i, k, hora)]}
  BY DEF Transmitir
<1>h. hora \in Int
  OBVIOUS
<1>2. PICK gastados \in Selecciones(cuentas[c].utxos, i + k) :
              nueva' = {[de |-> c, a |-> d, importe |-> i, costo |-> k,
                         txn |-> Transaccion(c, gastados, d, i, k, hora)]}
  BY <1>1
<1> DEFINE t == Transaccion(c, gastados, d, i, k, hora)
           us == cuentas[c].utxos
<1>3. gastados \in (SUBSET us) \ {{}}
  BY <1>2 DEF Selecciones
<1>4. t.en = gastados
  BY DEF Transaccion
<1> HIDE DEF t, us
<1>5. mempool' = mempool \cup {t}
  <2>1. mempool' = mempool \cup {n.txn : n \in nueva'}
    BY DEF Transmitir
  <2>2. nueva' = {[de |-> c, a |-> d, importe |-> i, costo |-> k, txn |-> t]}
    BY <1>2 DEF t
  <2> QED BY <2>1, <2>2
<1> QED BY <1>h, <1>2, <1>3, <1>4, <1>5 DEF t, us

\* Every step keeps the invariant.
LEMMA CadenaInvNext == FormaInv /\ CadenaInv /\ [Next]_vars => CadenaInv'
<1> SUFFICES ASSUME FormaInv, CadenaInv, [Next]_vars PROVE CadenaInv'
  OBVIOUS
<1>m. \A t \in mempool : t \in Ajenas \/ t.en # {}
  BY DEF CadenaInv, RedInv
<1>p. pc \in Pasos
  BY DEF CadenaInv, InicioInv
<1>1. CASE LlegaBloque
  BY <1>1, CadenaTrasLlegaBloque
<1>2. CASE EnviarBloque \/ LlegaTxn
  BY <1>2, CadenaTrasEvento
<1>3. CASE AbrirDirectorio \/ LeerInputs \/ LeerOutputs \/ Cargar
  BY <1>3, CadenaTrasInicio
<1>4. CASE RecibirTxn \/ RecibirBloque
  BY <1>4, CadenaTrasTomar
<1>5. CASE Caer \/ CargarRoto
  BY <1>5, CadenaTrasTerminar DEF Caer, CargarRoto
<1>6. CASE UNCHANGED vars
  BY <1>6, <1>m, <1>p, CadenaQuieta DEF vars, red, inicio, ConUtxos, Corriendo
<1>7. CASE Reiniciar
  BY <1>7, <1>m, CadenaQuieta DEF Reiniciar, red, inicio, ConUtxos, Corriendo, Pasos
<1>8. CASE AgregarWallet \/ CargarWallet \/ AnotarTransferencia
  <2>1. /\ UNCHANGED <<bloques, mempool, porEnviar, eventos, leidos, inputs, utxos, vistas>>
        /\ pc \in {"espera", "transmitida"} /\ pc' \in {"espera", "escribir"}
    BY <1>8 DEF AgregarWallet, CargarWallet, AnotarTransferencia, CambiarYGuardar, red, inicio
  <2> QED BY <1>m, <2>1, CadenaQuieta DEF ConUtxos, Corriendo, Pasos
<1>9. CASE Escribir \/ FallaApertura \/ FallaEscritura
  <2>1. /\ UNCHANGED <<bloques, mempool, porEnviar, eventos, leidos, inputs, utxos, vistas>>
        /\ pc = "escribir" /\ pc' = "espera"
    BY <1>9 DEF Escribir, FallaApertura, FallaEscritura, red, inicio
  <2> QED BY <1>m, <2>1, CadenaQuieta DEF ConUtxos, Corriendo, Pasos
<1>10. CASE Transmitir
  <2>1. /\ UNCHANGED <<bloques, porEnviar, eventos, leidos, inputs, utxos, vistas>>
        /\ pc = "espera" /\ pc' = "transmitida"
    BY <1>10 DEF Transmitir, inicio
  <2>2. \A t \in mempool' : t \in Ajenas \/ t.en # {}
    BY <1>10, <1>m, TransferenciaGasta
  <2> QED BY <2>1, <2>2, CadenaQuieta DEF ConUtxos, Corriendo, Pasos
<1> QED BY <1>1, <1>2, <1>3, <1>4, <1>5, <1>6, <1>7, <1>8, <1>9, <1>10 DEF Next

\* The invariant of the chain, the start and the channel.
LEMMA CadenaSiempre == Spec => []CadenaInv
  BY FormaSiempre, CadenaInvInit, CadenaInvNext, PTL DEF Spec

\* Applied to the set, the events of the channel bring it up to date with the chain.
LEMMA ColaAplicada ==
    ASSUME NEW f, NEW ev, EsSecuencia(ev), NEW ch, EsSecuencia(ch), NEW pe, Cola(f, ev, ch, pe),
           Causal(ch, Len(Base)), NEW u, AlDia(u, ch, f[0]), NEW us, Avances(us, u, ev, Len(ev))
    PROVE  AlDia(us[Len(ev)], ch, f[Len(ev)])
<1>1. Len(ev) \in Nat /\ Len(ch) \in Nat /\ Len(Base) \in Nat
  BY BaseEsSecuencia DEF EsSecuencia
<1> DEFINE T == {i \in Nat : i <= Len(ev) => AlDia(us[i], ch, f[i])}
<1>2. 0 \in T
  BY <1>1 DEF Avances
<1>3. ASSUME NEW i \in T PROVE i + 1 \in T
  <2> SUFFICES ASSUME i + 1 <= Len(ev) PROVE AlDia(us[i + 1], ch, f[i + 1])
    OBVIOUS
  <2>1. /\ i \in 0..Len(ev) /\ i + 1 \in 1..Len(ev) /\ (i + 1) - 1 = i /\ i + 1 # 0 /\ i + 1 \in 0..Len(ev)
    BY <1>1
  <2>2. AlDia(us[i], ch, f[i])
    BY <2>1
  <2>3. us[i + 1] = Avance(us[i], ev[i + 1])
    BY <2>1 DEF Avances
  <2>4. /\ f[i] \in Len(Base)..Len(ch) /\ f[i + 1] \in Len(Base)..Len(ch)
        /\ ev[i + 1].tipo = "bloque" => f[i + 1] = f[i] + 1 /\ ev[i + 1].bloque = ch[f[i + 1]]
        /\ ev[i + 1].tipo # "bloque" => f[i + 1] = f[i]
    BY <2>1 DEF Cola
  <2>5. CASE ev[i + 1].tipo = "bloque"
    <3> DEFINE k == f[i]
               v == us[i]
    <3> HIDE DEF k, v
    <3>1. k \in Len(Base)..Len(ch) - 1
      BY <1>1, <2>4, <2>5 DEF k
    <3>2. AlDia(Actualizar(v, ch[k + 1]), ch, k + 1)
      BY <1>1, <2>2, <3>1, AlDiaAvanza DEF k, v
    <3> QED BY <2>3, <2>4, <2>5, <3>2 DEF Avance, k, v
  <2>6. CASE ev[i + 1].tipo # "bloque"
    BY <2>2, <2>3, <2>4, <2>6 DEF Avance
  <2> QED BY <2>5, <2>6
<1> HIDE DEF T
<1>4. T = Nat
  <2>1. T \in SUBSET Nat
    BY DEF T
  <2> QED BY <1>2, <1>3, <2>1, Induccion
<1> QED BY <1>1, <1>4 DEF T

\* The invariant gives the property: the queued blocks are what the set lacks.
LEMMA CadenaConvergen == FormaInv /\ CadenaInv => UtxosConvergen
<1> SUFFICES ASSUME FormaInv, CadenaInv, ConUtxos PROVE UtxosConvergen
  BY DEF UtxosConvergen, ConUtxos
<1>1. PICK f : Cola(f, eventos, bloques, porEnviar) /\ Progreso(f[0])
  BY DEF CadenaInv, ColaInv
<1>2. /\ Len(bloques) \in Nat /\ Len(Base) \in Nat /\ EsSecuencia(bloques) /\ EsSecuencia(eventos)
      /\ Len(eventos) \in Nat
  BY <1>1, DondeEstaLaCola DEF EsSecuencia
<1> DEFINE us == CHOOSE us : us = [i \in 0..Len(eventos) |->
                IF i = 0 THEN utxos
                ELSE IF eventos[i].tipo = "bloque" THEN Actualizar(us[i - 1], eventos[i].bloque)
                ELSE us[i - 1]]
           final == us[Len(eventos)]
<1>3. Avances(us, utxos, eventos, Len(eventos))
  <2>1. \E w : Avances(w, utxos, eventos, Len(eventos))
    BY <1>2, AvancesExisten
  <2> QED BY <2>1 DEF Avances, Avance
<1> HIDE DEF us
<1>4. AlDia(final, bloques, f[Len(eventos)])
  BY <1>1, <1>2, <1>3, ColaAplicada DEF CadenaInv, RedInv, Progreso
<1>5. CASE porEnviar = {}
  <2>1. f[Len(eventos)] = Len(bloques)
    BY <1>1, <1>5 DEF Cola
  <2>2. final = Impagos(bloques)
    BY <1>2, <1>4, <2>1, AlDiaDelTodo
  <2> QED BY <1>5, <2>2 DEF UtxosConvergen, us
<1>6. CASE porEnviar # {}
  <2> DEFINE n == Len(bloques)
             k == f[Len(eventos)]
  <2>1. porEnviar = {bloques[n]} /\ k = n - 1 /\ k \in Len(Base)..n
    BY <1>1, <1>2, <1>6 DEF Cola
  <2> HIDE DEF k
  <2>2. k \in Len(Base)..Len(bloques) - 1 /\ k + 1 = n
    BY <1>2, <2>1
  <2>3. AlDia(Actualizar(final, bloques[k + 1]), bloques, k + 1)
    <3> HIDE DEF final
    <3> QED BY <1>2, <1>4, <2>2, AlDiaAvanza DEF CadenaInv, RedInv, k
  <2>4. Actualizar(final, bloques[n]) = Impagos(bloques)
    <3> HIDE DEF final
    <3> QED BY <1>2, <2>2, <2>3, AlDiaDelTodo
  <2>5. (CHOOSE b \in porEnviar : TRUE) = bloques[n]
    BY <2>1
  <2> QED BY <1>6, <2>4, <2>5 DEF UtxosConvergen, us
<1> QED BY <1>5, <1>6

\* However the two readings of the directory, the blocks that arrive meanwhile and the
\* events of the queue interleave, and whatever the process did before it died: once the
\* queued blocks are applied, the set of unspent outputs is that of the chain
\* (obtain_utxo, update_utxo).
THEOREM UtxosCorrectos == Spec => []UtxosConvergen
  BY FormaSiempre, CadenaSiempre, CadenaConvergen, PTL
-----------------------------------------------------------------------------
(* The sums: what MapThenSumSet gives of a finite set.                     *)

Uno(s) == CHOOSE x \in s : TRUE

\* h is the sum of g over each part of S.
EsSuma(h, S, g) == h = [s \in SUBSET S |-> IF s = {} THEN 0 ELSE g[Uno(s)] + h[s \ {Uno(s)}]]

\* The sums of parts of at most n elements, for each n.
Sumas(F, S, g, n) ==
    /\ F \in [0..n -> [SUBSET S -> Nat]]
    /\ \A i \in 0..n : \A s \in SUBSET S :
          F[i][s] = IF i = 0 \/ s = {} THEN 0 ELSE g[Uno(s)] + F[i - 1][s \ {Uno(s)}]

\* There are such sums for any n.
LEMMA SumasExisten ==
    ASSUME NEW S, NEW g \in [S -> Nat], NEW n \in Nat
    PROVE  \E F : Sumas(F, S, g, n)
<1> DEFINE T == {m \in Nat : \E F : Sumas(F, S, g, m)}
<1>1. 0 \in T
  <2>1. Sumas([i \in 0..0 |-> [s \in SUBSET S |-> 0]], S, g, 0)
    BY DEF Sumas
  <2> QED BY <2>1
<1>2. ASSUME NEW m \in T PROVE m + 1 \in T
  <2>1. PICK F : Sumas(F, S, g, m)
    OBVIOUS
  <2> DEFINE u == [s \in SUBSET S |-> IF s = {} THEN 0 ELSE g[Uno(s)] + F[m][s \ {Uno(s)}]]
             G == [i \in 0..m + 1 |-> IF i = m + 1 THEN u ELSE F[i]]
  <2>m. m \in Nat
    OBVIOUS
  <2> HIDE DEF T
  <2>f. \A i \in 0..m : F[i] \in [SUBSET S -> Nat]
    <3> DEFINE W == [SUBSET S -> Nat]
    <3>1. F \in [0..m -> W]
      BY <2>1 DEF Sumas
    <3> HIDE DEF W
    <3>2. \A i \in 0..m : F[i] \in W
      BY <3>1
    <3> QED BY <3>2 DEF W
  <2>2. F[m] \in [SUBSET S -> Nat]
    <3> DEFINE W == [SUBSET S -> Nat]
    <3>1. \A i \in 0..m : F[i] \in W
      BY <2>f
    <3>2. m \in 0..m
      BY <2>m
    <3> HIDE DEF W
    <3>3. F[m] \in W
      BY <3>1, <3>2
    <3> QED BY <3>3 DEF W
  <2>3. u \in [SUBSET S -> Nat]
    <3>1. ASSUME NEW s \in SUBSET S, s # {} PROVE g[Uno(s)] + F[m][s \ {Uno(s)}] \in Nat
      <4>1. Uno(s) \in S
        BY <3>1 DEF Uno
      <4>2. g[Uno(s)] \in Nat /\ F[m][s \ {Uno(s)}] \in Nat
        BY <2>2, <4>1
      <4> QED BY <4>2
    <3> QED BY <3>1
  <2>4. G \in [0..m + 1 -> [SUBSET S -> Nat]]
    <3> HIDE DEF u
    <3>1. \A i \in 0..m + 1 : i # m + 1 => i \in 0..m
      BY <2>m
    <3> DEFINE W == [SUBSET S -> Nat]
    <3>2. u \in W /\ \A i \in 0..m : F[i] \in W
      BY <2>3, <2>f
    <3> HIDE DEF W
    <3>3. G \in [0..m + 1 -> W]
      BY <3>1, <3>2
    <3> QED BY <3>3 DEF W
  <2>5. ASSUME NEW i \in 0..m + 1, NEW s \in SUBSET S
        PROVE  G[i][s] = IF i = 0 \/ s = {} THEN 0 ELSE g[Uno(s)] + G[i - 1][s \ {Uno(s)}]
    <3> USE <2>m
    <3>1. CASE i = m + 1
      <4> HIDE DEF u
      <4>0. i # 0 /\ i - 1 = m /\ m \in 0..m + 1 /\ m # m + 1
        BY <3>1
      <4>1. G[i] = u /\ G[i - 1] = F[m]
        BY <3>1, <4>0
      <4>2. u[s] = IF s = {} THEN 0 ELSE g[Uno(s)] + F[m][s \ {Uno(s)}]
        BY DEF u
      <4> HIDE DEF G
      <4> QED BY <4>0, <4>1, <4>2
    <3>2. CASE i # m + 1
      <4> HIDE DEF u
      <4>0. i \in 0..m /\ (i # 0 => i - 1 \in 0..m + 1 /\ i - 1 # m + 1)
        BY <3>2
      <4>1. G[i] = F[i] /\ (i # 0 => G[i - 1] = F[i - 1])
        BY <3>2, <4>0
      <4> HIDE DEF G
      <4> QED BY <2>1, <4>0, <4>1 DEF Sumas
    <3> QED BY <3>1, <3>2
  <2> HIDE DEF G
  <2>6. Sumas(G, S, g, m + 1)
    BY <2>4, <2>5 DEF Sumas
  <2> QED BY <2>6, <2>m DEF T
<1> HIDE DEF T
<1>3. T = Nat
  <2>1. T \in SUBSET Nat
    BY DEF T
  <2> QED BY <1>1, <1>2, <2>1, Induccion
<1> QED BY <1>3 DEF T

\* A finite set, without the one that is taken first.
LEMMA UnoMenos ==
    ASSUME NEW S, IsFiniteSet(S), NEW s \in SUBSET S
    PROVE  /\ IsFiniteSet(s) /\ Cardinality(s) \in Nat /\ Cardinality(s) <= Cardinality(S)
           /\ s # {} => /\ Uno(s) \in s /\ s \ {Uno(s)} \in SUBSET S
                        /\ Cardinality(s) > 0 /\ Cardinality(s \ {Uno(s)}) = Cardinality(s) - 1
<1>1. IsFiniteSet(s) /\ Cardinality(s) \in Nat /\ Cardinality(s) <= Cardinality(S)
  BY FS_Subset, FS_CardinalityType
<1>2. ASSUME s # {} PROVE Uno(s) \in s /\ Cardinality(s) > 0 /\ Cardinality(s \ {Uno(s)}) = Cardinality(s) - 1
  <2>1. Uno(s) \in s
    BY <1>2 DEF Uno
  <2>2. Cardinality(s \ {Uno(s)}) = Cardinality(s) - 1
    BY <1>1, <2>1, FS_RemoveElement
  <2>3. Cardinality(s) # 0
    BY <1>1, <1>2, FS_EmptySet
  <2> QED BY <1>1, <2>1, <2>2, <2>3
<1> QED BY <1>1, <1>2

\* The sum over a finite set exists, and is a whole number.
LEMMA SumaFinita ==
    ASSUME NEW S, IsFiniteSet(S), NEW g \in [S -> Nat]
    PROVE  /\ \E h : EsSuma(h, S, g)
           /\ \A h : EsSuma(h, S, g) => h[S] \in Nat
<1> DEFINE N == Cardinality(S)
<1>0. N \in Nat
  BY FS_CardinalityType
<1>u. ASSUME NEW s \in SUBSET S PROVE Cardinality(s) \in 0..N /\ (s # {} => Cardinality(s) > 0)
  <2>1. /\ Cardinality(s) \in Nat /\ Cardinality(s) <= Cardinality(S)
        /\ s # {} => Cardinality(s) > 0
    BY UnoMenos
  <2> QED BY <1>0, <2>1
<1> HIDE DEF N
<1>n. N = Cardinality(S)
  BY DEF N
<1>1. \E h : EsSuma(h, S, g)
  <2>1. PICK F : Sumas(F, S, g, N)
    BY <1>0, SumasExisten
  <2> DEFINE h == [s \in SUBSET S |-> F[Cardinality(s)][s]]
  <2>2. ASSUME NEW s \in SUBSET S PROVE h[s] = IF s = {} THEN 0 ELSE g[Uno(s)] + h[s \ {Uno(s)}]
    <3>1. Cardinality(s) \in 0..N
      BY <1>u
    <3>2. CASE s = {}
      BY <2>1, <3>1, <3>2 DEF Sumas
    <3>3. CASE s # {}
      <4>1. /\ s \ {Uno(s)} \in SUBSET S /\ Cardinality(s) # 0
            /\ Cardinality(s \ {Uno(s)}) = Cardinality(s) - 1
        BY <3>3, UnoMenos
      <4>2. F[Cardinality(s)][s] = g[Uno(s)] + F[Cardinality(s) - 1][s \ {Uno(s)}]
        BY <2>1, <3>1, <3>3, <4>1 DEF Sumas
      <4>3. h[s \ {Uno(s)}] = F[Cardinality(s) - 1][s \ {Uno(s)}]
        BY <4>1
      <4> QED BY <3>3, <4>2, <4>3
    <3> QED BY <3>2, <3>3
  <2>3. h = [s \in SUBSET S |-> h[s]]
    OBVIOUS
  <2> HIDE DEF h
  <2>4. EsSuma(h, S, g)
    BY <2>2, <2>3 DEF EsSuma
  <2> QED BY <2>4
<1>2. ASSUME NEW h, EsSuma(h, S, g) PROVE h[S] \in Nat
  <2> DEFINE T == {n \in Nat : \A s \in SUBSET S : Cardinality(s) <= n => h[s] \in Nat}
  <2>0. \A s \in SUBSET S : h[s] = IF s = {} THEN 0 ELSE g[Uno(s)] + h[s \ {Uno(s)}]
    BY <1>2 DEF EsSuma
  <2>1. 0 \in T
    <3>1. ASSUME NEW s \in SUBSET S, Cardinality(s) <= 0 PROVE h[s] \in Nat
      <4>1. s = {}
        BY <1>u, <3>1
      <4> QED BY <2>0, <4>1
    <3> QED BY <3>1
  <2>2. ASSUME NEW n \in T PROVE n + 1 \in T
    <3>1. ASSUME NEW s \in SUBSET S, Cardinality(s) <= n + 1 PROVE h[s] \in Nat
      <4>1. CASE s = {}
        BY <2>0, <4>1
      <4>2. CASE s # {}
        <5>1. /\ Uno(s) \in s /\ s \ {Uno(s)} \in SUBSET S /\ Cardinality(s) \in Nat
              /\ Cardinality(s \ {Uno(s)}) = Cardinality(s) - 1
          BY <4>2, UnoMenos
        <5>2. Cardinality(s \ {Uno(s)}) <= n
          BY <3>1, <5>1
        <5>3. h[s \ {Uno(s)}] \in Nat /\ g[Uno(s)] \in Nat
          BY <5>1, <5>2
        <5> QED BY <2>0, <4>2, <5>3
      <4> QED BY <4>1, <4>2
    <3> QED BY <3>1
  <2> HIDE DEF T
  <2>3. T = Nat
    <3>1. T \in SUBSET Nat
      BY DEF T
    <3> QED BY <2>1, <2>2, <3>1, Induccion
  <2>4. N \in T
    BY <1>0, <2>3
  <2> QED BY <1>0, <1>n, <2>4 DEF T
<1> QED BY <1>1, <1>2

\* A sum of amounts is a whole number.
LEMMA SumaEsNatural ==
    ASSUME NEW S, IsFiniteSet(S), \A o \in S : Monto(o) \in Nat
    PROVE  Suma(S) \in Nat
<1> DEFINE g == [o \in S |-> Monto(o)]
           paso(h) == [s \in SUBSET S |-> IF s = {} THEN 0 ELSE Monto(CHOOSE x \in s : TRUE) + h[s \ {CHOOSE x \in s : TRUE}]]
           iter == CHOOSE h : h = paso(h)
<1>1. Suma(S) = iter[S]
  BY DEF Suma, MapThenSumSet, MapThenFoldSet
<1>2. g \in [S -> Nat]
  OBVIOUS
<1>3. ASSUME NEW h
      PROVE EsSuma(h, S, g) <=> h = paso(h)
  <2>1. ASSUME NEW s \in SUBSET S, s # {} PROVE g[Uno(s)] = Monto(CHOOSE x \in s : TRUE)
    <3>1. Uno(s) \in S
      BY <2>1 DEF Uno
    <3> QED BY <3>1 DEF Uno
  <2> HIDE DEF g
  <2> QED BY <2>1 DEF EsSuma, Uno
<1>4. EsSuma(iter, S, g)
  <2>1. PICK f0 : EsSuma(f0, S, g)
    BY <1>2, SumaFinita
  <2> HIDE DEF g, paso
  <2>2. \E h : h = paso(h)
    BY <1>3, <2>1
  <2>3. iter = paso(iter)
    BY <2>2
  <2> QED BY <1>3, <2>3
<1> HIDE DEF g, iter
<1> QED BY <1>1, <1>2, <1>4, SumaFinita
-----------------------------------------------------------------------------
(* The types of what is kept. *)

\* A transaction whose outputs are finitely many, and its amounts whole numbers.
Contable(t) == IsFiniteSet(DOMAIN t.sal) /\ \A n \in DOMAIN t.sal : t.sal[n].monto \in Nat

\* The values of a function over a finite set are finitely many.
LEMMA ImagenFinita ==
    ASSUME NEW S, IsFiniteSet(S), NEW f
    PROVE  IsFiniteSet({f[x] : x \in S})
<1> DEFINE T == {f[x] : x \in S}
           g == [x \in S |-> f[x]]
<1>1. g \in Surjection(S, T)
  BY DEF Surjection
<1> HIDE DEF g
<1> QED BY <1>1, FS_Surjection

\* Finitely many transactions with finitely many outputs each have finitely many outputs.
LEMMA SalidasContables ==
    ASSUME NEW b, IsFiniteSet(b), \A t \in b : Contable(t)
    PROVE  IsFiniteSet(Salidas(b)) /\ \A o \in Salidas(b) : Monto(o) \in Nat
<1> DEFINE de(u) == {<<u, n>> : n \in DOMAIN u.sal}
           partes == {de(u) : u \in b}
<1>1. ASSUME NEW t \in b PROVE IsFiniteSet(de(t))
  <2>1. IsFiniteSet(DOMAIN t.sal)
    BY DEF Contable
  <2> DEFINE s == DOMAIN t.sal
             f == [n \in s |-> <<t, n>>]
  <2>2. {f[n] : n \in s} = de(t)
    OBVIOUS
  <2>3. IsFiniteSet({f[n] : n \in s})
    <3>1. IsFiniteSet(s)
      BY <2>1
    <3> HIDE DEF s, f
    <3> QED BY <3>1, ImagenFinita
  <2> QED BY <2>2, <2>3
<1>2. IsFiniteSet(partes)
  <2> DEFINE f == [u \in b |-> de(u)]
  <2>1. partes = {f[u] : u \in b}
    OBVIOUS
  <2>2. IsFiniteSet({f[u] : u \in b})
    <3> HIDE DEF f
    <3> QED BY ImagenFinita
  <2> QED BY <2>1, <2>2
<1>3. IsFiniteSet(UNION partes)
  <2>1. \A p \in partes : IsFiniteSet(p)
    BY <1>1
  <2> HIDE DEF partes
  <2> QED BY <1>2, <2>1, FS_UNION
<1>4. Salidas(b) = UNION partes
  BY DEF Salidas
<1>5. \A o \in Salidas(b) : Monto(o) \in Nat
  <2>1. ASSUME NEW o \in Salidas(b) PROVE Monto(o) \in Nat
    <3>1. PICK t \in b : \E n \in DOMAIN t.sal : o = <<t, n>>
      BY DEF Salidas
    <3> QED BY <3>1 DEF Monto, Contable
  <2> QED BY <2>1
<1> QED BY <1>3, <1>4, <1>5

\* The pending balance of transfers whose cost is a whole number is one.
LEMMA PendienteEsNatural ==
    ASSUME NEW l, Bolsa(l), IsFiniteSet(DOMAIN l), \A t \in DOMAIN l : Gasto(t) \in Nat
    PROVE  Pendiente(l) \in Nat
<1> DEFINE S == DOMAIN l
           p(t) == l[t] * Gasto(t)
           g == [t \in S |-> p(t)]
           paso(h) == [s \in SUBSET S |-> IF s = {} THEN 0 ELSE p(CHOOSE x \in s : TRUE) + h[s \ {CHOOSE x \in s : TRUE}]]
           iter == CHOOSE h : h = paso(h)
<1>1. Pendiente(l) = iter[S]
  BY DEF Pendiente, MapThenSumSet, MapThenFoldSet, BagToSet
<1>2. g \in [S -> Nat]
  <2>1. ASSUME NEW t \in S PROVE l[t] * Gasto(t) \in Nat
    <3>1. l[t] \in Nat /\ Gasto(t) \in Nat
      BY DEF Bolsa
    <3> DEFINE a == l[t]
               c == Gasto(t)
    <3> HIDE DEF a, c
    <3>2. a \in Nat /\ c \in Nat => a * c \in Nat
      OBVIOUS
    <3> QED BY <3>1, <3>2 DEF a, c
  <2> QED BY <2>1
<1>3. ASSUME NEW h
      PROVE EsSuma(h, S, g) <=> h = paso(h)
  <2>1. ASSUME NEW s \in SUBSET S, s # {}
        PROVE g[Uno(s)] = p(CHOOSE x \in s : TRUE)
    <3>1. Uno(s) \in S
      BY <2>1 DEF Uno
    <3> QED BY <3>1 DEF Uno
  <2> HIDE DEF g, p
  <2> QED BY <2>1 DEF EsSuma, Uno
<1>4. EsSuma(iter, S, g)
  <2>1. PICK f0 : EsSuma(f0, S, g)
    BY <1>2, SumaFinita
  <2> HIDE DEF g, S, p, paso
  <2>2. \E h : h = paso(h)
    BY <1>3, <2>1
  <2>3. iter = paso(iter)
    BY <2>2
  <2> QED BY <1>3, <2>3
<1> HIDE DEF g, iter
<1> QED BY <1>1, <1>2, <1>4, SumaFinita

LEMMA UnaYOtra ==
    ASSUME NEW p, NEW b
    PROVE  LET q == Append(<<p>>, b) IN DOMAIN q = 1..2 /\ Len(q) = 2 /\ q[1] = p /\ q[2] = b
<1> DEFINE ch == <<p>>
<1>1. ch \in Seq({p}) /\ Len(ch) = 1 /\ ch[1] = p
  OBVIOUS
<1> HIDE DEF ch
<1>2. EsSecuencia(ch) /\ 1 \in 1..Len(ch)
  <2>1. \E S : ch \in Seq(S)
    BY <1>1
  <2> QED BY <1>1, <2>1 DEF EsSecuencia
<1> DEFINE q == Append(ch, b)
<1>3. /\ EsSecuencia(q) /\ Len(q) = Len(ch) + 1 /\ q[Len(ch) + 1] = b
      /\ \A n \in 1..Len(ch) : q[n] = ch[n]
  BY <1>2, ListaCrece
<1> HIDE DEF q
<1>4. DOMAIN q = 1..2 /\ Len(q) = 2 /\ q[1] = p /\ q[2] = b
  BY <1>1, <1>2, <1>3 DEF EsSecuencia
<1> QED BY <1>4 DEF q, ch

\* What a transfer costs is what the user asked for, or all it spends.
LEMMA GastoDeTransferencia ==
    ASSUME NEW c, NEW s, IsFiniteSet(s), \A o \in s : Monto(o) \in Nat,
           NEW d, NEW i \in Nat, NEW k \in Nat, NEW hora
    PROVE  LET t == Transaccion(c, s, d, i, k, hora)
           IN  Gasto(t) \in Nat /\ Contable(t) /\ t.en = s
<1> DEFINE v == Suma(s) - (i + k)
           pago == <<[dest |-> d, monto |-> i]>>
           t == Transaccion(c, s, d, i, k, hora)
<1>1. Suma(s) \in Nat
  BY SumaEsNatural
<1>2. t.en = s /\ t.sal = IF v > 0 THEN Append(pago, [dest |-> c, monto |-> v]) ELSE pago
  BY DEF Transaccion, Vuelto
<1>p. LET q == Append(pago, [dest |-> c, monto |-> v])
      IN  DOMAIN q = 1..2 /\ Len(q) = 2 /\ q[1].monto = i /\ q[2].monto = v
  <2> DEFINE b == [dest |-> c, monto |-> v]
             p == [dest |-> d, monto |-> i]
  <2>1. p.monto = i /\ b.monto = v
    OBVIOUS
  <2> HIDE DEF b, p
  <2>2. LET q == Append(<<p>>, b) IN DOMAIN q = 1..2 /\ Len(q) = 2 /\ q[1] = p /\ q[2] = b
    BY UnaYOtra
  <2> QED BY <2>1, <2>2 DEF p, b
<1> SUFFICES Gasto(t) \in Nat /\ Contable(t) /\ t.en = s
  OBVIOUS
<1> HIDE DEF t
<1>3. CASE v > 0
  <2>2. DOMAIN t.sal = 1..2 /\ Len(t.sal) = 2 /\ t.sal[1].monto = i /\ t.sal[2].monto = v
    BY <1>2, <1>3, <1>p
  <2>3. IsFiniteSet(1..2)
    <3>1. 1 \in Int /\ 2 \in Int
      OBVIOUS
    <3> QED BY <3>1, FS_Interval
  <2>4. Gasto(t) = i + k
    <3>1. Gasto(t) = Suma(s) - v
      BY <1>2, <2>2 DEF Gasto
    <3> QED BY <1>1, <3>1
  <2>5. Contable(t)
    <3>1. v \in Nat
      BY <1>1, <1>3
    <3> HIDE DEF v
    <3> QED BY <2>2, <2>3, <3>1 DEF Contable
  <2> QED BY <1>2, <2>4, <2>5
<1>4. CASE ~(v > 0)
  <2>1. t.sal = <<[dest |-> d, monto |-> i]>>
    BY <1>2, <1>4
  <2>2. DOMAIN t.sal = {1} /\ Len(t.sal) = 1 /\ t.sal[1].monto = i
    BY <2>1
  <2>3. IsFiniteSet({1})
    BY FS_Singleton
  <2>4. Gasto(t) = Suma(s)
    <3>1. Gasto(t) = Suma(s) - 0
      BY <1>2, <2>2 DEF Gasto
    <3> QED BY <1>1, <3>1
  <2>5. Contable(t)
    BY <2>2, <2>3 DEF Contable
  <2> QED BY <1>1, <1>2, <2>4, <2>5
<1> QED BY <1>3, <1>4
-----------------------------------------------------------------------------
(* The fields of the accounts after each event.                            *)

\* What is in a sum of bags and in a difference, and how many times.
LEMMA DominioSuma == ASSUME NEW k, NEW l PROVE DOMAIN (k (+) l) = DOMAIN k \cup DOMAIN l
  BY DEF (+)

LEMMA ValorSuma ==
    ASSUME NEW k, NEW l, NEW t, t \in DOMAIN k \/ t \in DOMAIN l
    PROVE  (k (+) l)[t] = (IF t \in DOMAIN k THEN k[t] ELSE 0) + (IF t \in DOMAIN l THEN l[t] ELSE 0)
  BY DEF (+)

LEMMA ValorResta ==
    ASSUME NEW k, NEW l, NEW t
    PROVE  /\ t \in DOMAIN (k (-) l) <=>
                 t \in DOMAIN k /\ (IF t \in DOMAIN l THEN k[t] - l[t] ELSE k[t]) > 0
           /\ t \in DOMAIN (k (-) l) => (k (-) l)[t] = IF t \in DOMAIN l THEN k[t] - l[t] ELSE k[t]
<1> DEFINE r == [u \in DOMAIN k |-> IF u \in DOMAIN l THEN k[u] - l[u] ELSE k[u]]
           D == {u \in DOMAIN r : r[u] > 0}
           q == k (-) l
<1>1. DOMAIN r = DOMAIN k /\ (t \in DOMAIN k => r[t] = IF t \in DOMAIN l THEN k[t] - l[t] ELSE k[t])
  OBVIOUS
<1>2. q = [u \in D |-> r[u]]
  BY DEF (-)
<1> HIDE DEF r, q
<1>3. t \in D <=> t \in DOMAIN k /\ r[t] > 0
  BY <1>1
<1> HIDE DEF D
<1>4. DOMAIN q = D /\ (t \in D => q[t] = r[t])
  BY <1>2
<1> QED BY <1>1, <1>3, <1>4 DEF q

LEMMA DominioResta == ASSUME NEW k, NEW l PROVE DOMAIN (k (-) l) \subseteq DOMAIN k
  BY ValorResta

\* What stays in an account when only one of its lists changes.
LEMMA CamposTrasTxn ==
    ASSUME FormaInv, RecibirTxn
    PROVE  LET t == Head(eventos).txn
           IN  /\ t \in Ajenas /\ DOMAIN cuentas' = DOMAIN cuentas
               /\ previas' \in {previas, cuentas}
               /\ \A c \in DOMAIN cuentas :
                     /\ cuentas'[c].utxos = cuentas[c].utxos /\ cuentas'[c].pendiente = cuentas[c].pendiente
                     /\ cuentas'[c].sending = cuentas[c].sending /\ cuentas'[c].sent = cuentas[c].sent
                     /\ cuentas'[c].received = cuentas[c].received
                     /\ \/ cuentas'[c].receiving = cuentas[c].receiving
                        \/ cuentas'[c].receiving = cuentas[c].receiving (+) [u \in {t} |-> CantSalidas(t, c)]
<1> DEFINE t == Head(eventos).txn
           tocadas == {c \in DOMAIN cuentas : CantSalidas(t, c) > 0}
           cobro(c) == [u \in {t} |-> CantSalidas(t, c)]
           cs == [c \in DOMAIN cuentas |->
                     IF c \in tocadas
                     THEN [cuentas[c] EXCEPT !.receiving = @ (+) cobro(c)]
                     ELSE cuentas[c]]
<1>1. t \in Ajenas
  BY EventosQueSeToman DEF RecibirTxn
<1>2. \/ cuentas' = cuentas /\ previas' = previas
      \/ cuentas' = cs /\ previas' = cuentas
  BY DEF RecibirTxn, CambiarYGuardar
<1>3. /\ DOMAIN cs = DOMAIN cuentas
      /\ \A c \in DOMAIN cuentas :
            cs[c] = IF c \in tocadas THEN [cuentas[c] EXCEPT !.receiving = @ (+) cobro(c)] ELSE cuentas[c]
  OBVIOUS
<1>4. \A c \in DOMAIN cuentas : cuentas[c] = Armada(cuentas[c])
  BY DEF FormaInv, Forma
<1> HIDE DEF cs, cobro, tocadas
<1>5. \A c \in DOMAIN cuentas : cs[c] = IF c \in tocadas THEN TrasCobrar(cuentas[c], cobro(c)) ELSE cuentas[c]
  <2> TAKE c \in DOMAIN cuentas
  <2>1. [cuentas[c] EXCEPT !.receiving = @ (+) cobro(c)] = TrasCobrar(cuentas[c], cobro(c))
    BY <1>4, Cobrada
  <2> QED BY <1>3, <2>1
<1>6. ASSUME NEW c \in DOMAIN cuentas
      PROVE  /\ cs[c].utxos = cuentas[c].utxos /\ cs[c].pendiente = cuentas[c].pendiente
             /\ cs[c].sending = cuentas[c].sending /\ cs[c].sent = cuentas[c].sent
             /\ cs[c].received = cuentas[c].received
             /\ \/ cs[c].receiving = cuentas[c].receiving
                \/ cs[c].receiving = cuentas[c].receiving (+) cobro(c)
  <2>1. LET y == TrasCobrar(cuentas[c], cobro(c))
        IN  /\ y.utxos = cuentas[c].utxos /\ y.pendiente = cuentas[c].pendiente
            /\ y.sending = cuentas[c].sending /\ y.sent = cuentas[c].sent
            /\ y.received = cuentas[c].received
            /\ y.receiving = cuentas[c].receiving (+) cobro(c)
    BY DEF TrasCobrar
  <2>2. cs[c] = TrasCobrar(cuentas[c], cobro(c)) \/ cs[c] = cuentas[c]
    BY <1>5
  <2> QED BY <2>1, <2>2
<1>7. \A c \in DOMAIN cuentas : cobro(c) = [u \in {t} |-> CantSalidas(t, c)]
  BY DEF cobro
<1> HIDE DEF t
<1> SUFFICES /\ t \in Ajenas /\ DOMAIN cuentas' = DOMAIN cuentas /\ previas' \in {previas, cuentas}
             /\ \A c \in DOMAIN cuentas :
                     /\ cuentas'[c].utxos = cuentas[c].utxos /\ cuentas'[c].pendiente = cuentas[c].pendiente
                     /\ cuentas'[c].sending = cuentas[c].sending /\ cuentas'[c].sent = cuentas[c].sent
                     /\ cuentas'[c].received = cuentas[c].received
                     /\ \/ cuentas'[c].receiving = cuentas[c].receiving
                        \/ cuentas'[c].receiving = cuentas[c].receiving (+) cobro(c)
  BY <1>7 DEF t
<1>8. CASE cuentas' = cuentas /\ previas' = previas
  BY <1>1, <1>8
<1>9. CASE cuentas' = cs /\ previas' = cuentas
  BY <1>1, <1>3, <1>6, <1>9
<1> QED BY <1>2, <1>8, <1>9

\* evento_recibir_bloque, list by list.
LEMMA CamposTrasBloque ==
    ASSUME RecibirBloque
    PROVE  LET b == Head(eventos).bloque
           IN  /\ DOMAIN cuentas' = DOMAIN cuentas /\ previas' \in {previas, cuentas}
               /\ \A c \in DOMAIN cuentas :
                     LET x == cuentas[c]
                         y == cuentas'[c]
                         envios == Movidas(x.sending, b, c)
                         cobros == Movidas(x.receiving, b, c)
                     IN  /\ y.utxos = Propios(utxos', c)
                         /\ y.sending = x.sending (-) envios /\ y.sent = x.sent (+) envios
                         /\ y.receiving = x.receiving (-) cobros /\ y.received = x.received (+) cobros
                         /\ y.pendiente \in {x.pendiente, Pendiente(x.sending (-) envios)}
<1> DEFINE b == Head(eventos).bloque
           us == Actualizar(utxos, b)
           cs == [c \in DOMAIN cuentas |-> CuentaTrasBloque(cuentas[c], c, b, us)]
<1>1. cuentas' = cs /\ utxos' = us /\ previas' \in {previas, cuentas}
  BY DEF RecibirBloque, CambiarYGuardar
<1>2. /\ DOMAIN cs = DOMAIN cuentas
      /\ \A c \in DOMAIN cuentas : cs[c] = CuentaTrasBloque(cuentas[c], c, b, us)
  OBVIOUS
<1> HIDE DEF cs, us, b
<1>3. ASSUME NEW c \in DOMAIN cuentas
      PROVE  LET x == cuentas[c]
                 y == cs[c]
                 envios == Movidas(x.sending, b, c)
                 cobros == Movidas(x.receiving, b, c)
             IN  /\ y.utxos = Propios(us, c)
                 /\ y.sending = x.sending (-) envios /\ y.sent = x.sent (+) envios
                 /\ y.receiving = x.receiving (-) cobros /\ y.received = x.received (+) cobros
                 /\ y.pendiente \in {x.pendiente, Pendiente(x.sending (-) envios)}
  BY <1>2 DEF CuentaTrasBloque, PendienteTras
<1> QED BY <1>1, <1>2, <1>3 DEF b

\* evento_realizar_trx, list by list.
LEMMA CamposTrasTransferir ==
    ASSUME FormaInv, AnotarTransferencia
    PROVE  \E n \in nueva :
              LET l == SetToBag({n.txn})
              IN  /\ Bolsa(l) /\ DOMAIN cuentas' = DOMAIN cuentas /\ previas' = cuentas'
                  /\ \A c \in DOMAIN cuentas :
                        LET x == cuentas[c]
                            y == cuentas'[c]
                        IN  /\ y.utxos = x.utxos /\ y.sent = x.sent /\ y.received = x.received
                            /\ \/ y.sending = x.sending /\ y.pendiente = x.pendiente
                               \/ y.sending = x.sending (+) l /\ y.pendiente = Pendiente(x.sending (+) l)
                            /\ y.receiving \in {x.receiving, x.receiving (+) l}
<1>1. PICK n \in nueva :
              LET l == SetToBag({n.txn})
                  e == TrasEnvio(cuentas, n.de, l, Pendiente(cuentas[n.de].sending (+) l))
              IN  Bolsa(l) /\ Forma(e) /\ cuentas' = TrasCobro(e, n.a, l) /\ Forma(cuentas')
  BY TransferenciaAnotada
<1> DEFINE l == SetToBag({n.txn})
           e == TrasEnvio(cuentas, n.de, l, Pendiente(cuentas[n.de].sending (+) l))
<1>2. Bolsa(l) /\ cuentas' = TrasCobro(e, n.a, l)
  BY <1>1
<1>3. previas' = cuentas'
  BY DEF AnotarTransferencia, CambiarYGuardar
<1> HIDE DEF l
<1>4. /\ DOMAIN e = DOMAIN cuentas
      /\ \A c \in DOMAIN cuentas : e[c] = IF c = n.de THEN TrasEnviar(cuentas[c], l, Pendiente(cuentas[n.de].sending (+) l))
                                          ELSE cuentas[c]
  BY DEF TrasEnvio
<1> HIDE DEF e
<1>5. /\ DOMAIN cuentas' = DOMAIN cuentas
      /\ \A c \in DOMAIN cuentas : cuentas'[c] = IF c = n.a THEN TrasCobrar(e[c], l) ELSE e[c]
  BY <1>2, <1>4 DEF TrasCobro
<1>6. ASSUME NEW c \in DOMAIN cuentas
      PROVE  /\ cuentas'[c].utxos = cuentas[c].utxos /\ cuentas'[c].sent = cuentas[c].sent
             /\ cuentas'[c].received = cuentas[c].received
             /\ \/ cuentas'[c].sending = cuentas[c].sending /\ cuentas'[c].pendiente = cuentas[c].pendiente
                \/ /\ cuentas'[c].sending = cuentas[c].sending (+) l
                   /\ cuentas'[c].pendiente = Pendiente(cuentas[c].sending (+) l)
             /\ cuentas'[c].receiving \in {cuentas[c].receiving, cuentas[c].receiving (+) l}
  <2> DEFINE x == cuentas[c]
             y == cuentas'[c]
             z == e[c]
  <2>1. /\ z.utxos = x.utxos /\ z.sent = x.sent /\ z.received = x.received /\ z.receiving = x.receiving
        /\ \/ z.sending = x.sending /\ z.pendiente = x.pendiente
           \/ z.sending = x.sending (+) l /\ z.pendiente = Pendiente(x.sending (+) l)
    BY <1>4 DEF TrasEnviar
  <2>2. /\ y.utxos = z.utxos /\ y.sent = z.sent /\ y.received = z.received
        /\ y.sending = z.sending /\ y.pendiente = z.pendiente
        /\ y.receiving \in {z.receiving, z.receiving (+) l}
    BY <1>5 DEF TrasCobrar
  <2> HIDE DEF x, y, z
  <2>3. /\ y.utxos = x.utxos /\ y.sent = x.sent /\ y.received = x.received
        /\ \/ y.sending = x.sending /\ y.pendiente = x.pendiente
           \/ y.sending = x.sending (+) l /\ y.pendiente = Pendiente(x.sending (+) l)
        /\ y.receiving \in {x.receiving, x.receiving (+) l}
    BY <2>1, <2>2
  <2> QED BY <2>3 DEF x, y
<1> QED BY <1>2, <1>3, <1>5, <1>6 DEF l

\* evento_cargar_wallet, list by list.
LEMMA CamposTrasCargarWallet ==
    ASSUME FormaInv, CargarWallet
    PROVE  /\ DOMAIN cuentas' = DOMAIN cuentas
           /\ \A c \in DOMAIN cuentas :
                 LET x == cuentas[c]
                     y == cuentas'[c]
                 IN  /\ y.utxos \in {x.utxos, Propios(utxos, c)}
                     /\ y.pendiente \in {x.pendiente, Pendiente(x.sending)}
                     /\ y.sending = x.sending /\ y.sent = x.sent
                     /\ y.receiving = x.receiving /\ y.received = x.received
<1>1. PICK d \in DOMAIN cuentas :
          LET x == cuentas[d]
              y == [utxos |-> Propios(utxos, d), pendiente |-> Pendiente(x.sending),
                    sending |-> x.sending, sent |-> x.sent,
                    receiving |-> x.receiving, received |-> x.received]
          IN  cuentas' = [c \in DOMAIN cuentas |-> IF c = d THEN y ELSE cuentas[c]]
  BY WalletCargada
<1> DEFINE y == [utxos |-> Propios(utxos, d), pendiente |-> Pendiente(cuentas[d].sending),
                 sending |-> cuentas[d].sending, sent |-> cuentas[d].sent,
                 receiving |-> cuentas[d].receiving, received |-> cuentas[d].received]
<1>2. cuentas' = [c \in DOMAIN cuentas |-> IF c = d THEN y ELSE cuentas[c]]
  BY <1>1
<1>3. /\ y.utxos = Propios(utxos, d) /\ y.pendiente = Pendiente(cuentas[d].sending)
      /\ y.sending = cuentas[d].sending /\ y.sent = cuentas[d].sent
      /\ y.receiving = cuentas[d].receiving /\ y.received = cuentas[d].received
  OBVIOUS
<1> HIDE DEF y
<1>4. \A c \in DOMAIN cuentas : (c = d /\ cuentas'[c] = y) \/ cuentas'[c] = cuentas[c]
  BY <1>2
<1> QED BY <1>2, <1>3, <1>4
-----------------------------------------------------------------------------
(* The invariant of the types. *)

\* Lists of transactions of the network; what was sent has a cost.
Conocida(x, m) ==
    /\ DOMAIN x.sending \cup DOMAIN x.sent \cup DOMAIN x.receiving \cup DOMAIN x.received \subseteq m
    /\ \A t \in DOMAIN x.sending : Gasto(t) \in Nat

Tipada(cs, m, us) ==
    /\ DOMAIN cs \subseteq Direcciones
    /\ \A c \in DOMAIN cs : Conocida(cs[c], m) /\ cs[c].pendiente \in Nat /\ cs[c].utxos \subseteq us

ArchivoTipado(a, m) == DOMAIN a \subseteq Direcciones /\ \A c \in DOMAIN a : Conocida(a[c], m)

EventosDe(ev, m) == \E S : ev \in Seq(S) /\ \A e \in S : e.tipo = "txn" => e.txn \in m

RedTipada ==
    /\ IsFiniteSet(mempool) /\ IsFiniteSet(Todas(bloques))
    /\ \A t \in mempool \cup Todas(bloques) : Contable(t)
    /\ EventosDe(eventos, mempool)

CuentasTipadas ==
    /\ Tipada(cuentas, mempool, Salidas(Todas(bloques)))
    /\ Tipada(previas, mempool, Salidas(Todas(bloques)))
    /\ ArchivoTipado(archivo, mempool)
    /\ nueva = {} \/ \E n : nueva = {n} /\ n.txn \in mempool /\ Gasto(n.txn) \in Nat

CuentasDelLimite ==
    /\ roto \in BOOLEAN /\ fallo \in BOOLEAN
    /\ percances \in 0..MaxPercances /\ hechas \in 0..MaxTransferencias

\* As the network and the chain grow, what was typed stays so.
LEMMA TipadaCrece ==
    ASSUME NEW cs, NEW m, NEW us, Tipada(cs, m, us), NEW m2, m \subseteq m2, NEW us2, us \subseteq us2
    PROVE  Tipada(cs, m2, us2)
  BY DEF Tipada, Conocida

\* The same of the file.
LEMMA ArchivoTipadoCrece ==
    ASSUME NEW a, NEW m, ArchivoTipado(a, m), NEW m2, m \subseteq m2
    PROVE  ArchivoTipado(a, m2)
  BY DEF ArchivoTipado, Conocida

\* What an account owes for what it has sent is a whole number.
LEMMA PendienteTipado ==
    ASSUME NEW l, Bolsa(l), NEW m, IsFiniteSet(m), DOMAIN l \subseteq m, \A t \in DOMAIN l : Gasto(t) \in Nat
    PROVE  Pendiente(l) \in Nat
<1>1. IsFiniteSet(DOMAIN l)
  BY FS_Subset
<1> QED BY <1>1, PendienteEsNatural

\* The unspent outputs are of the chain.
LEMMA UtxosDeLaCadena == CadenaInv => utxos \subseteq Salidas(Todas(bloques))
<1> SUFFICES ASSUME CadenaInv PROVE utxos \subseteq Salidas(Todas(bloques))
  OBVIOUS
<1>1. CASE ~ConUtxos
  BY <1>1 DEF CadenaInv, InicioInv
<1>2. CASE ConUtxos
  BY <1>2 DEF CadenaInv, ColaInv, Progreso, AlDia
<1> QED BY <1>1, <1>2

\* The outputs of an address are among those of the set.
LEMMA PropiosSonUtxos == ASSUME NEW us, NEW c PROVE Propios(us, c) \subseteq us
  BY DEF Propios

\* An account that is made from lists of the network.
LEMMA CuentaTipada ==
    ASSUME NEW us, NEW m, NEW u, us \subseteq u, NEW c, NEW x, Conocida(x, m)
    PROVE  LET y == Cuenta(c, us, x)
           IN  Conocida(y, m) /\ y.pendiente \in Nat /\ y.utxos \subseteq u
<1>1. LET y == Cuenta(c, us, x)
      IN  /\ y.sending = x.sending /\ y.sent = x.sent /\ y.receiving = x.receiving /\ y.received = x.received
          /\ y.pendiente = 0 /\ y.utxos = Propios(us, c)
  BY DEF Cuenta
<1> QED BY <1>1, PropiosSonUtxos DEF Conocida

\* An account with no transactions.
LEMMA SinTxnsTipada == ASSUME NEW m PROVE Conocida(SinTxns, m)
  BY DEF Conocida, SinTxns, EmptyBag, SetToBag

\* What a block moves was in the list.
LEMMA MovidasDeLaLista == ASSUME NEW l, NEW b, NEW c PROVE DOMAIN Movidas(l, b, c) \subseteq DOMAIN l
  BY DEF Movidas, BagToSet

\* The accounts after each event.
LEMMA TipadaTrasTxn ==
    ASSUME FormaInv, NEW m, NEW us, Tipada(cuentas, m, us), Tipada(previas, m, us), RecibirTxn, EventosDe(eventos, m)
    PROVE  Tipada(cuentas', m, us) /\ Tipada(previas', m, us)
<1> DEFINE t == Head(eventos).txn
<1>1. /\ DOMAIN cuentas' = DOMAIN cuentas /\ previas' \in {previas, cuentas}
      /\ \A c \in DOMAIN cuentas :
            /\ cuentas'[c].utxos = cuentas[c].utxos /\ cuentas'[c].pendiente = cuentas[c].pendiente
            /\ cuentas'[c].sending = cuentas[c].sending /\ cuentas'[c].sent = cuentas[c].sent
            /\ cuentas'[c].received = cuentas[c].received
            /\ \/ cuentas'[c].receiving = cuentas[c].receiving
               \/ cuentas'[c].receiving = cuentas[c].receiving (+) [u \in {t} |-> CantSalidas(t, c)]
  BY CamposTrasTxn
<1>2. t \in m
  <2>1. PICK S : eventos \in Seq(S) /\ \A e \in S : e.tipo = "txn" => e.txn \in m
    BY DEF EventosDe
  <2>2. eventos # << >> /\ Head(eventos).tipo = "txn"
    BY DEF RecibirTxn
  <2>3. Head(eventos) \in S
    BY <2>1, <2>2
  <2> QED BY <2>1, <2>2, <2>3
<1> HIDE DEF t
<1>3. ASSUME NEW c \in DOMAIN cuentas
      PROVE  Conocida(cuentas'[c], m) /\ cuentas'[c].pendiente \in Nat /\ cuentas'[c].utxos \subseteq us
  <2>1. Conocida(cuentas[c], m) /\ cuentas[c].pendiente \in Nat /\ cuentas[c].utxos \subseteq us
    BY DEF Tipada
  <2>2. DOMAIN cuentas'[c].receiving \subseteq DOMAIN cuentas[c].receiving \cup {t}
    <3> DEFINE l == [u \in {t} |-> CantSalidas(t, c)]
    <3>2. DOMAIN l = {t}
      OBVIOUS
    <3>1. DOMAIN (cuentas[c].receiving (+) l) = DOMAIN cuentas[c].receiving \cup {t}
      <4> HIDE DEF l
      <4> QED BY <3>2, DominioSuma
    <3> QED BY <1>1, <3>1
  <2> QED BY <1>1, <1>2, <2>1, <2>2 DEF Conocida
<1> QED BY <1>1, <1>3 DEF Tipada

\* evento_recibir_bloque
LEMMA TipadaTrasBloque ==
    ASSUME FormaInv, NEW m, IsFiniteSet(m), NEW us, Tipada(cuentas, m, us), Tipada(previas, m, us), RecibirBloque,
           utxos' \subseteq us
    PROVE  Tipada(cuentas', m, us) /\ Tipada(previas', m, us)
<1> DEFINE b == Head(eventos).bloque
<1>1. /\ DOMAIN cuentas' = DOMAIN cuentas /\ previas' \in {previas, cuentas}
      /\ \A c \in DOMAIN cuentas :
                     LET x == cuentas[c]
                         y == cuentas'[c]
                         envios == Movidas(x.sending, b, c)
                         cobros == Movidas(x.receiving, b, c)
                     IN  /\ y.utxos = Propios(utxos', c)
                         /\ y.sending = x.sending (-) envios /\ y.sent = x.sent (+) envios
                         /\ y.receiving = x.receiving (-) cobros /\ y.received = x.received (+) cobros
                         /\ y.pendiente \in {x.pendiente, Pendiente(x.sending (-) envios)}
  BY CamposTrasBloque
<1> HIDE DEF b
<1>2. ASSUME NEW c \in DOMAIN cuentas
      PROVE  Conocida(cuentas'[c], m) /\ cuentas'[c].pendiente \in Nat /\ cuentas'[c].utxos \subseteq us
  <2> DEFINE x == cuentas[c]
             y == cuentas'[c]
             envios == Movidas(x.sending, b, c)
             cobros == Movidas(x.receiving, b, c)
             s == x.sending (-) envios
  <2>1. /\ y.utxos = Propios(utxos', c)
        /\ y.sending = s /\ y.sent = x.sent (+) envios
        /\ y.receiving = x.receiving (-) cobros /\ y.received = x.received (+) cobros
        /\ y.pendiente \in {x.pendiente, Pendiente(s)}
    BY <1>1
  <2>2. Conocida(x, m) /\ x.pendiente \in Nat
    BY DEF Tipada
  <2>3. Bolsas(x)
    BY DEF FormaInv, Forma
  <2>4. DOMAIN envios \subseteq DOMAIN x.sending /\ DOMAIN cobros \subseteq DOMAIN x.receiving /\ Bolsa(envios)
    BY <2>3, MovidasDeLaLista, BolsaMovidas DEF Bolsas
  <2> HIDE DEF x, y, envios, cobros
  <2>5. Bolsa(s) /\ DOMAIN s \subseteq DOMAIN x.sending
    BY <2>3, <2>4, BolsaResta, DominioResta DEF Bolsas
  <2>6. /\ DOMAIN (x.sent (+) envios) = DOMAIN x.sent \cup DOMAIN envios
        /\ DOMAIN (x.receiving (-) cobros) \subseteq DOMAIN x.receiving
        /\ DOMAIN (x.received (+) cobros) = DOMAIN x.received \cup DOMAIN cobros
    BY DominioSuma, DominioResta
  <2> HIDE DEF s
  <2>7. Conocida(y, m)
    BY <2>1, <2>2, <2>4, <2>5, <2>6 DEF Conocida
  <2>8. Pendiente(s) \in Nat
    <3>1. DOMAIN s \subseteq m /\ \A t \in DOMAIN s : Gasto(t) \in Nat
      BY <2>2, <2>5 DEF Conocida
    <3> QED BY <2>5, <3>1, PendienteTipado
  <2>9. y.utxos \subseteq us
    BY <2>1, PropiosSonUtxos
  <2> QED BY <2>1, <2>2, <2>7, <2>8, <2>9 DEF y
<1> QED BY <1>1, <1>2 DEF Tipada

\* The end of evento_realizar_trx.
LEMMA TipadaTrasTransferir ==
    ASSUME FormaInv, NEW m, IsFiniteSet(m), NEW us, Tipada(cuentas, m, us), AnotarTransferencia,
           \A n \in nueva : n.txn \in m /\ Gasto(n.txn) \in Nat
    PROVE  Tipada(cuentas', m, us) /\ Tipada(previas', m, us)
<1>1. PICK n \in nueva :
              LET l == SetToBag({n.txn})
              IN  /\ Bolsa(l) /\ DOMAIN cuentas' = DOMAIN cuentas /\ previas' = cuentas'
                  /\ \A c \in DOMAIN cuentas :
                        LET x == cuentas[c]
                            y == cuentas'[c]
                        IN  /\ y.utxos = x.utxos /\ y.sent = x.sent /\ y.received = x.received
                            /\ \/ y.sending = x.sending /\ y.pendiente = x.pendiente
                               \/ y.sending = x.sending (+) l /\ y.pendiente = Pendiente(x.sending (+) l)
                            /\ y.receiving \in {x.receiving, x.receiving (+) l}
  BY CamposTrasTransferir
<1> DEFINE l == SetToBag({n.txn})
<1>2. Bolsa(l) /\ DOMAIN l = {n.txn}
  BY <1>1 DEF SetToBag
<1>3. n.txn \in m /\ Gasto(n.txn) \in Nat
  OBVIOUS
<1> HIDE DEF l
<1>4. ASSUME NEW c \in DOMAIN cuentas
      PROVE  Conocida(cuentas'[c], m) /\ cuentas'[c].pendiente \in Nat /\ cuentas'[c].utxos \subseteq us
  <2> DEFINE x == cuentas[c]
             y == cuentas'[c]
             s == x.sending (+) l
             r == x.receiving (+) l
  <2>1. /\ y.utxos = x.utxos /\ y.sent = x.sent /\ y.received = x.received
        /\ (y.sending = x.sending /\ y.pendiente = x.pendiente) \/ (y.sending = s /\ y.pendiente = Pendiente(s))
        /\ y.receiving \in {x.receiving, r}
    BY <1>1 DEF l
  <2>2. Conocida(x, m) /\ x.pendiente \in Nat /\ x.utxos \subseteq us
    BY DEF Tipada
  <2>3. Bolsas(x)
    BY DEF FormaInv, Forma
  <2> HIDE DEF x, y
  <2>4. DOMAIN s = DOMAIN x.sending \cup {n.txn} /\ DOMAIN r = DOMAIN x.receiving \cup {n.txn}
    BY <1>2, DominioSuma
  <2>5. Bolsa(s)
    BY <1>2, <2>3, BolsaSuma DEF Bolsas
  <2> HIDE DEF s, r
  <2>6. DOMAIN s \subseteq m /\ \A t \in DOMAIN s : Gasto(t) \in Nat
    BY <1>3, <2>2, <2>4 DEF Conocida
  <2>7. Pendiente(s) \in Nat
    BY <2>5, <2>6, PendienteTipado
  <2>8. Conocida(y, m)
    BY <1>3, <2>1, <2>2, <2>4, <2>6 DEF Conocida
  <2> QED BY <2>1, <2>2, <2>7, <2>8 DEF y
<1>5. DOMAIN cuentas' = DOMAIN cuentas /\ previas' = cuentas'
  BY <1>1
<1> QED BY <1>4, <1>5 DEF Tipada

\* evento_cargar_wallet
LEMMA TipadaTrasCargarWallet ==
    ASSUME FormaInv, NEW m, IsFiniteSet(m), NEW us, Tipada(cuentas, m, us), CargarWallet, utxos \subseteq us
    PROVE  Tipada(cuentas', m, us)
<1>1. /\ DOMAIN cuentas' = DOMAIN cuentas
      /\ \A c \in DOMAIN cuentas :
                 LET x == cuentas[c]
                     y == cuentas'[c]
                 IN  /\ y.utxos \in {x.utxos, Propios(utxos, c)}
                     /\ y.pendiente \in {x.pendiente, Pendiente(x.sending)}
                     /\ y.sending = x.sending /\ y.sent = x.sent
                     /\ y.receiving = x.receiving /\ y.received = x.received
  BY CamposTrasCargarWallet
<1>2. ASSUME NEW c \in DOMAIN cuentas
      PROVE  Conocida(cuentas'[c], m) /\ cuentas'[c].pendiente \in Nat /\ cuentas'[c].utxos \subseteq us
  <2>1. Conocida(cuentas[c], m) /\ cuentas[c].pendiente \in Nat /\ cuentas[c].utxos \subseteq us
    BY DEF Tipada
  <2>2. Pendiente(cuentas[c].sending) \in Nat
    <3>1. Bolsa(cuentas[c].sending)
      BY DEF FormaInv, Forma, Bolsas
    <3>2. DOMAIN cuentas[c].sending \subseteq m /\ \A t \in DOMAIN cuentas[c].sending : Gasto(t) \in Nat
      BY <2>1 DEF Conocida
    <3> QED BY <3>1, <3>2, PendienteTipado
  <2>3. Propios(utxos, c) \subseteq us
    BY PropiosSonUtxos
  <2> QED BY <1>1, <2>1, <2>2, <2>3 DEF Conocida
<1> QED BY <1>1, <1>2 DEF Tipada

\* A set of outputs of the chain has a sum.
LEMMA UtxosContables ==
    ASSUME RedTipada, NEW s, s \subseteq Salidas(Todas(bloques))
    PROVE  IsFiniteSet(s) /\ \A o \in s : Monto(o) \in Nat
<1>1. IsFiniteSet(Salidas(Todas(bloques))) /\ \A o \in Salidas(Todas(bloques)) : Monto(o) \in Nat
  <2> DEFINE b == Todas(bloques)
  <2>1. IsFiniteSet(b) /\ \A t \in b : Contable(t)
    BY DEF RedTipada
  <2> HIDE DEF b
  <2>2. IsFiniteSet(Salidas(b)) /\ \A o \in Salidas(b) : Monto(o) \in Nat
    BY <2>1, SalidasContables
  <2> QED BY <2>2 DEF b
<1> QED BY <1>1, FS_Subset

\* generar_txn: a transfer has a cost, which is what the user asked for or what it spends.
LEMMA TransferenciaTipada ==
    ASSUME RedTipada, CuentasTipadas, Transmitir
    PROVE  \E n : /\ nueva' = {n} /\ mempool' = mempool \cup {n.txn}
                  /\ Contable(n.txn) /\ Gasto(n.txn) \in Nat
<1>1. PICK c \in DOMAIN cuentas, d \in Destinos, i \in Importes, k \in Costos, hora \in Int :
              \E gastados \in Selecciones(cuentas[c].utxos, i + k) :
              /\ gastados \in (SUBSET cuentas[c].utxos) \ {{}}
              /\ LET t == Transaccion(c, gastados, d, i, k, hora)
                 IN  /\ nueva' = {[de |-> c, a |-> d, importe |-> i, costo |-> k, txn |-> t]}
                     /\ mempool' = mempool \cup {t} /\ t.en = gastados
  BY TransferenciaGasta
<1>2. PICK gastados \in (SUBSET cuentas[c].utxos) \ {{}} :
              LET t == Transaccion(c, gastados, d, i, k, hora)
              IN  /\ nueva' = {[de |-> c, a |-> d, importe |-> i, costo |-> k, txn |-> t]}
                  /\ mempool' = mempool \cup {t}
  BY <1>1
<1> DEFINE t == Transaccion(c, gastados, d, i, k, hora)
           n == [de |-> c, a |-> d, importe |-> i, costo |-> k, txn |-> t]
<1>3. nueva' = {n} /\ mempool' = mempool \cup {t}
  BY <1>2
<1>4. IsFiniteSet(gastados) /\ \A o \in gastados : Monto(o) \in Nat
  <2>1. gastados \subseteq Salidas(Todas(bloques))
    BY DEF CuentasTipadas, Tipada
  <2> QED BY <2>1, UtxosContables
<1>5. i \in Nat /\ k \in Nat
  BY WalletAssumption
<1>6. Contable(t) /\ Gasto(t) \in Nat
  BY <1>4, <1>5, GastoDeTransferencia
<1> HIDE DEF t
<1>7. n.txn = t
  OBVIOUS
<1> QED BY <1>3, <1>6, <1>7

\* An event more, a transaction more in the network, or an event less.
LEMMA EventosMas ==
    ASSUME NEW ev, NEW m, EventosDe(ev, m), NEW m2, m \subseteq m2
    PROVE  /\ EventosDe(ev, m2)
           /\ ev # << >> => EventosDe(Tail(ev), m2)
           /\ \A e : (e.tipo = "txn" => e.txn \in m2) => EventosDe(Append(ev, e), m2)
<1>1. PICK S : ev \in Seq(S) /\ \A x \in S : x.tipo = "txn" => x.txn \in m
  BY DEF EventosDe
<1>2. ASSUME NEW e, e.tipo = "txn" => e.txn \in m2 PROVE EventosDe(Append(ev, e), m2)
  <2>1. ev \in Seq(S \cup {e})
    BY <1>1
  <2>2. Append(ev, e) \in Seq(S \cup {e})
    BY <2>1
  <2>3. \A x \in S \cup {e} : x.tipo = "txn" => x.txn \in m2
    BY <1>1, <1>2
  <2> QED BY <2>2, <2>3 DEF EventosDe
<1>3. \A x \in S : x.tipo = "txn" => x.txn \in m2
  BY <1>1
<1>4. ASSUME ev # << >> PROVE EventosDe(Tail(ev), m2)
  <2>1. Tail(ev) \in Seq(S)
    BY <1>1, <1>4
  <2> QED BY <1>3, <2>1 DEF EventosDe
<1> QED BY <1>1, <1>2, <1>3, <1>4 DEF EventosDe

\* An empty channel.
LEMMA SinEventos == ASSUME NEW m PROVE EventosDe(<< >>, m)
<1>1. PICK S : S = {}
  OBVIOUS
<1>2. << >> \in Seq(S)
  OBVIOUS
<1> QED BY <1>1, <1>2 DEF EventosDe

\* A finite set with one more.
LEMMA UnaMas ==
    ASSUME NEW m, IsFiniteSet(m), NEW t
    PROVE  IsFiniteSet(m \cup {t})
  BY FS_AddElement

\* Every step keeps the types of the network.
LEMMA RedTipadaNext ==
    ASSUME FormaInv, CadenaInv, RedTipada, CuentasTipadas, [Next]_vars
    PROVE  RedTipada'
<1>r. /\ IsFiniteSet(mempool) /\ IsFiniteSet(Todas(bloques))
      /\ \A t \in mempool \cup Todas(bloques) : Contable(t)
      /\ EventosDe(eventos, mempool)
  BY DEF RedTipada
<1>a. \A t \in Ajenas : Contable(t)
  BY WalletAssumption DEF Contable
<1>1. CASE LlegaBloque
  <2>1. PICK b \in BloquesPosibles : bloques' = Append(bloques, b)
    BY <1>1 DEF LlegaBloque
  <2>2. UNCHANGED <<mempool, eventos>>
    BY <1>1 DEF LlegaBloque
  <2>3. b \subseteq mempool \cup Ajenas
    BY <2>1, BloqueNuevo DEF CadenaInv
  <2>4. Todas(bloques') = Todas(bloques) \cup b
    <3>1. EsSecuencia(bloques) /\ 0 \in 0..Len(bloques)
      BY DEF CadenaInv, RedInv, EsSecuencia
    <3> QED BY <2>1, <3>1, CadenaCrece
  <2>5. IsFiniteSet(Todas(bloques'))
    <3>1. IsFiniteSet(Ajenas)
      BY WalletAssumption
    <3>2. IsFiniteSet(mempool \cup Ajenas)
      BY <1>r, <3>1, FS_Union
    <3>3. IsFiniteSet(b)
      BY <2>3, <3>2, FS_Subset
    <3> QED BY <1>r, <2>4, <3>3, FS_Union
  <2>6. \A t \in mempool' \cup Todas(bloques') : Contable(t)
    BY <1>r, <1>a, <2>2, <2>3, <2>4
  <2> QED BY <1>r, <2>2, <2>5, <2>6 DEF RedTipada
<1>2. CASE EnviarBloque
  <2>1. PICK b : eventos' = Append(eventos, [tipo |-> "bloque", bloque |-> b])
    BY <1>2 DEF EnviarBloque
  <2>2. UNCHANGED <<mempool, bloques>>
    BY <1>2 DEF EnviarBloque
  <2>3. EventosDe(eventos', mempool)
    BY <1>r, <2>1, EventosMas
  <2> QED BY <1>r, <2>2, <2>3 DEF RedTipada
<1>3. CASE LlegaTxn
  <2>1. PICK t \in Ajenas : mempool' = mempool \cup {t} /\ eventos' = Append(eventos, [tipo |-> "txn", txn |-> t])
    BY <1>3 DEF LlegaTxn
  <2>2. UNCHANGED bloques
    BY <1>3 DEF LlegaTxn
  <2>3. EventosDe(eventos', mempool')
    BY <1>r, <2>1, EventosMas
  <2>4. IsFiniteSet(mempool')
    BY <1>r, <2>1, UnaMas
  <2>5. \A u \in mempool' \cup Todas(bloques') : Contable(u)
    BY <1>r, <1>a, <2>1, <2>2
  <2> QED BY <1>r, <2>2, <2>3, <2>4, <2>5 DEF RedTipada
<1>4. CASE Transmitir
  <2>1. PICK n : mempool' = mempool \cup {n.txn} /\ Contable(n.txn)
    BY <1>4, TransferenciaTipada
  <2>2. UNCHANGED <<bloques, eventos>>
    BY <1>4 DEF Transmitir
  <2>3. EventosDe(eventos', mempool')
    BY <1>r, <2>1, <2>2, EventosMas
  <2>4. IsFiniteSet(mempool')
    BY <1>r, <2>1, UnaMas
  <2>5. \A u \in mempool' \cup Todas(bloques') : Contable(u)
    BY <1>r, <2>1, <2>2
  <2> QED BY <1>r, <2>2, <2>3, <2>4, <2>5 DEF RedTipada
<1>5. CASE RecibirTxn \/ RecibirBloque
  <2>1. UNCHANGED <<bloques, mempool>> /\ eventos # << >> /\ eventos' = Tail(eventos)
    BY <1>5 DEF RecibirTxn, RecibirBloque, red
  <2>2. EventosDe(eventos', mempool)
    BY <1>r, <2>1, EventosMas
  <2> QED BY <1>r, <2>1, <2>2 DEF RedTipada
<1>6. CASE Caer \/ CargarRoto
  <2>1. UNCHANGED <<bloques, mempool>> /\ eventos' = << >>
    BY <1>6 DEF Caer, CargarRoto, Terminar
  <2>2. EventosDe(eventos', mempool)
    BY <2>1, SinEventos
  <2> QED BY <1>r, <2>1, <2>2 DEF RedTipada
<1>7. CASE \/ AbrirDirectorio \/ LeerInputs \/ LeerOutputs \/ Cargar \/ AgregarWallet \/ CargarWallet
           \/ AnotarTransferencia \/ Escribir \/ FallaApertura \/ FallaEscritura \/ Reiniciar
           \/ UNCHANGED vars
  <2>1. UNCHANGED <<bloques, mempool, eventos>>
    BY <1>7 DEF AbrirDirectorio, LeerInputs, LeerOutputs, Cargar, AgregarWallet, CargarWallet,
           AnotarTransferencia, Escribir, FallaApertura, FallaEscritura, Reiniciar, vars, red
  <2> QED BY <1>r, <2>1 DEF RedTipada
<1> QED BY <1>1, <1>2, <1>3, <1>4, <1>5, <1>6, <1>7 DEF Next

\* The accounts of no process, and no file.
LEMMA TipadaVacia == ASSUME NEW m, NEW us PROVE Tipada(<< >>, m, us) /\ ArchivoTipado(<< >>, m)
  BY DEF Tipada, ArchivoTipado

\* What is saved of the accounts.
LEMMA VolcadoTipado ==
    ASSUME NEW cs, NEW m, NEW us, Tipada(cs, m, us), NEW s \in SUBSET DOMAIN cs
    PROVE  ArchivoTipado([c \in s |-> Listas(cs[c])], m)
<1>1. \A c \in s : Conocida(Listas(cs[c]), m)
  BY DEF Tipada, Conocida, Listas
<1> QED BY <1>1 DEF Tipada, ArchivoTipado

\* What a save that stops leaves on disk.
LEMMA ArchivoAMedias ==
    ASSUME NEW m, NEW us, Tipada(cuentas, m, us), ArchivoTipado(archivo, m), GuardarAMedias
    PROVE  ArchivoTipado(archivo', m)
<1>1. CASE UNCHANGED disco
  BY <1>1 DEF disco
<1>2. CASE \E s \in SUBSET DOMAIN cuentas : archivo' = [c \in s |-> Listas(cuentas[c])]
  BY <1>2, VolcadoTipado
<1> QED BY <1>1, <1>2 DEF GuardarAMedias

\* Every step keeps the types of the accounts and of the file.
LEMMA CuentasTipadasNext ==
    ASSUME FormaInv, CadenaInv, CadenaInv', RedTipada, CuentasTipadas, [Next]_vars
    PROVE  CuentasTipadas'
<1> DEFINE m == mempool
           us == Salidas(Todas(bloques))
<1>r. IsFiniteSet(m) /\ EventosDe(eventos, m)
  BY DEF RedTipada
<1>c. /\ Tipada(cuentas, m, us) /\ Tipada(previas, m, us) /\ ArchivoTipado(archivo, m)
      /\ nueva = {} \/ \E n : nueva = {n} /\ n.txn \in m /\ Gasto(n.txn) \in Nat
  BY DEF CuentasTipadas
<1>u. utxos \subseteq us
  BY UtxosDeLaCadena
<1>1. CASE LlegaBloque
  <2>1. PICK b : bloques' = Append(bloques, b)
    BY <1>1 DEF LlegaBloque
  <2>2. UNCHANGED <<mempool, cuentas, previas, archivo, nueva>>
    BY <1>1 DEF LlegaBloque, disco
  <2>3. us \subseteq Salidas(Todas(bloques'))
    <3>1. EsSecuencia(bloques) /\ 0 \in 0..Len(bloques)
      BY DEF CadenaInv, RedInv, EsSecuencia
    <3>2. Todas(Append(bloques, b)) = Todas(bloques) \cup b
      BY <3>1, CadenaCrece
    <3> QED BY <2>1, <3>2, EntradasUnion
  <2> DEFINE u2 == Salidas(Todas(bloques'))
  <2> HIDE DEF us, u2
  <2>4. Tipada(cuentas, m, u2) /\ Tipada(previas, m, u2)
    <3>1. us \subseteq u2
      BY <2>3 DEF u2
    <3> QED BY <1>c, <3>1, TipadaCrece
  <2> QED BY <1>c, <2>2, <2>4 DEF CuentasTipadas, u2
<1>2. CASE LlegaTxn \/ Transmitir
  <2>1. UNCHANGED <<bloques, cuentas, previas, archivo>> /\ m \subseteq mempool'
    BY <1>2 DEF LlegaTxn, Transmitir, disco
  <2>2. nueva' = {} \/ \E n : nueva' = {n} /\ n.txn \in mempool' /\ Gasto(n.txn) \in Nat
    <3>1. CASE LlegaTxn
      BY <1>c, <2>1, <3>1 DEF LlegaTxn
    <3>2. CASE Transmitir
      <4>1. PICK n : nueva' = {n} /\ mempool' = mempool \cup {n.txn} /\ Gasto(n.txn) \in Nat
        BY <3>2, TransferenciaTipada
      <4> QED BY <4>1
    <3> QED BY <1>2, <3>1, <3>2
  <2>3. Tipada(cuentas, mempool', us) /\ Tipada(previas, mempool', us) /\ ArchivoTipado(archivo, mempool')
    <3> DEFINE m2 == mempool'
    <3>1. m \subseteq m2
      BY <2>1
    <3> HIDE DEF m, m2, us
    <3>2. Tipada(cuentas, m2, us) /\ Tipada(previas, m2, us) /\ ArchivoTipado(archivo, m2)
      BY <1>c, <3>1, TipadaCrece, ArchivoTipadoCrece
    <3> QED BY <3>2 DEF m2
  <2> QED BY <2>1, <2>2, <2>3 DEF CuentasTipadas
<1>3. CASE ~(LlegaBloque \/ LlegaTxn \/ Transmitir)
  <2>b. UNCHANGED <<bloques, mempool>>
    BY <1>3 DEF Next, vars, red, EnviarBloque, AbrirDirectorio, LeerInputs, LeerOutputs, Cargar, CargarRoto,
           AgregarWallet, CargarWallet, AnotarTransferencia, RecibirTxn, RecibirBloque, Escribir,
           FallaApertura, FallaEscritura, Caer, Reiniciar
  <2>v. utxos' \subseteq us
    <3>1. utxos' \subseteq Salidas(Todas(bloques'))
      <4>1. CASE ~ConUtxos'
        BY <4>1 DEF CadenaInv, InicioInv
      <4>2. CASE ConUtxos'
        BY <4>2 DEF CadenaInv, ColaInv, Progreso, AlDia
      <4> QED BY <4>1, <4>2
    <3> QED BY <2>b, <3>1
  <2> HIDE DEF m, us
  <2> SUFFICES /\ Tipada(cuentas', m, us) /\ Tipada(previas', m, us) /\ ArchivoTipado(archivo', m)
               /\ nueva' = nueva \/ nueva' = {}
    BY <1>c, <2>b DEF CuentasTipadas, m, us
  <2>1. CASE EnviarBloque \/ AbrirDirectorio \/ LeerInputs \/ LeerOutputs \/ Reiniciar \/ UNCHANGED vars
    <3>1. UNCHANGED <<cuentas, previas, archivo, nueva>>
      BY <2>1 DEF EnviarBloque, AbrirDirectorio, LeerInputs, LeerOutputs, Reiniciar, vars, disco
    <3> QED BY <1>c, <3>1
  <2>2. CASE Cargar
    <3>1. cuentas' = [c \in DOMAIN archivo |-> Cuenta(c, utxos, archivo[c])] /\ UNCHANGED <<previas, archivo, nueva>>
      BY <2>2 DEF Cargar, disco
    <3>2. \A c \in DOMAIN archivo : Conocida(archivo[c], m)
      BY <1>c DEF ArchivoTipado
    <3>3. \A c \in DOMAIN archivo :
             LET y == Cuenta(c, utxos, archivo[c])
             IN  Conocida(y, m) /\ y.pendiente \in Nat /\ y.utxos \subseteq us
      BY <1>u, <3>2, CuentaTipada
    <3>4. Tipada(cuentas', m, us)
      BY <1>c, <3>1, <3>3 DEF Tipada, ArchivoTipado
    <3> QED BY <1>c, <3>1, <3>4
  <2>3. CASE AgregarWallet
    <3>1. PICK c \in Direcciones :
             /\ cuentas' = [d \in DOMAIN cuentas \cup {c} |->
                               IF d = c THEN Cuenta(c, utxos, SinTxns) ELSE cuentas[d]]
             /\ previas' = cuentas' /\ UNCHANGED <<archivo, nueva>>
      BY <2>3 DEF AgregarWallet, CambiarYGuardar, disco
    <3> DEFINE y == Cuenta(c, utxos, SinTxns)
    <3>2. Conocida(y, m) /\ y.pendiente \in Nat /\ y.utxos \subseteq us
      BY <1>u, CuentaTipada, SinTxnsTipada
    <3> HIDE DEF y
    <3>3. cuentas' = [d \in DOMAIN cuentas \cup {c} |-> IF d = c THEN y ELSE cuentas[d]]
      BY <3>1 DEF y
    <3>4. Tipada(cuentas', m, us)
      BY <1>c, <3>2, <3>3 DEF Tipada
    <3> QED BY <1>c, <3>1, <3>4
  <2>4. CASE CargarWallet
    <3>1. UNCHANGED <<previas, archivo, nueva>>
      BY <2>4 DEF CargarWallet, disco
    <3>2. Tipada(cuentas', m, us)
      BY <1>c, <1>r, <1>u, <2>4, TipadaTrasCargarWallet
    <3> QED BY <1>c, <3>1, <3>2
  <2>5. CASE AnotarTransferencia
    <3>1. UNCHANGED archivo /\ nueva' = {}
      BY <2>5 DEF AnotarTransferencia, disco
    <3>2. Tipada(cuentas', m, us) /\ Tipada(previas', m, us)
      <4>1. \A n \in nueva : n.txn \in m /\ Gasto(n.txn) \in Nat
        BY <1>c
      <4> QED BY <1>c, <1>r, <2>5, <4>1, TipadaTrasTransferir
    <3> QED BY <1>c, <3>1, <3>2
  <2>6. CASE RecibirTxn
    <3>1. UNCHANGED <<archivo, nueva>>
      BY <2>6 DEF RecibirTxn, disco
    <3> QED BY <1>c, <1>r, <2>6, <3>1, TipadaTrasTxn
  <2>7. CASE RecibirBloque
    <3>1. UNCHANGED <<archivo, nueva>>
      BY <2>7 DEF RecibirBloque, disco
    <3> QED BY <1>c, <1>r, <2>7, <2>v, <3>1, TipadaTrasBloque
  <2>8. CASE Escribir
    <3>1. archivo' = [c \in DOMAIN cuentas |-> Listas(cuentas[c])] /\ previas' = << >> /\ UNCHANGED <<cuentas, nueva>>
      BY <2>8 DEF Escribir, Volcado
    <3>2. ArchivoTipado(archivo', m)
      BY <1>c, <3>1, VolcadoTipado
    <3> QED BY <1>c, <3>1, <3>2, TipadaVacia
  <2>9. CASE FallaApertura
    BY <1>c, <2>9, TipadaVacia DEF FallaApertura
  <2>10. CASE FallaEscritura
    <3>1. ArchivoTipado(archivo', m)
      BY <1>c, <2>10, ArchivoAMedias DEF FallaEscritura
    <3> QED BY <1>c, <2>10, <3>1, TipadaVacia DEF FallaEscritura
  <2>11. CASE Caer \/ CargarRoto
    <3>1. ArchivoTipado(archivo', m)
      BY <1>c, <2>11, ArchivoAMedias DEF Caer, CargarRoto, disco
    <3>2. cuentas' = << >> /\ previas' = << >> /\ nueva' = {}
      BY <2>11 DEF Caer, CargarRoto, Terminar
    <3> QED BY <3>1, <3>2, TipadaVacia
  <2> QED BY <1>3, <2>1, <2>2, <2>3, <2>4, <2>5, <2>6, <2>7, <2>8, <2>9, <2>10, <2>11 DEF Next
<1> QED BY <1>1, <1>2, <1>3

TipoInv == RedTipada /\ CuentasTipadas /\ CuentasDelLimite

\* The chain at the beginning is finite.
LEMMA BaseFinita == IsFiniteSet(Todas(Base)) /\ \A t \in Todas(Base) : Contable(t)
<1>1. EsSecuencia(Base) /\ Len(Base) \in Nat /\ 0 \in 0..Len(Base) /\ DOMAIN Base = 1..Len(Base)
  BY BaseEsSecuencia DEF EsSecuencia
<1>2. Todas(Base) = UNION Rango(Base)
  BY <1>1, HastaSigue
<1>3. IsFiniteSet(UNION Rango(Base))
  <2>1. IsFiniteSet(Rango(Base))
    <3>1. IsFiniteSet(DOMAIN Base)
      BY <1>1, FS_Interval
    <3> QED BY <3>1, ImagenFinita DEF Rango
  <2>2. \A b \in Rango(Base) : IsFiniteSet(b)
    BY WalletAssumption DEF Rango
  <2> QED BY <2>1, <2>2, FS_UNION
<1>4. \A t \in UNION Rango(Base) : Contable(t)
  <2>1. \A t \in Ajenas \cup UNION Rango(Base) :
          IsFiniteSet(DOMAIN t.sal) /\ \A n \in DOMAIN t.sal : t.sal[n].monto \in Nat
    BY WalletAssumption
  <2> QED BY <2>1 DEF Contable
<1> QED BY <1>2, <1>3, <1>4

\* The types at the beginning.
LEMMA TipoInvInit == Init => TipoInv
<1> SUFFICES ASSUME Init PROVE TipoInv
  OBVIOUS
<1>1. RedTipada
  <2>1. bloques = Base /\ mempool = {} /\ eventos = << >>
    BY DEF Init
  <2>2. IsFiniteSet({})
    BY FS_EmptySet
  <2> QED BY <2>1, <2>2, BaseFinita, SinEventos DEF RedTipada
<1>2. CuentasTipadas
  <2>1. cuentas = << >> /\ previas = << >> /\ nueva = {} /\ archivo = [c \in Iniciales |-> SinTxns]
    BY DEF Init
  <2>2. ArchivoTipado(archivo, mempool)
    BY <2>1, SinTxnsTipada, WalletAssumption DEF ArchivoTipado
  <2> QED BY <2>1, <2>2, TipadaVacia DEF CuentasTipadas
<1>3. CuentasDelLimite
  <2>1. roto = FALSE /\ fallo = FALSE /\ percances = 0 /\ hechas = 0
    BY DEF Init
  <2>2. percances \in 0..MaxPercances /\ hechas \in 0..MaxTransferencias
    BY <2>1, WalletAssumption
  <2> QED BY <2>1, <2>2 DEF CuentasDelLimite
<1> QED BY <1>1, <1>2, <1>3 DEF TipoInv

\* The flags and the counters of the bounds.
LEMMA LimiteNext == CuentasDelLimite /\ [Next]_vars => CuentasDelLimite'
<1> SUFFICES ASSUME CuentasDelLimite, [Next]_vars PROVE CuentasDelLimite'
  OBVIOUS
<1>a. MaxPercances \in Nat /\ MaxTransferencias \in Nat
  BY WalletAssumption
<1>c. /\ roto \in BOOLEAN /\ fallo \in BOOLEAN
      /\ percances \in 0..MaxPercances /\ hechas \in 0..MaxTransferencias
  BY DEF CuentasDelLimite
<1>1. CASE \/ LlegaBloque \/ EnviarBloque \/ LlegaTxn \/ AbrirDirectorio \/ LeerInputs \/ LeerOutputs \/ Cargar
           \/ AgregarWallet \/ CargarWallet \/ AnotarTransferencia \/ RecibirTxn \/ RecibirBloque \/ Reiniciar
           \/ UNCHANGED vars
  <2>1. UNCHANGED <<disco, cuentaBound>>
    BY <1>1 DEF LlegaBloque, EnviarBloque, LlegaTxn, AbrirDirectorio, LeerInputs, LeerOutputs, Cargar,
           AgregarWallet, CargarWallet, AnotarTransferencia, RecibirTxn, RecibirBloque, Reiniciar, vars
  <2>2. roto' = roto /\ fallo' = fallo /\ percances' = percances /\ hechas' = hechas
    BY <2>1 DEF disco, cuentaBound
  <2> QED BY <1>c, <2>2 DEF CuentasDelLimite
<1>2. CASE Transmitir
  <2>1. roto' = roto /\ fallo' = fallo /\ percances' = percances /\ hechas' = hechas + 1 /\ hechas < MaxTransferencias
    BY <1>2 DEF Transmitir, disco
  <2>2. hechas' \in 0..MaxTransferencias
    BY <1>a, <1>c, <2>1
  <2> QED BY <1>c, <2>1, <2>2 DEF CuentasDelLimite
<1>3. CASE Escribir \/ CargarRoto
  <2>1. roto' \in BOOLEAN /\ fallo' \in BOOLEAN /\ percances' = percances /\ hechas' = hechas
    BY <1>c, <1>3 DEF Escribir, CargarRoto, Terminar, disco, cuentaBound
  <2> QED BY <1>c, <2>1 DEF CuentasDelLimite
<1>4. CASE FallaApertura \/ FallaEscritura \/ Caer
  <2>1. percances < MaxPercances /\ percances' = percances + 1 /\ hechas' = hechas
    BY <1>4 DEF FallaApertura, FallaEscritura, Caer, Percance
  <2>2. roto' \in BOOLEAN
    BY <1>c, <1>4 DEF FallaApertura, FallaEscritura, Caer, GuardarAMedias, disco
  <2>3. fallo' \in BOOLEAN
    BY <1>4 DEF FallaApertura, FallaEscritura, Caer, Terminar
  <2>4. percances' \in 0..MaxPercances
    BY <1>a, <1>c, <2>1
  <2> QED BY <1>c, <2>1, <2>2, <2>3, <2>4 DEF CuentasDelLimite
<1> QED BY <1>1, <1>2, <1>3, <1>4 DEF Next

\* The three invariants together.
LEMMA TipoSiempre == Spec => [](FormaInv /\ CadenaInv /\ TipoInv)
<1>1. FormaInv /\ CadenaInv /\ CadenaInv' /\ TipoInv /\ [Next]_vars => TipoInv'
  BY RedTipadaNext, CuentasTipadasNext, LimiteNext DEF TipoInv
<1> QED BY <1>1, TipoInvInit, FormaSiempre, CadenaSiempre, PTL DEF Spec

\* A bag of the proofs is one of the module Bags.
LEMMA BolsaEsBolsa ==
    ASSUME NEW l, Bolsa(l), DOMAIN l \subseteq mempool
    PROVE  EsBolsa(l)
<1>1. l \in [DOMAIN l -> {n \in Nat : n > 0}]
  BY DEF Bolsa
<1> QED BY <1>1 DEF EsBolsa, IsABag, BagToSet

\* The invariants give the types.
LEMMA TipoInvTypeOK == FormaInv /\ CadenaInv /\ TipoInv => TypeOK
<1> SUFFICES ASSUME FormaInv, CadenaInv, TipoInv PROVE TypeOK
  OBVIOUS
<1>1. PICK f : Cola(f, eventos, bloques, porEnviar) /\ Progreso(f[0])
  BY DEF CadenaInv, ColaInv
<1>2. EsSecuencia(bloques) /\ EsSecuencia(eventos) /\ Len(bloques) \in Nat /\ Len(Base) \in Nat /\ DOMAIN bloques = 1..Len(bloques)
  BY <1>1, DondeEstaLaCola DEF EsSecuencia
<1>3. Todas(bloques) = UNION Rango(bloques)
  BY <1>2, HastaSigue
<1>4. pc \in Pasos /\ leidos \in 0..Len(bloques)
  BY DEF CadenaInv, InicioInv
<1>5. Cardinality(porEnviar) <= 1 /\ porEnviar \subseteq Rango(bloques)
  <2>1. CASE porEnviar = {}
    BY <2>1, FS_EmptySet
  <2>2. CASE porEnviar # {}
    <3>1. porEnviar = {bloques[Len(bloques)]} /\ f[Len(eventos)] = Len(bloques) - 1
      BY <1>1, <2>2 DEF Cola
    <3>2. Len(eventos) \in Nat
      BY <1>2 DEF EsSecuencia
    <3>3. f[Len(eventos)] \in Len(Base)..Len(bloques)
      BY <1>1, <3>2 DEF Cola
    <3>4. Len(bloques) \in DOMAIN bloques
      BY <1>2, <3>1, <3>3
    <3>5. bloques[Len(bloques)] \in Rango(bloques)
      BY <3>4 DEF Rango
    <3>6. Cardinality(porEnviar) = 1
      BY <3>1, FS_Singleton
    <3> QED BY <3>1, <3>5, <3>6
  <2> QED BY <2>1, <2>2
<1>6. Cardinality(nueva) <= 1
  <2>1. nueva = {} \/ \E n : nueva = {n}
    BY DEF TipoInv, CuentasTipadas
  <2>2. CASE nueva = {}
    BY <2>2, FS_EmptySet
  <2>3. CASE \E n : nueva = {n}
    <3>1. Cardinality(nueva) = 1
      BY <2>3, FS_Singleton
    <3> QED BY <3>1
  <2> QED BY <2>1, <2>2, <2>3
<1>7. inputs \subseteq Entradas(Todas(bloques))
  BY <1>1 DEF CadenaInv, InicioInv, Progreso
<1>8. utxos \subseteq Salidas(Todas(bloques))
  BY UtxosDeLaCadena
<1>9. Tipada(cuentas, mempool, Salidas(Todas(bloques))) /\ ArchivoTipado(archivo, mempool)
  BY DEF TipoInv, CuentasTipadas
<1>10. ASSUME NEW x, Bolsas(x), Conocida(x, mempool) PROVE TiposListas(x)
  BY <1>10, BolsaEsBolsa DEF Bolsas, Conocida, TiposListas
<1>11. DOMAIN cuentas \subseteq Direcciones /\ DOMAIN archivo \subseteq Direcciones
  BY <1>9 DEF Tipada, ArchivoTipado
<1>12. ASSUME NEW c \in DOMAIN cuentas
       PROVE  /\ cuentas[c].pendiente \in Nat /\ cuentas[c].utxos \subseteq Salidas(Todas(bloques))
              /\ TiposListas(cuentas[c])
  <2>1. Bolsas(cuentas[c])
    BY DEF FormaInv, Forma
  <2> QED BY <1>9, <1>10, <2>1 DEF Tipada
<1>13. ASSUME NEW c \in DOMAIN archivo PROVE TiposListas(archivo[c])
  <2>1. Bolsas(archivo[c])
    BY DEF FormaInv, FormaArchivo
  <2> QED BY <1>9, <1>10, <2>1 DEF ArchivoTipado
<1>14. /\ roto \in BOOLEAN /\ fallo \in BOOLEAN
       /\ percances \in 0..MaxPercances /\ hechas \in 0..MaxTransferencias
  BY DEF TipoInv, CuentasDelLimite
<1> QED BY <1>3, <1>4, <1>5, <1>6, <1>7, <1>8, <1>11, <1>12, <1>13, <1>14 DEF TypeOK

\* Every variable keeps its type: balances are whole numbers, the outputs of the accounts
\* are of the chain, and their lists hold transactions of the network, in memory and on
\* disk, for any chain, accounts and amounts.
THEOREM TipoCorrecto == Spec => []TypeOK
  BY TipoSiempre, TipoInvTypeOK, PTL
-----------------------------------------------------------------------------
(* What is confirmed is noted. *)

\* The transactions announced in a queue, each of them once.
Anunciadas(ev) == {ev[i].txn : i \in {j \in DOMAIN ev : ev[j].tipo = "txn"}}
SinRepetir(ev) == \A i, j \in DOMAIN ev :
    ev[i].tipo = "txn" /\ ev[j].tipo = "txn" /\ ev[i].txn = ev[j].txn => i = j

\* The outputs of an account are its own.
Duenos(cs) == \A c \in DOMAIN cs : \A o \in cs[c].utxos : Dueno(o) = c

\* A payment of others is pending in an account once for each of its outputs to it,
\* and only after its announcement was taken from the queue.
Cobros(cs, a) == \A c \in DOMAIN cs : \A t \in DOMAIN cs[c].receiving :
    t \in Ajenas => t \notin a /\ cs[c].receiving[t] <= CantSalidas(t, c)

\* What a block that was processed leaves in the lists.
Anotadas(cs, v) == \A c \in DOMAIN cs : \A t \in v :
    /\ CantSalidas(t, c) > 0 /\ t \in DOMAIN cs[c].sending => t \in DOMAIN cs[c].sent
    /\ t \in Ajenas => t \notin DOMAIN cs[c].receiving

CobroInv ==
    /\ Duenos(cuentas) /\ Duenos(previas) /\ SinRepetir(eventos)
    /\ LET a == Anunciadas(eventos)
       IN  Cobros(cuentas, a) /\ Cobros(previas, a) /\ Cobros(archivo, a)
    /\ nueva # {} => pc = "transmitida"
    /\ \A n \in nueva : n.txn \notin Ajenas

VistasInv == ~fallo => (\A n \in nueva : n.txn \notin vistas) /\ Anotadas(cuentas, vistas)

\* The queue, when an event is taken from it.
LEMMA AnunciadasSinLaPrimera ==
    ASSUME NEW ev, EsSecuencia(ev), ev # << >>, SinRepetir(ev)
    PROVE  /\ SinRepetir(Tail(ev)) /\ Anunciadas(Tail(ev)) \subseteq Anunciadas(ev)
           /\ Head(ev).tipo = "txn" => Head(ev).txn \notin Anunciadas(Tail(ev))
<1> DEFINE d == Tail(ev)
           n == Len(ev)
<1>1. n \in Nat /\ n > 0 /\ DOMAIN ev = 1..n /\ Head(ev) = ev[1]
  BY DEF EsSecuencia
<1>2. DOMAIN d = 1..n - 1 /\ \A i \in 1..n - 1 : d[i] = ev[i + 1] /\ i + 1 \in 1..n
  BY <1>1 DEF EsSecuencia
<1> HIDE DEF d, n
<1>3. SinRepetir(d)
  <2> SUFFICES ASSUME NEW i \in DOMAIN d, NEW j \in DOMAIN d,
                      d[i].tipo = "txn", d[j].tipo = "txn", d[i].txn = d[j].txn
               PROVE  i = j
    BY DEF SinRepetir
  <2>1. i \in Int /\ j \in Int /\ i + 1 \in 1..n /\ j + 1 \in 1..n /\ d[i] = ev[i + 1] /\ d[j] = ev[j + 1]
    BY <1>1, <1>2
  <2>2. i + 1 = j + 1
    BY <1>1, <2>1 DEF SinRepetir
  <2> QED BY <2>1, <2>2
<1>4. Anunciadas(d) \subseteq Anunciadas(ev)
  BY <1>1, <1>2 DEF Anunciadas
<1>5. ASSUME ev[1].tipo = "txn", ev[1].txn \in Anunciadas(d) PROVE FALSE
  <2>1. PICK i \in 1..n - 1 : d[i].tipo = "txn" /\ d[i].txn = ev[1].txn
    BY <1>2, <1>5 DEF Anunciadas
  <2>2. d[i] = ev[i + 1] /\ i + 1 \in 1..n /\ i + 1 # 1 /\ 1 \in 1..n
    BY <1>1, <1>2
  <2> QED BY <1>1, <1>5, <2>1, <2>2 DEF SinRepetir
<1> QED BY <1>1, <1>3, <1>4, <1>5 DEF d

\* The queue, when an event arrives.
LEMMA AnunciadasConOtra ==
    ASSUME NEW ev, EsSecuencia(ev), SinRepetir(ev), NEW e, e.tipo = "txn" => e.txn \notin Anunciadas(ev)
    PROVE  /\ SinRepetir(Append(ev, e))
           /\ Anunciadas(Append(ev, e)) \subseteq
                 Anunciadas(ev) \cup (IF e.tipo = "txn" THEN {e.txn} ELSE {})
<1> DEFINE d == Append(ev, e)
           n == Len(ev)
<1>1. n \in Nat /\ DOMAIN ev = 1..n /\ 0 \in 0..n
  BY DEF EsSecuencia
<1>2. Len(d) = n + 1 /\ EsSecuencia(d) /\ d[n + 1] = e /\ \A i \in 1..n : d[i] = ev[i]
  BY <1>1, CadenaCrece
<1>3. DOMAIN d = 1..n + 1
  BY <1>2 DEF EsSecuencia
<1> HIDE DEF d, n
<1>4. \A i \in 1..n + 1 : i = n + 1 \/ i \in 1..n
  BY <1>1
<1>5. \A i \in 1..n : ev[i].tipo = "txn" => ev[i].txn \in Anunciadas(ev)
  BY <1>1 DEF Anunciadas
<1>6. SinRepetir(d)
  <2> SUFFICES ASSUME NEW i \in 1..n + 1, NEW j \in 1..n + 1,
                      d[i].tipo = "txn", d[j].tipo = "txn", d[i].txn = d[j].txn
               PROVE  i = j
    BY <1>3 DEF SinRepetir
  <2>1. CASE i = n + 1 /\ j = n + 1
    BY <2>1
  <2>2. CASE i \in 1..n /\ j \in 1..n
    BY <1>1, <1>2, <2>2 DEF SinRepetir
  <2>3. CASE i = n + 1 /\ j \in 1..n
    BY <1>2, <1>5, <2>3
  <2>4. CASE i \in 1..n /\ j = n + 1
    BY <1>2, <1>5, <2>4
  <2> QED BY <1>4, <2>1, <2>2, <2>3, <2>4
<1>7. ASSUME NEW t \in Anunciadas(d) PROVE t \in Anunciadas(ev) \/ (e.tipo = "txn" /\ t = e.txn)
  <2>1. PICK i \in 1..n + 1 : d[i].tipo = "txn" /\ t = d[i].txn
    BY <1>3 DEF Anunciadas
  <2> QED BY <1>2, <1>4, <1>5, <2>1
<1> QED BY <1>6, <1>7 DEF d

\* What is announced is of others and of the network.
LEMMA AnunciadasConocidas ==
    ASSUME FormaInv, NEW m, EventosDe(eventos, m)
    PROVE  /\ EsSecuencia(eventos) /\ Anunciadas(eventos) \subseteq Ajenas \cap m
           /\ eventos # << >> /\ Head(eventos).tipo = "txn" => Head(eventos).txn \in Anunciadas(eventos)
<1>1. PICK S : eventos \in Seq(S) /\ \A e \in S : e.tipo = "txn" => e.txn \in Ajenas
  BY DEF FormaInv
<1>2. PICK S2 : eventos \in Seq(S2) /\ \A e \in S2 : e.tipo = "txn" => e.txn \in m
  BY DEF EventosDe
<1>3. \A i \in DOMAIN eventos : eventos[i] \in S /\ eventos[i] \in S2
  BY <1>1, <1>2
<1>4. Anunciadas(eventos) \subseteq Ajenas \cap m
  BY <1>1, <1>2, <1>3 DEF Anunciadas
<1>5. eventos # << >> => Head(eventos) = eventos[1] /\ 1 \in DOMAIN eventos
  BY <1>1
<1> QED BY <1>4, <1>5, EventosSonSecuencia DEF Anunciadas

\* The outputs of a transaction of others are counted.
LEMMA AjenasContadas == ASSUME NEW t \in Ajenas, NEW c PROVE CantSalidas(t, c) \in Nat
  BY WalletAssumption, SalidasContadas

\* With fewer announcements in the queue the lists are as good.
LEMMA CobrosMenos ==
    ASSUME NEW cs, NEW a, Cobros(cs, a), NEW a2, a2 \cap Ajenas \subseteq a
    PROVE  Cobros(cs, a2)
  BY DEF Cobros

\* The outputs of an address are its own.
LEMMA DuenosPropios == ASSUME NEW us, NEW c PROVE \A o \in Propios(us, c) : Dueno(o) = c
  BY DEF Propios

\* A payment of others is taken from the queue.
LEMMA CobrosTrasTxn ==
    ASSUME FormaInv, RecibirTxn, NEW a, NEW a2, a2 \subseteq a, Head(eventos).txn \in a \ a2,
           Cobros(cuentas, a), Cobros(previas, a), Duenos(cuentas), Duenos(previas)
    PROVE  Cobros(cuentas', a2) /\ Cobros(previas', a2) /\ Duenos(cuentas') /\ Duenos(previas')
<1> DEFINE t == Head(eventos).txn
<1>1. /\ t \in Ajenas /\ DOMAIN cuentas' = DOMAIN cuentas /\ previas' \in {previas, cuentas}
      /\ \A c \in DOMAIN cuentas :
            /\ cuentas'[c].utxos = cuentas[c].utxos
            /\ \/ cuentas'[c].receiving = cuentas[c].receiving
               \/ cuentas'[c].receiving = cuentas[c].receiving (+) [u \in {t} |-> CantSalidas(t, c)]
  BY CamposTrasTxn
<1>2. t \in a /\ t \notin a2
  OBVIOUS
<1> HIDE DEF t
<1>3. ASSUME NEW c \in DOMAIN cuentas, NEW u \in DOMAIN cuentas'[c].receiving, u \in Ajenas
      PROVE  u \notin a2 /\ cuentas'[c].receiving[u] <= CantSalidas(u, c)
  <2> DEFINE r == cuentas[c].receiving
             q == cuentas'[c].receiving
             l == [v \in {t} |-> CantSalidas(t, c)]
  <2>1. \A v \in DOMAIN r : v \in Ajenas => v \notin a /\ r[v] <= CantSalidas(v, c)
    BY DEF Cobros
  <2>2. t \notin DOMAIN r
    BY <1>1, <1>2, <2>1
  <2>3. CASE q = r
    BY <1>3, <2>1, <2>3
  <2>4. CASE q = r (+) l
    <3>1. DOMAIN l = {t} /\ l[t] = CantSalidas(t, c)
      OBVIOUS
    <3>2. Bolsa(r)
      BY DEF FormaInv, Forma, Bolsas
    <3> HIDE DEF r, l
    <3>3. /\ DOMAIN (r (+) l) = DOMAIN r \cup DOMAIN l
          /\ \A v \in DOMAIN r \cup DOMAIN l :
                (r (+) l)[v] = (IF v \in DOMAIN r THEN r[v] ELSE 0) + (IF v \in DOMAIN l THEN l[v] ELSE 0)
      BY DominioSuma, ValorSuma
    <3>4. CantSalidas(u, c) \in Nat
      BY <1>3, AjenasContadas
    <3>5. u \in DOMAIN (r (+) l) /\ (r (+) l)[u] = q[u]
      BY <2>4
    <3>6. CASE u = t
      <4>1. (r (+) l)[u] = 0 + CantSalidas(t, c)
        BY <2>2, <3>1, <3>3, <3>6
      <4> QED BY <1>2, <3>4, <3>5, <3>6, <4>1
    <3>7. CASE u # t
      <4>1. u \in DOMAIN r /\ u \notin DOMAIN l
        BY <3>1, <3>3, <3>5, <3>7
      <4>2. (r (+) l)[u] = r[u] + 0 /\ r[u] \in Nat
        BY <3>2, <3>3, <4>1 DEF Bolsa
      <4> QED BY <1>3, <2>1, <3>4, <3>5, <4>1, <4>2
    <3> QED BY <3>6, <3>7
  <2> QED BY <1>1, <2>3, <2>4
<1>4. Cobros(cuentas', a2)
  BY <1>1, <1>3 DEF Cobros
<1>5. Duenos(cuentas')
  BY <1>1 DEF Duenos
<1>6. Cobros(cuentas, a2) /\ Cobros(previas, a2)
  BY CobrosMenos
<1> QED BY <1>1, <1>4, <1>5, <1>6

\* What a block moves: all the entries of a payment of others.
LEMMA CobroMovido ==
    ASSUME NEW l, Bolsa(l), NEW b, NEW c, NEW t \in b \cap Ajenas, t \in DOMAIN l, l[t] <= CantSalidas(t, c)
    PROVE  t \notin DOMAIN (l (-) Movidas(l, b, c))
<1> DEFINE m == Movidas(l, b, c)
<1>1. CantSalidas(t, c) \in Nat
  BY AjenasContadas
<1>2. l[t] \in Nat /\ l[t] > 0
  BY DEF Bolsa
<1>3. t \in DOMAIN m /\ m[t] = l[t]
  <2>1. CantSalidas(t, c) > 0 /\ ~(CantSalidas(t, c) < l[t])
    BY <1>1, <1>2
  <2> QED BY <2>1 DEF Movidas, BagToSet
<1> HIDE DEF m
<1>4. t \in DOMAIN (l (-) m) => (IF t \in DOMAIN m THEN l[t] - m[t] ELSE l[t]) > 0
  BY ValorResta
<1>5. ~(l[t] - m[t] > 0)
  BY <1>2, <1>3
<1> QED BY <1>3, <1>4, <1>5 DEF m

\* What a block moves: a transfer that has its change in the block.
LEMMA EnvioMovido ==
    ASSUME NEW l, Bolsa(l), NEW b, NEW c, NEW t \in b, t \in DOMAIN l, CantSalidas(t, c) > 0
    PROVE  t \in DOMAIN Movidas(l, b, c)
  BY DEF Movidas, BagToSet

\* The lists after a block.
LEMMA CobrosTrasBloque ==
    ASSUME FormaInv, RecibirBloque, NEW a, Cobros(cuentas, a), Cobros(previas, a), Duenos(cuentas), Duenos(previas)
    PROVE  Cobros(cuentas', a) /\ Cobros(previas', a) /\ Duenos(cuentas') /\ Duenos(previas')
<1> DEFINE b == Head(eventos).bloque
<1>1. /\ DOMAIN cuentas' = DOMAIN cuentas /\ previas' \in {previas, cuentas}
      /\ \A c \in DOMAIN cuentas :
            /\ cuentas'[c].utxos = Propios(utxos', c)
            /\ cuentas'[c].receiving = cuentas[c].receiving (-) Movidas(cuentas[c].receiving, b, c)
  BY CamposTrasBloque
<1> HIDE DEF b
<1>2. ASSUME NEW c \in DOMAIN cuentas, NEW t \in DOMAIN cuentas'[c].receiving, t \in Ajenas
      PROVE  t \notin a /\ cuentas'[c].receiving[t] <= CantSalidas(t, c)
  <2> DEFINE r == cuentas[c].receiving
             q == cuentas'[c].receiving
             m == Movidas(r, b, c)
  <2>1. \A v \in DOMAIN r : v \in Ajenas => v \notin a /\ r[v] <= CantSalidas(v, c)
    BY DEF Cobros
  <2>2. q = r (-) m
    BY <1>1
  <2>3. Bolsa(r)
    BY DEF FormaInv, Forma, Bolsas
  <2>4. Bolsa(m)
    BY <2>3, BolsaMovidas
  <2>5. CantSalidas(t, c) \in Nat
    BY <1>2, AjenasContadas
  <2>6. t \in DOMAIN (r (-) m) /\ q[t] = (r (-) m)[t]
    BY <2>2
  <2> HIDE DEF m, r
  <2>7. t \in DOMAIN r /\ (r (-) m)[t] = IF t \in DOMAIN m THEN r[t] - m[t] ELSE r[t]
    BY <2>6, ValorResta
  <2>8. r[t] \in Nat /\ (t \in DOMAIN m => m[t] \in Nat)
    BY <2>3, <2>4, <2>7 DEF Bolsa
  <2>9. r[t] <= CantSalidas(t, c) /\ t \notin a
    BY <1>2, <2>1, <2>7
  <2>10. (r (-) m)[t] <= CantSalidas(t, c)
    BY <2>5, <2>7, <2>8, <2>9
  <2> QED BY <2>6, <2>9, <2>10
<1>3. Cobros(cuentas', a)
  BY <1>1, <1>2 DEF Cobros
<1>4. Duenos(cuentas')
  BY <1>1, DuenosPropios DEF Duenos
<1> QED BY <1>1, <1>3, <1>4

\* What the new block moves joins what the others did.
LEMMA AnotadasTrasBloque ==
    ASSUME FormaInv, RecibirBloque, NEW a, Cobros(cuentas, a), NEW v, Anotadas(cuentas, v)
    PROVE  Anotadas(cuentas', v \cup Head(eventos).bloque)
<1> DEFINE b == Head(eventos).bloque
<1>1. /\ DOMAIN cuentas' = DOMAIN cuentas
      /\ \A c \in DOMAIN cuentas :
            /\ cuentas'[c].sending = cuentas[c].sending (-) Movidas(cuentas[c].sending, b, c)
            /\ cuentas'[c].sent = cuentas[c].sent (+) Movidas(cuentas[c].sending, b, c)
            /\ cuentas'[c].receiving = cuentas[c].receiving (-) Movidas(cuentas[c].receiving, b, c)
  BY CamposTrasBloque
<1> HIDE DEF b
<1>2. ASSUME NEW c \in DOMAIN cuentas, NEW t \in v \cup b
      PROVE  /\ CantSalidas(t, c) > 0 /\ t \in DOMAIN cuentas'[c].sending => t \in DOMAIN cuentas'[c].sent
             /\ t \in Ajenas => t \notin DOMAIN cuentas'[c].receiving
  <2> DEFINE s == cuentas[c].sending
             r == cuentas[c].receiving
             d == cuentas[c].sent
             envios == Movidas(s, b, c)
             cobros == Movidas(r, b, c)
  <2>1. cuentas'[c].sending = s (-) envios /\ cuentas'[c].sent = d (+) envios /\ cuentas'[c].receiving = r (-) cobros
    BY <1>1
  <2>2. Bolsa(s) /\ Bolsa(r)
    BY DEF FormaInv, Forma, Bolsas
  <2>3. \A u \in v : /\ CantSalidas(u, c) > 0 /\ u \in DOMAIN s => u \in DOMAIN d
                     /\ u \in Ajenas => u \notin DOMAIN r
    BY DEF Anotadas
  <2>4. \A u \in DOMAIN r : u \in Ajenas => r[u] <= CantSalidas(u, c)
    BY DEF Cobros
  <2>5. t \in b /\ t \in DOMAIN s /\ CantSalidas(t, c) > 0 => t \in DOMAIN envios
    BY <2>2, EnvioMovido
  <2>6. t \in b /\ t \in Ajenas /\ t \in DOMAIN r => t \notin DOMAIN (r (-) cobros)
    BY <2>2, <2>4, CobroMovido
  <2> HIDE DEF s, r, d, envios, cobros
  <2>7. DOMAIN (s (-) envios) \subseteq DOMAIN s /\ DOMAIN (r (-) cobros) \subseteq DOMAIN r
        /\ DOMAIN (d (+) envios) = DOMAIN d \cup DOMAIN envios
    BY DominioSuma, DominioResta
  <2> QED BY <2>1, <2>3, <2>5, <2>6, <2>7
<1> QED BY <1>1, <1>2 DEF Anotadas, b

\* A transfer is noted: it is not of others, and is in no processed block.
LEMMA CobrosTrasTransferir ==
    ASSUME FormaInv, AnotarTransferencia, NEW a, Cobros(cuentas, a), Duenos(cuentas),
           \A n \in nueva : n.txn \notin Ajenas,
           NEW v
    PROVE  /\ Cobros(cuentas', a) /\ Cobros(previas', a) /\ Duenos(cuentas') /\ Duenos(previas')
           /\ Anotadas(cuentas, v) /\ (\A n \in nueva : n.txn \notin v) => Anotadas(cuentas', v)
<1>1. PICK n \in nueva :
              LET l == SetToBag({n.txn})
              IN  /\ Bolsa(l) /\ DOMAIN cuentas' = DOMAIN cuentas /\ previas' = cuentas'
                  /\ \A c \in DOMAIN cuentas :
                        LET x == cuentas[c]
                            y == cuentas'[c]
                        IN  /\ y.utxos = x.utxos /\ y.sent = x.sent /\ y.received = x.received
                            /\ \/ y.sending = x.sending /\ y.pendiente = x.pendiente
                               \/ y.sending = x.sending (+) l /\ y.pendiente = Pendiente(x.sending (+) l)
                            /\ y.receiving \in {x.receiving, x.receiving (+) l}
  BY CamposTrasTransferir
<1> DEFINE l == SetToBag({n.txn})
<1>2. DOMAIN l = {n.txn}
  BY DEF SetToBag
<1>3. n.txn \notin Ajenas
  OBVIOUS
<1>4. /\ DOMAIN cuentas' = DOMAIN cuentas /\ previas' = cuentas'
      /\ \A c \in DOMAIN cuentas :
            /\ cuentas'[c].utxos = cuentas[c].utxos /\ cuentas'[c].sent = cuentas[c].sent
            /\ cuentas'[c].sending \in {cuentas[c].sending, cuentas[c].sending (+) l}
            /\ cuentas'[c].receiving \in {cuentas[c].receiving, cuentas[c].receiving (+) l}
  BY <1>1
<1> HIDE DEF l
<1>5. ASSUME NEW c \in DOMAIN cuentas
      PROVE  /\ \A t \in DOMAIN cuentas'[c].receiving : t # n.txn =>
                   t \in DOMAIN cuentas[c].receiving /\ cuentas'[c].receiving[t] = cuentas[c].receiving[t]
             /\ \A t \in DOMAIN cuentas'[c].sending : t # n.txn => t \in DOMAIN cuentas[c].sending
  <2> DEFINE s == cuentas[c].sending
             r == cuentas[c].receiving
  <2>1. Bolsa(r)
    BY DEF FormaInv, Forma, Bolsas
  <2>2. \A t \in DOMAIN r : r[t] \in Nat
    BY <2>1 DEF Bolsa
  <2> HIDE DEF s, r
  <2>3. DOMAIN (s (+) l) = DOMAIN s \cup {n.txn} /\ DOMAIN (r (+) l) = DOMAIN r \cup {n.txn}
    BY <1>2, DominioSuma
  <2>4. \A t \in DOMAIN r : t \notin DOMAIN l => (r (+) l)[t] = r[t] + 0
    BY ValorSuma
  <2>5. \A t \in DOMAIN (r (+) l) : t # n.txn => t \in DOMAIN r /\ (r (+) l)[t] = r[t]
    BY <1>2, <2>2, <2>3, <2>4
  <2> QED BY <1>4, <2>3, <2>5 DEF s, r
<1>6. Cobros(cuentas', a)
  BY <1>3, <1>4, <1>5 DEF Cobros
<1>7. Duenos(cuentas')
  BY <1>4 DEF Duenos
<1>8. ASSUME Anotadas(cuentas, v), \A k \in nueva : k.txn \notin v PROVE Anotadas(cuentas', v)
  <2>1. n.txn \notin v
    BY <1>8
  <2> QED BY <1>4, <1>5, <1>8, <2>1 DEF Anotadas
<1> QED BY <1>4, <1>6, <1>7, <1>8

\* Without accounts there is nothing to note.
LEMMA SinCuentas == ASSUME NEW a, NEW v PROVE Duenos(<< >>) /\ Cobros(<< >>, a) /\ Anotadas(<< >>, v)
  BY DEF Duenos, Cobros, Anotadas

\* What is saved of some of the accounts.
LEMMA CobrosVolcados ==
    ASSUME NEW cs, NEW a, Cobros(cs, a), NEW s \in SUBSET DOMAIN cs
    PROVE  Cobros([c \in s |-> Listas(cs[c])], a)
<1>1. \A c \in s : Listas(cs[c]).receiving = cs[c].receiving
  BY DEF Listas
<1> DEFINE f == [c \in s |-> Listas(cs[c])]
<1>2. DOMAIN f = s /\ \A c \in s : f[c].receiving = cs[c].receiving
  BY <1>1
<1> HIDE DEF f
<1>3. Cobros(f, a)
  BY <1>2 DEF Cobros
<1> QED BY <1>3 DEF f

\* What a save that stops leaves on disk.
LEMMA CobrosAMedias ==
    ASSUME NEW a, Cobros(cuentas, a), Cobros(archivo, a), GuardarAMedias
    PROVE  Cobros(archivo', a)
<1>1. CASE UNCHANGED disco
  BY <1>1 DEF disco
<1>2. CASE \E s \in SUBSET DOMAIN cuentas : archivo' = [c \in s |-> Listas(cuentas[c])]
  BY <1>2, CobrosVolcados
<1> QED BY <1>1, <1>2 DEF GuardarAMedias

\* Others have not the keys of the accounts, and what is spent is spent once.
LEMMA TransferenciaPropia ==
    ASSUME CadenaInv, TipoInv, CobroInv, Transmitir
    PROVE  /\ \A n \in nueva' : n.txn \notin Ajenas
           /\ SaldosAlDia /\ ~fallo => \A n \in nueva' : n.txn \notin vistas
<1>1. PICK c \in DOMAIN cuentas, d \in Destinos, i \in Importes, k \in Costos, hora \in Int :
              \E gastados \in Selecciones(cuentas[c].utxos, i + k) :
              /\ gastados \in (SUBSET cuentas[c].utxos) \ {{}}
              /\ LET t == Transaccion(c, gastados, d, i, k, hora)
                 IN  /\ nueva' = {[de |-> c, a |-> d, importe |-> i, costo |-> k, txn |-> t]}
                     /\ mempool' = mempool \cup {t} /\ t.en = gastados
  BY TransferenciaGasta
<1>2. PICK gastados \in (SUBSET cuentas[c].utxos) \ {{}} :
              LET t == Transaccion(c, gastados, d, i, k, hora)
              IN  /\ nueva' = {[de |-> c, a |-> d, importe |-> i, costo |-> k, txn |-> t]}
                  /\ t.en = gastados
  BY <1>1
<1> DEFINE t == Transaccion(c, gastados, d, i, k, hora)
<1>3. t.en = gastados /\ \A n \in nueva' : n.txn = t
  BY <1>2
<1> HIDE DEF t
<1>4. PICK o \in gastados : o \in cuentas[c].utxos
  BY <1>2
<1>5. t \notin Ajenas
  <2>1. Dueno(o) = c
    BY <1>4 DEF CobroInv, Duenos
  <2>2. c \in Direcciones
    BY DEF TipoInv, CuentasTipadas, Tipada
  <2>3. \A u \in Ajenas : \A p \in u.en : Dueno(p) \notin Direcciones
    BY WalletAssumption
  <2> QED BY <1>3, <1>4, <2>1, <2>2, <2>3
<1>6. ASSUME SaldosAlDia, ~fallo, t \in vistas PROVE FALSE
  <2>1. pc = "espera"
    BY DEF Transmitir
  <2>2. o \in utxos
    <3>1. cuentas[c].utxos = Propios(utxos, c)
      BY <1>6, <2>1 DEF SaldosAlDia, Corriendo
    <3> QED BY <1>4, <3>1 DEF Propios
  <2>3. PICK f : AlDia(utxos, bloques, f[0]) /\ vistas \subseteq Hasta(bloques, f[0])
    BY <2>1 DEF CadenaInv, ColaInv, Progreso, ConUtxos, Corriendo
  <2>4. o \in Entradas(Hasta(bloques, f[0]))
    BY <1>3, <1>4, <1>6, <2>3 DEF Entradas
  <2> QED BY <2>2, <2>3, <2>4 DEF AlDia
<1> QED BY <1>3, <1>5, <1>6

\* Every step keeps the invariant of the payments.
LEMMA CobroInvNext ==
    ASSUME FormaInv, CadenaInv, TipoInv, CobroInv, [Next]_vars
    PROVE  CobroInv'
<1> DEFINE a == Anunciadas(eventos)
           a2 == Anunciadas(eventos')
<1>c. /\ Duenos(cuentas) /\ Duenos(previas) /\ SinRepetir(eventos)
      /\ Cobros(cuentas, a) /\ Cobros(previas, a) /\ Cobros(archivo, a)
      /\ nueva # {} => pc = "transmitida"
      /\ \A n \in nueva : n.txn \notin Ajenas
  BY DEF CobroInv
<1>e. /\ EsSecuencia(eventos) /\ a \subseteq Ajenas \cap mempool
      /\ eventos # << >> /\ Head(eventos).tipo = "txn" => Head(eventos).txn \in a
  BY AnunciadasConocidas DEF TipoInv, RedTipada
<1>t. Tipada(cuentas, mempool, Salidas(Todas(bloques))) /\ Tipada(previas, mempool, Salidas(Todas(bloques)))
      /\ ArchivoTipado(archivo, mempool)
  BY DEF TipoInv, CuentasTipadas
<1> HIDE DEF a, a2
<1>z. ASSUME Duenos(cuentas'), Duenos(previas'), SinRepetir(eventos'), Cobros(cuentas', a2), Cobros(previas', a2),
             Cobros(archivo', a2), nueva' # {} => pc' = "transmitida", \A n \in nueva' : n.txn \notin Ajenas
      PROVE  CobroInv'
  BY <1>z DEF CobroInv, a2
<1>1. CASE EnviarBloque
  <2>1. PICK b : eventos' = Append(eventos, [tipo |-> "bloque", bloque |-> b])
    BY <1>1 DEF EnviarBloque
  <2>2. UNCHANGED <<cuentas, previas, archivo, nueva, pc>>
    BY <1>1 DEF EnviarBloque, disco
  <2>3. SinRepetir(eventos') /\ a2 \subseteq a
    BY <1>c, <1>e, <2>1, AnunciadasConOtra DEF a, a2
  <2>4. Cobros(cuentas, a2) /\ Cobros(previas, a2) /\ Cobros(archivo, a2)
    BY <1>c, <2>3, CobrosMenos
  <2> QED BY <1>c, <1>z, <2>2, <2>3, <2>4
<1>2. CASE LlegaTxn
  <2>1. PICK t \in Ajenas \ mempool : eventos' = Append(eventos, [tipo |-> "txn", txn |-> t])
    BY <1>2 DEF LlegaTxn
  <2>2. UNCHANGED <<cuentas, previas, archivo, nueva, pc>>
    BY <1>2 DEF LlegaTxn, disco
  <2>3. SinRepetir(eventos') /\ a2 \subseteq a \cup {t}
    <3> DEFINE e == [tipo |-> "txn", txn |-> t]
    <3>1. e.tipo = "txn" /\ e.txn = t /\ t \notin a
      BY <1>e, <2>1
    <3> HIDE DEF e
    <3>2. /\ SinRepetir(Append(eventos, e))
          /\ Anunciadas(Append(eventos, e)) \subseteq a \cup {t}
      BY <1>c, <1>e, <3>1, AnunciadasConOtra DEF a
    <3> QED BY <2>1, <3>2 DEF e, a2
  <2>4. Cobros(cuentas, a2) /\ Cobros(previas, a2) /\ Cobros(archivo, a2)
    BY <1>c, <1>t, <2>1, <2>3 DEF Cobros, Tipada, ArchivoTipado, Conocida
  <2> QED BY <1>c, <1>z, <2>2, <2>3, <2>4
<1>3. CASE RecibirTxn
  <2>1. eventos # << >> /\ Head(eventos).tipo = "txn" /\ eventos' = Tail(eventos) /\ pc = "espera"
    BY <1>3 DEF RecibirTxn
  <2>2. archivo' = archivo /\ nueva' = nueva
    BY <1>3 DEF RecibirTxn, disco
  <2>3. SinRepetir(eventos') /\ a2 \subseteq a /\ Head(eventos).txn \in a \ a2
    BY <1>c, <1>e, <2>1, AnunciadasSinLaPrimera DEF a, a2
  <2>4. Cobros(cuentas', a2) /\ Cobros(previas', a2) /\ Duenos(cuentas') /\ Duenos(previas')
    BY <1>3, <1>c, <2>3, CobrosTrasTxn
  <2>5. Cobros(archivo, a2)
    BY <1>c, <2>3, CobrosMenos
  <2> QED BY <1>c, <1>z, <2>1, <2>2, <2>3, <2>4, <2>5
<1>4. CASE RecibirBloque
  <2>1. eventos # << >> /\ eventos' = Tail(eventos) /\ pc = "espera"
    BY <1>4 DEF RecibirBloque
  <2>2. archivo' = archivo /\ nueva' = nueva
    BY <1>4 DEF RecibirBloque, disco
  <2>3. SinRepetir(eventos') /\ a2 \subseteq a
    BY <1>c, <1>e, <2>1, AnunciadasSinLaPrimera DEF a, a2
  <2>4. Cobros(cuentas', a) /\ Cobros(previas', a) /\ Duenos(cuentas') /\ Duenos(previas')
    BY <1>4, <1>c, CobrosTrasBloque
  <2>5. Cobros(cuentas', a2) /\ Cobros(previas', a2) /\ Cobros(archivo, a2)
    BY <1>c, <2>3, <2>4, CobrosMenos
  <2> QED BY <1>c, <1>z, <2>1, <2>2, <2>3, <2>4, <2>5
<1>5. CASE Caer \/ CargarRoto
  <2>1. eventos' = << >> /\ cuentas' = << >> /\ previas' = << >> /\ nueva' = {}
    BY <1>5 DEF Caer, CargarRoto, Terminar
  <2>2. a2 = {} /\ SinRepetir(eventos')
    BY <2>1 DEF a2, Anunciadas, SinRepetir
  <2>3. Cobros(archivo', a)
    BY <1>5, <1>c, CobrosAMedias DEF Caer, CargarRoto, disco
  <2>4. Cobros(archivo', a2)
    BY <2>2, <2>3, CobrosMenos
  <2> QED BY <1>z, <2>1, <2>2, <2>4, SinCuentas
<1>6. CASE eventos' = eventos /\ ~(EnviarBloque \/ LlegaTxn \/ RecibirTxn \/ RecibirBloque \/ Caer \/ CargarRoto)
  <2>a. a2 = a /\ SinRepetir(eventos')
    BY <1>6, <1>c DEF a, a2
  <2>1. CASE LlegaBloque \/ AbrirDirectorio \/ LeerInputs \/ LeerOutputs \/ Reiniciar \/ UNCHANGED vars
    <3>1. UNCHANGED <<cuentas, previas, archivo, nueva>> /\ (pc' = pc \/ nueva = {})
      BY <1>c, <2>1 DEF LlegaBloque, AbrirDirectorio, LeerInputs, LeerOutputs, Reiniciar, vars, disco
    <3> QED BY <1>c, <1>z, <2>a, <3>1
  <2>2. CASE Cargar
    <3>1. /\ cuentas' = [c \in DOMAIN archivo |-> Cuenta(c, utxos, archivo[c])] /\ pc = "cargar"
          /\ UNCHANGED <<previas, archivo, nueva>>
      BY <2>2 DEF Cargar, disco
    <3>2. \A c \in DOMAIN archivo : LET y == Cuenta(c, utxos, archivo[c])
                                    IN  y.receiving = archivo[c].receiving /\ y.utxos = Propios(utxos, c)
      BY DEF Cuenta
    <3>3. Cobros(cuentas', a)
      BY <1>c, <3>1, <3>2 DEF Cobros
    <3>4. Duenos(cuentas')
      BY <3>1, <3>2, DuenosPropios DEF Duenos
    <3> QED BY <1>c, <1>z, <2>a, <3>1, <3>3, <3>4
  <2>3. CASE AgregarWallet
    <3>1. PICK c :
             /\ cuentas' = [d \in DOMAIN cuentas \cup {c} |->
                               IF d = c THEN Cuenta(c, utxos, SinTxns) ELSE cuentas[d]]
             /\ previas' = cuentas' /\ UNCHANGED <<archivo, nueva>> /\ pc = "espera"
      BY <2>3 DEF AgregarWallet, CambiarYGuardar, disco
    <3> DEFINE y == Cuenta(c, utxos, SinTxns)
    <3>2. DOMAIN y.receiving = {} /\ y.utxos = Propios(utxos, c)
      BY DEF Cuenta, SinTxns, EmptyBag, SetToBag
    <3> HIDE DEF y
    <3>3. cuentas' = [d \in DOMAIN cuentas \cup {c} |-> IF d = c THEN y ELSE cuentas[d]]
      BY <3>1 DEF y
    <3>4. Cobros(cuentas', a)
      BY <1>c, <3>2, <3>3 DEF Cobros
    <3>5. Duenos(cuentas')
      BY <1>c, <3>2, <3>3, DuenosPropios DEF Duenos
    <3> QED BY <1>c, <1>z, <2>a, <3>1, <3>4, <3>5
  <2>4. CASE CargarWallet
    <3>1. UNCHANGED <<previas, archivo, nueva, pc>>
      BY <2>4 DEF CargarWallet, disco
    <3>2. /\ DOMAIN cuentas' = DOMAIN cuentas
          /\ \A c \in DOMAIN cuentas :
                /\ cuentas'[c].utxos \in {cuentas[c].utxos, Propios(utxos, c)}
                /\ cuentas'[c].receiving = cuentas[c].receiving
      BY <2>4, CamposTrasCargarWallet
    <3>3. Cobros(cuentas', a)
      BY <1>c, <3>2 DEF Cobros
    <3>4. Duenos(cuentas')
      BY <1>c, <3>2, DuenosPropios DEF Duenos
    <3> QED BY <1>c, <1>z, <2>a, <3>1, <3>3, <3>4
  <2>5. CASE Transmitir
    <3>1. UNCHANGED <<cuentas, previas, archivo>> /\ pc' = "transmitida"
      BY <2>5 DEF Transmitir, disco
    <3>2. \A n \in nueva' : n.txn \notin Ajenas
      BY <2>5, TransferenciaPropia
    <3> QED BY <1>c, <1>z, <2>a, <3>1, <3>2
  <2>6. CASE AnotarTransferencia
    <3>1. UNCHANGED archivo /\ nueva' = {}
      BY <2>6 DEF AnotarTransferencia, disco
    <3>2. Cobros(cuentas', a) /\ Cobros(previas', a) /\ Duenos(cuentas') /\ Duenos(previas')
      BY <1>c, <2>6, CobrosTrasTransferir
    <3> QED BY <1>c, <1>z, <2>a, <3>1, <3>2
  <2>7. CASE Escribir
    <3>1. /\ archivo' = [c \in DOMAIN cuentas |-> Listas(cuentas[c])] /\ previas' = << >>
          /\ UNCHANGED <<cuentas, nueva>> /\ pc = "escribir"
      BY <2>7 DEF Escribir, Volcado
    <3>2. Cobros(archivo', a)
      BY <1>c, <3>1, CobrosVolcados
    <3> QED BY <1>c, <1>z, <2>a, <3>1, <3>2, SinCuentas
  <2>8. CASE FallaApertura
    <3>1. archivo' = << >> /\ previas' = << >> /\ UNCHANGED <<cuentas, nueva>> /\ pc = "escribir"
      BY <2>8 DEF FallaApertura
    <3> QED BY <1>c, <1>z, <2>a, <3>1, SinCuentas
  <2>9. CASE FallaEscritura
    <3>1. cuentas' = previas /\ previas' = << >> /\ UNCHANGED nueva /\ pc = "escribir"
      BY <2>9 DEF FallaEscritura
    <3>2. Cobros(archivo', a)
      BY <1>c, <2>9, CobrosAMedias DEF FallaEscritura
    <3> QED BY <1>c, <1>z, <2>a, <3>1, <3>2, SinCuentas
  <2> QED BY <1>6, <2>1, <2>2, <2>3, <2>4, <2>5, <2>6, <2>7, <2>8, <2>9 DEF Next
<1>7. eventos' = eventos \/ EnviarBloque \/ LlegaTxn \/ RecibirTxn \/ RecibirBloque \/ Caer \/ CargarRoto
  BY DEF Next, vars, LlegaBloque, AbrirDirectorio, LeerInputs, LeerOutputs, Cargar, AgregarWallet, CargarWallet,
         Transmitir, AnotarTransferencia, Escribir, FallaApertura, FallaEscritura, Reiniciar
<1> QED BY <1>1, <1>2, <1>3, <1>4, <1>5, <1>6, <1>7

\* Both at the beginning.
LEMMA CobroInvInit == Init => CobroInv /\ VistasInv
<1> SUFFICES ASSUME Init PROVE CobroInv /\ VistasInv
  OBVIOUS
<1>1. /\ eventos = << >> /\ cuentas = << >> /\ previas = << >> /\ nueva = {}
      /\ archivo = [c \in Iniciales |-> SinTxns]
  BY DEF Init
<1>2. DOMAIN SinTxns.receiving = {}
  BY DEF SinTxns, EmptyBag, SetToBag
<1>3. \A a : Cobros(archivo, a)
  <2>1. DOMAIN archivo = Iniciales /\ \A c \in Iniciales : DOMAIN archivo[c].receiving = {}
    BY <1>1, <1>2
  <2> QED BY <2>1 DEF Cobros
<1>4. SinRepetir(eventos)
  BY <1>1 DEF SinRepetir
<1> QED BY <1>1, <1>3, <1>4, SinCuentas DEF CobroInv, VistasInv

\* An account whose lists are those of before, and another that has just been made.
LEMMA AnotadasIguales ==
    ASSUME NEW cs, NEW ds, NEW v, Anotadas(cs, v),
           \A c \in DOMAIN ds :
              \/ c \in DOMAIN cs /\ ds[c].sending = cs[c].sending /\ ds[c].sent = cs[c].sent
                 /\ ds[c].receiving = cs[c].receiving
              \/ DOMAIN ds[c].sending = {} /\ DOMAIN ds[c].receiving = {}
    PROVE  Anotadas(ds, v)
  BY DEF Anotadas

\* An announced payment is in none of the blocks that were processed.
LEMMA AnotadasTrasTxn ==
    ASSUME FormaInv, CadenaInv, RecibirTxn, Anotadas(cuentas, vistas)
    PROVE  Anotadas(cuentas', vistas)
<1>1. PICK f : Cola(f, eventos, bloques, porEnviar) /\ Progreso(f[0])
  BY DEF CadenaInv, ColaInv
<1> DEFINE t == Head(eventos).txn
<1>2. t \notin vistas
  <2>1. eventos # << >> /\ Head(eventos).tipo # "bloque"
    BY DEF RecibirTxn
  <2>2. EsSecuencia(bloques) /\ EsSecuencia(eventos)
    BY <1>1, DondeEstaLaCola
  <2>3. f[1] = f[0] /\ t \notin Hasta(bloques, f[1])
    BY <1>1, <2>1, <2>2, ColaTomada
  <2>4. vistas \subseteq Hasta(bloques, f[0])
    BY <1>1 DEF Progreso
  <2> QED BY <2>3, <2>4
<1>3. /\ DOMAIN cuentas' = DOMAIN cuentas
      /\ \A c \in DOMAIN cuentas :
            /\ cuentas'[c].sending = cuentas[c].sending /\ cuentas'[c].sent = cuentas[c].sent
            /\ \/ cuentas'[c].receiving = cuentas[c].receiving
               \/ cuentas'[c].receiving = cuentas[c].receiving (+) [u \in {t} |-> CantSalidas(t, c)]
  BY CamposTrasTxn
<1> HIDE DEF t
<1>4. ASSUME NEW c \in DOMAIN cuentas, NEW u \in vistas, u \in DOMAIN cuentas'[c].receiving
      PROVE  u \in DOMAIN cuentas[c].receiving
  <2> DEFINE l == [v \in {t} |-> CantSalidas(t, c)]
  <2>1. DOMAIN l = {t}
    OBVIOUS
  <2> HIDE DEF l
  <2>2. DOMAIN (cuentas[c].receiving (+) l) = DOMAIN cuentas[c].receiving \cup {t}
    BY <2>1, DominioSuma
  <2>3. cuentas'[c].receiving \in {cuentas[c].receiving, cuentas[c].receiving (+) l}
    BY <1>3 DEF l
  <2> QED BY <1>2, <1>4, <2>2, <2>3
<1> QED BY <1>3, <1>4 DEF Anotadas

\* Every step keeps what the processed blocks left in the lists.
LEMMA VistasInvNext ==
    ASSUME FormaInv, CadenaInv, TipoInv, CobroInv, SaldosAlDia, VistasInv, [Next]_vars
    PROVE  VistasInv'
<1>1. CASE Caer \/ CargarRoto
  <2>1. cuentas' = << >> /\ nueva' = {}
    BY <1>1 DEF Caer, CargarRoto, Terminar
  <2> QED BY <2>1, SinCuentas DEF VistasInv
<1>2. CASE FallaApertura \/ FallaEscritura
  <2>1. fallo'
    BY <1>2 DEF FallaApertura, FallaEscritura
  <2> QED BY <2>1 DEF VistasInv
<1>3. CASE fallo' = fallo /\ ~(Caer \/ CargarRoto)
  <2> SUFFICES ASSUME ~fallo
               PROVE  (\A n \in nueva' : n.txn \notin vistas') /\ Anotadas(cuentas', vistas')
    BY <1>3 DEF VistasInv
  <2>a. (\A n \in nueva : n.txn \notin vistas) /\ Anotadas(cuentas, vistas)
    BY DEF VistasInv
  <2>1. CASE LlegaBloque \/ EnviarBloque \/ LlegaTxn \/ AbrirDirectorio \/ LeerInputs \/ LeerOutputs
             \/ Escribir \/ Reiniciar \/ UNCHANGED vars
    <3>1. UNCHANGED <<cuentas, nueva, vistas>>
      BY <2>1 DEF LlegaBloque, EnviarBloque, LlegaTxn, AbrirDirectorio, LeerInputs, LeerOutputs,
                  Escribir, Reiniciar, vars
    <3> QED BY <2>a, <3>1
  <2>2. CASE Cargar
    <3>1. pc = "cargar" /\ UNCHANGED <<nueva, vistas>>
      BY <2>2 DEF Cargar
    <3>2. vistas' = {}
      BY <3>1 DEF CadenaInv, InicioInv, Corriendo
    <3> QED BY <2>a, <3>1, <3>2 DEF Anotadas
  <2>3. CASE AgregarWallet
    <3>1. UNCHANGED <<nueva, vistas>>
      BY <2>3 DEF AgregarWallet
    <3>2. PICK c : cuentas' = [d \in DOMAIN cuentas \cup {c} |->
                                  IF d = c THEN Cuenta(c, utxos, SinTxns) ELSE cuentas[d]]
      BY <2>3 DEF AgregarWallet, CambiarYGuardar
    <3> DEFINE y == Cuenta(c, utxos, SinTxns)
    <3>3. DOMAIN y.sending = {} /\ DOMAIN y.receiving = {}
      BY DEF Cuenta, SinTxns, EmptyBag, SetToBag
    <3> HIDE DEF y
    <3>4. cuentas' = [d \in DOMAIN cuentas \cup {c} |-> IF d = c THEN y ELSE cuentas[d]]
      BY <3>2 DEF y
    <3>5. Anotadas(cuentas', vistas)
      BY <2>a, <3>3, <3>4, AnotadasIguales
    <3> QED BY <2>a, <3>1, <3>5
  <2>4. CASE CargarWallet
    <3>1. UNCHANGED <<nueva, vistas>>
      BY <2>4 DEF CargarWallet
    <3>2. /\ DOMAIN cuentas' = DOMAIN cuentas
          /\ \A c \in DOMAIN cuentas :
                cuentas'[c].sending = cuentas[c].sending /\ cuentas'[c].sent = cuentas[c].sent
                /\ cuentas'[c].receiving = cuentas[c].receiving
      BY <2>4, CamposTrasCargarWallet
    <3>3. Anotadas(cuentas', vistas)
      BY <2>a, <3>2, AnotadasIguales
    <3> QED BY <2>a, <3>1, <3>3
  <2>5. CASE Transmitir
    <3>1. UNCHANGED <<cuentas, vistas>>
      BY <2>5 DEF Transmitir
    <3>2. \A n \in nueva' : n.txn \notin vistas
      BY <2>5, TransferenciaPropia
    <3> QED BY <2>a, <3>1, <3>2
  <2>6. CASE AnotarTransferencia
    <3>1. nueva' = {} /\ vistas' = vistas
      BY <2>6 DEF AnotarTransferencia
    <3>2. Anotadas(cuentas', vistas)
      BY <2>6, <2>a, CobrosTrasTransferir DEF CobroInv
    <3> QED BY <3>1, <3>2
  <2>7. CASE RecibirTxn
    <3>1. UNCHANGED <<nueva, vistas>>
      BY <2>7 DEF RecibirTxn
    <3>2. Anotadas(cuentas', vistas)
      BY <2>7, <2>a, AnotadasTrasTxn
    <3> QED BY <2>a, <3>1, <3>2
  <2>8. CASE RecibirBloque
    <3>1. nueva' = nueva /\ pc = "espera" /\ vistas' = vistas \cup Head(eventos).bloque
      BY <2>8 DEF RecibirBloque
    <3>2. nueva = {}
      BY <3>1 DEF CobroInv
    <3>3. Anotadas(cuentas', vistas \cup Head(eventos).bloque)
      BY <2>8, <2>a, AnotadasTrasBloque DEF CobroInv
    <3> QED BY <3>1, <3>2, <3>3
  <2>9. ~(FallaApertura \/ FallaEscritura)
    <3>1. ~fallo'
      BY <1>3
    <3> QED BY <3>1 DEF FallaApertura, FallaEscritura
  <2> QED BY <1>3, <2>1, <2>2, <2>3, <2>4, <2>5, <2>6, <2>7, <2>8, <2>9 DEF Next
<1>4. fallo' = fallo \/ Caer \/ CargarRoto \/ FallaApertura \/ FallaEscritura
  BY DEF Next, vars, cuentaBound, LlegaBloque, EnviarBloque, LlegaTxn, AbrirDirectorio, LeerInputs, LeerOutputs,
         Cargar, AgregarWallet, CargarWallet, Transmitir, AnotarTransferencia, RecibirTxn, RecibirBloque,
         Escribir, Reiniciar
<1> QED BY <1>1, <1>2, <1>3, <1>4

\* The invariant gives the property.
LEMMA VistasSeAnotan == VistasInv => ConfirmadaSeAnota
<1> SUFFICES ASSUME VistasInv, ~fallo, NEW c \in DOMAIN cuentas, NEW t \in vistas
             PROVE  /\ CantSalidas(t, c) > 0 /\ BagIn(t, cuentas[c].sending) => BagIn(t, cuentas[c].sent)
                    /\ t \in Ajenas => ~BagIn(t, cuentas[c].receiving)
  BY DEF ConfirmadaSeAnota
<1> QED BY DEF VistasInv, Anotadas, BagIn, BagToSet

\* What a processed block has is noted: a transfer with change is among those made, and no
\* payment of others is still pending, for any chain and any interleaving of the events,
\* while no save of this life has failed (evento_recibir_bloque).
THEOREM ConfirmadaCorrecta == Spec => []ConfirmadaSeAnota
<1>1. Init => CobroInv /\ VistasInv
  BY CobroInvInit
<1>2. FormaInv /\ CadenaInv /\ TipoInv /\ SaldosAlDia /\ CobroInv /\ VistasInv /\ [Next]_vars
         => CobroInv' /\ VistasInv'
  BY CobroInvNext, VistasInvNext
<1> QED BY <1>1, <1>2, VistasSeAnotan, TipoSiempre, SaldosCorrectos, PTL DEF Spec
=============================================================================
