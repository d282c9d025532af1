------------------------------ MODULE CompactSize ------------------------------
(***************************************************************************)
(* The integers of variable length of the protocol, and the little-endian  *)
(* numbers that they are made of.  Code: src/src/compactsize.rs.           *)
(*                                                                         *)
(* A byte is a number below Base (256 in the code, less in the runs); the  *)
(* three markers are its last values, and a marker is followed by two,     *)
(* four or eight bytes.  CompactSize::new casts to the width of the marker *)
(* and never loses a digit, since the ranges are those of the widths.      *)
(***************************************************************************)
EXTENDS Potencias, Sequences

CONSTANT Base   \* how many values a byte has

ASSUME BaseAssumption == Base \in Nat /\ Base > 3

\* How many numbers n bytes can write.
Tope(n) == Potencia(Base, n)

\* v in n bytes, the least significant one first (to_le_bytes).
LeBytes(v, n) == [i \in 1..n |-> (v \div Tope(i - 1)) % Base]

\* from_le_bytes
DeLe(b) ==
    LET suma[i \in 0..Len(b)] == IF i = 0 THEN 0 ELSE suma[i - 1] + b[i] * Tope(i - 1)
    IN  suma[Len(b)]

Marca2 == Base - 3      \* 0xfd
Marca4 == Base - 2      \* 0xfe
Marca8 == Base - 1      \* 0xff

\* Variant: the first marker is written as a number of one byte.
NuevoCorto(v) ==
    CASE v <= Marca2                   -> <<v>>
      [] v \in Marca2 + 1..Tope(2) - 1 -> <<Marca2>> \o LeBytes(v, 2)
      [] v \in Tope(2)..Tope(4) - 1    -> <<Marca4>> \o LeBytes(v, 4)
      [] v >= Tope(4)                  -> <<Marca8>> \o LeBytes(v, 8)

\* CompactSize::new
Nuevo(v) ==
    CASE v < Marca2                   -> <<v>>
      [] v \in Marca2..Tope(2) - 1    -> <<Marca2>> \o LeBytes(v, 2)
      [] v \in Tope(2)..Tope(4) - 1   -> <<Marca4>> \o LeBytes(v, 4)
      [] v >= Tope(4)                 -> <<Marca8>> \o LeBytes(v, 8)

ParseToU64(n, b) == IF n = 1 THEN b[1] ELSE DeLe(SubSeq(b, 2, n))

\* CompactSize::value, of the bytes that new gave
Valor(numero) == ParseToU64(Len(numero), numero)

\* How many bytes the number takes, from its first one.
Largo(primero) ==
    CASE primero = Marca2 -> 3
      [] primero = Marca4 -> 5
      [] primero = Marca8 -> 9
      [] OTHER            -> 1

\* CompactSize::parse_from_byte_array: the number, normalised, and its length
ParseFromByteArray(b) ==
    [numero |-> Nuevo(ParseToU64(Largo(b[1]), b)), bytes |-> Largo(b[1])]
=============================================================================
