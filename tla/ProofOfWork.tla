------------------------------ MODULE ProofOfWork ------------------------------
(***************************************************************************)
(* The target that n_bits stands for, and the comparison of the hash of a  *)
(* header with it.  Code: src/src/block_validation.rs, proof_of_work.      *)
(*                                                                         *)
(* Hash and target are sequences of LargoTarget bytes (32 in the code),    *)
(* the most significant one first.  The mantissa is copied into the target *)
(* with its four bytes, of which the first is always zero, so an exponent  *)
(* of LargoTarget is too large; one below three makes the subtraction      *)
(* overflow.  Both panic with any profile: without the checks of overflow, *)
(* the slice is out of range.                                              *)
(***************************************************************************)
EXTENDS CompactSize, SequencesExt

CONSTANT LargoTarget

ASSUME LargoTargetAssumption == LargoTarget \in Nat /\ LargoTarget > 4

\* to_be_bytes
BeBytes(v, n) == Reverse(LeBytes(v, n))

Desplazamiento(n_bits) == n_bits.exponente - 3

\* The exponents that do not panic.
ExponenteUtil(n_bits) == Desplazamiento(n_bits) \in 0..LargoTarget - 4

Target(n_bits) ==
    LET inicio == LargoTarget - Desplazamiento(n_bits) - 4
        fin    == LargoTarget - Desplazamiento(n_bits)
    IN  [i \in 1..LargoTarget |->
            IF i \in inicio + 1..fin THEN BeBytes(n_bits.mantisa, 4)[i - inicio] ELSE 0]

\* Variant: equal is enough.
CumpleIgual(n_bits, hash) ==
    \/ hash = Target(n_bits)
    \/ \E i \in 1..LargoTarget :
          /\ hash[i] < Target(n_bits)[i]
          /\ \A j \in 1..i - 1 : hash[j] = Target(n_bits)[j]

\* The first byte in which they differ decides; equal is not enough.
Cumple(n_bits, hash) ==
    \E i \in 1..LargoTarget :
        /\ hash[i] < Target(n_bits)[i]
        /\ \A j \in 1..i - 1 : hash[j] = Target(n_bits)[j]
=============================================================================
