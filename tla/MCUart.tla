------------------------------- MODULE MCUart -------------------------------
(* A link with bytes of three bits, their values given as numbers, and     *)
(* division factors and delays of which the proofs' hypothesis is true.    *)
EXTENDS UartProofs

Word(n) == [i \in Bits |-> (n \div 2^i) % 2]
MCBytes == {Word(n) : n \in {0, 5, 7}}

ASSUME MCMatchedAssumption == Matched

=============================================================================
