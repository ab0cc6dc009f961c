------------------------------ MODULE AsmBits ------------------------------
(***************************************************************************)
(* Machine words as the assembler back ends see them.  A word or a 64-bit  *)
(* value is the set of the positions of its one bits; bit 63 is the sign   *)
(* of a value.  OR is union, a mask is an intersection, a shift moves the  *)
(* positions.                                                              *)
(***************************************************************************)
EXTENDS Integers

Low(n) == 0..n-1                  \* the mask (1 << n) - 1
Negative(v) == 63 \in v

(* v << n and v >> n (arithmetic) of a 64-bit value *)
Shl(v, n) == {b \in n..63 : b - n \in v}
Shr(v, n) == {b \in 0..63 : (IF b + n > 63 THEN 63 ELSE b + n) \in v}

(* (v >> lo) & ((1 << n) - 1) *)
Extract(v, lo, n) == {b \in 0..n-1 : b + lo \in v}

(* v lies in -2^(n-1) .. 2^(n-1)-1, or in 0 .. 2^n-1 *)
FitsSigned(v, n) == IF Negative(v) THEN n-1..63 \subseteq v ELSE v \subseteq 0..n-2
FitsUnsigned(v, n) == v \subseteq 0..n-1

(* Two's complement: the bits above the lowest one bit are inverted *)
Neg(v) ==
    {b \in 0..63 : IF b \in v THEN \A c \in v : c >= b
                              ELSE \E c \in v : c < b}

(* Addition modulo 2^64: a carry comes into bit b from the nearest lower   *)
(* bit where both are one, when every bit between has a one.               *)
Plus(v, w) ==
    LET Carry(b) == \E c \in v \cap w : c < b /\ c+1..b-1 \subseteq v \cup w
    IN  {b \in 0..63 : (b \in v) # ((b \in w) # Carry(b))}
Minus(v, w) == Plus(v, Neg(w))

(* A 64-bit value extended with its sign to 128 bits *)
Wide(v) == IF Negative(v) THEN v \cup 64..127 ELSE v

(* The bits of a natural number below 256 *)
BitsOf(k) == {b \in 0..7 : (k \div 2^b) % 2 = 1}

(***************************************************************************)
(* A piece <<lo, n, at>> puts bits lo .. lo+n-1 of a value at bits         *)
(* at .. at+n-1 of the instruction.                                        *)
(***************************************************************************)
PutPiece(v, p) == {b \in p[3]..p[3]+p[2]-1 : b - p[3] + p[1] \in v}
Put(v, pieces) == UNION {PutPiece(v, p) : p \in pieces}

(* The bits of the instruction that pieces own, and those of the value     *)
(* that they carry                                                         *)
Span(pieces) == UNION {p[3]..p[3]+p[2]-1 : p \in pieces}
Carried(pieces) == UNION {p[1]..p[1]+p[2]-1 : p \in pieces}

(* What a reader of the instruction finds of the value *)
Get(word, pieces) == UNION {{b \in p[1]..p[1]+p[2]-1 : b - p[1] + p[3] \in word} : p \in pieces}
=============================================================================
