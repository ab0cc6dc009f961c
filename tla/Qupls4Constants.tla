--------------------------- MODULE Qupls4Constants ---------------------------
(***************************************************************************)
(* The constant decoder of the Qupls4 processor                            *)
(* (src/rtl/cpu_v4/decoder/Qupls4_decode_const.sv): how it puts a constant *)
(* together from a field of the instruction and from the postfix words     *)
(* that follow it.  A word is the set of its one bits, 0 to 47.            *)
(***************************************************************************)
EXTENDS AsmBits, SequencesExt

(* A word is a postfix when bits 6 to 2 are 15 and every word between it   *)
(* and the instruction is one; at most six of them count.                  *)
IsPostfix(w) == w \cap 2..6 = 2..5
vpfx(words) ==
    LET n == CHOOSE k \in 0..Len(words) :
                /\ \A j \in 1..k : IsPostfix(words[j])
                /\ k < Len(words) => ~IsPostfix(words[k+1])
    IN  SubSeq(words, 1, IF n < 6 THEN n ELSE 6)

(* Bits 1 and 0 say which of the four constants it is for; bits 8 and 7    *)
(* are 0 for its first 39 bits and 1 for the next 39.                      *)
Which(w) == w \cap 0..1
Quarter(w) == w \cap 7..8

SignExtended(c, n) == IF n - 1 \in c THEN c \cup n..127 ELSE c

Merge(c, w) ==
    IF Quarter(w) = {} THEN SignExtended(Extract(w, 9, 39), 39)
    ELSE Extract(c, 0, 39) \cup {b \in 39..77 : b - 30 \in w}

(* A postfix for one of the four constants; bit 8 makes it one for none    *)
For(w, which) == Which(w) = which /\ 8 \notin w

(* The flag and the constant that the loop over the postfixes leaves       *)
has_cnst(words, which) == \E k \in DOMAIN vpfx(words) : For(vpfx(words)[k], which)
cnst(words, which) ==
    LET p == vpfx(words)
        c[k \in 0..Len(p)] ==
            IF k = 0 THEN {} ELSE IF For(p[k], which) THEN Merge(c[k-1], p[k]) ELSE c[k-1]
    IN  c[Len(p)]

(* The case on the opcode: the low bits from the field, the others from    *)
(* the constant or, when the flag is clear, copies of the sign             *)
Immediate(field, n, has, c) ==
    IF has THEN field \cup {b \in n..63 : b - n \in c} ELSE SignExtended(field, n) \cap 0..63

(* The block is evaluated from top to bottom: the flags and constants are  *)
(* cleared, the case reads them, and only then the loop sets them.         *)
Decoded(field, n, words, which) ==
    [imm |-> Immediate(field, n, FALSE, {}), has |-> has_cnst(words, which), c |-> cnst(words, which)]
=============================================================================
