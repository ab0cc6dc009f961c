----------------------------- MODULE DataItems -----------------------------
(***************************************************************************)
(* Data items of the assembler back ends: the operand type that a          *)
(* directive gives its operands, the bytes that eval_data writes and the   *)
(* relocation that make_reloc leaves.  Items of more than 64 bits are      *)
(* refused by eval_data and not enumerated.                                *)
(***************************************************************************)
EXTENDS Integers, AsmBits

(* A directive asks for an item of so many bits, floating point or not     *)
Directives ==
    [bits : {8, 16, 32, 64}, float : {FALSE}] \cup [bits : {32, 64}, float : {TRUE}]

qupls_data_operand(d) ==
    IF d.float THEN IF d.bits > 32 THEN "F64" ELSE "F32"
    ELSE CASE d.bits <= 8 -> "D8" [] d.bits \in 9..16 -> "D16"
           [] d.bits \in 17..32 -> "D32" [] OTHER -> "D64"

ppc_data_operand(d) ==
    IF d.float THEN IF d.bits > 32 THEN "F64" ELSE "F32"
    ELSE CASE d.bits <= 8 -> "D8" [] d.bits \in 9..10 -> "D10" [] d.bits \in 11..14 -> "D14"
           [] d.bits \in 15..16 -> "D16" [] d.bits \in 17..32 -> "D32" [] OTHER -> "D64"

(* make_reloc: the bits that the linker replaces, by operand type          *)
RelocBits == [D8 |-> 8, D16 |-> 16, D32 |-> 32, F32 |-> 32, D64 |-> 64, F64 |-> 64]

(* setval: the bytes of a value of n bits as pieces, from the highest byte *)
(* or from the lowest                                                      *)
setval(big, n) ==
    {<<8 * k, 8, IF big THEN n - 8 * (k + 1) ELSE 8 * k>> : k \in 0..(n \div 8) - 1}

(* The bits of an item of n bits.  The Qupls4 and coprocessor back ends    *)
(* evaluate a floating point number and write nothing, so that the item    *)
(* has what malloc left there.                                             *)
QuplsData(form, v, n) ==
    IF form = "flt" THEN {{}, 0..n-1} ELSE {Put(v, setval(FALSE, n))}

QuplsDataRelocs(form, type) ==
    IF form \in {"num", "flt"} THEN {} ELSE {<<0, RelocBits[type], 0>>}

(* Stark writes floating point numbers from the highest byte whatever the  *)
(* option says, computes a relocation for labels and does not add it.      *)
StarkDataPieces(form, big, n) == setval(big \/ form = "flt", n)
=============================================================================
