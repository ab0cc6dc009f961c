--------------------------- MODULE CoproOperands ---------------------------
(***************************************************************************)
(* The instructions and operands of the assembler back end for the         *)
(* graphics coprocessor (src/software/vasm/cpus/Qupls4_copro/cpu.c): the   *)
(* table of mnemonics, what an operand is parsed to, where each format     *)
(* puts it, and the relocations it leaves.                                 *)
(***************************************************************************)
EXTENDS Integers, Sequences, AsmBits, QuplsRelocs

(***************************************************************************)
(* Fields of the 32-bit instruction                                        *)
(***************************************************************************)
RD    == <<0, 4, 5>>
RS1   == <<0, 4, 9>>
RS2   == <<0, 4, 13>>
WCOND == <<0, 4, 17>>
Imm15 == <<0, 15, 17>>

OPC(k) == BitsOf(k)
Rd(k) == PutPiece(BitsOf(k), RD)

(***************************************************************************)
(* mnemonics[].  A row has a format, the bits it fixes, the flag that says *)
(* what the instruction does with its first register, and the kinds of     *)
(* operand it takes.                                                       *)
(***************************************************************************)
Rows(f, fixed, flag, operands) ==
    {[f |-> f, fixed |-> b, flag |-> flag, ops |-> o] : b \in fixed, o \in operands}

Rg == {"REG"}
Im == {"IMM"}
Ind == {"REGIND"}

CallOrJump == {OPC(9), Rd(1) \cup OPC(9)}
BitMapOps == {Rd(k) \cup OPC(7) : k \in 0..3}
ImmOnly == 17..31       \* 0xFFFE0000, an immediate of -1

RowsA ==
    UNION {
        Rows("RI64", {OPC(22), OPC(24)}, "none", {<<Rg, Rg, Rg, Im>>}),
        Rows("R3", {OPC(22), ImmOnly \cup OPC(24), OPC(13)}, "none", {<<Rg, Rg, Rg>>}),
        Rows("DIRECT", BitMapOps, "none", {<<Rg, {"DIRECT"}>>}),
        Rows("REGIND", BitMapOps, "none", {<<Rg, Ind>>}),
        Rows("RI", {OPC(14)}, "none", {<<Rg, Rg, Rg, Im>>}),
        Rows("R3", {OPC(15)}, "none", {<<Rg>>}),
        Rows("RI", {OPC(12)}, "none", {<<Rg, Rg>>}),
        Rows("DIRECT", CallOrJump, "JUMP", {<<Im>>}),
        Rows("REGIND", CallOrJump, "JUMP", {<<Ind>>}),
        Rows("R3", {ImmOnly \cup OPC(26)}, "none", {<<Rg, Rg>>}),
        Rows("RI", {OPC(8)}, "none", {<<Rg, Rg, Im>>}),
        Rows("DIRECT", {Rd(k) \cup OPC(4) : k \in 0..6}, "BRANCH", {<<Rg, Rg, Im>>, <<Rg, Im>>}),
        Rows("DIRECT", {Rd(k) \cup OPC(4) : k \in 8..11}, "BRANCH", {<<Rg, Rg, Im>>})}

RowsB ==
    UNION {
        Rows("DIRECT", {OPC(16), OPC(22), OPC(5)}, "none", {<<Rg, Im>>}),
        Rows("REGIND", {OPC(16), OPC(22), OPC(5)}, "none", {<<Rg, Ind>>}),
        Rows("RI", {OPC(3)}, "none", {<<Im>>, <<Rg, Im>>}),
        Rows("R3", {OPC(3)}, "none", {<<Rg>>}),
        Rows("RI64", {OPC(22)}, "none", {<<Rg, Im>>}),
        Rows("R3", {OPC(22)}, "none", {<<Rg, Rg>>}),
        Rows("RI", {OPC(11), OPC(20), OPC(21)}, "none", {<<Rg, Rg, Rg, Im>>}),
        Rows("R3", {OPC(11), OPC(20), OPC(21), OPC(26)}, "none", {<<Rg, Rg, Rg>>}),
        Rows("BITS16", {{}}, "none", {<<>>}),
        Rows("RI64", {OPC(25), OPC(26)}, "none", {<<Rg, Rg, Rg, Im>>}),
        Rows("RI", {Rd(2) \cup OPC(9)}, "none", {<<Im>>}),
        Rows("RI", {OPC(20), OPC(21)}, "none", {<<Rg, Rg, Im>>}),
        Rows("DIRECT", {OPC(17), OPC(10)}, "STORE", {<<Rg, Im>>}),
        Rows("REGIND", {OPC(17), OPC(10)}, "STORE", {<<Rg, Ind>>}),
        Rows("STOREI", {OPC(18)}, "STORE", {<<Im, Im>>, <<Im, Ind>>}),
        Rows("WAIT", {PutPiece(BitsOf(10), WCOND) \cup OPC(1)}, "none", {<<Rg, Im>>}),
        Rows("WAIT", {PutPiece(BitsOf(9), WCOND) \cup OPC(1)}, "none", {<<Rg, Rg, Rg, {"NEXTREG"}>>})}

mnemonics == RowsA \cup RowsB

(***************************************************************************)
(* Operands as parse_operand leaves them                                   *)
(***************************************************************************)
NotFound == -1
argregs == <<1, 2, 3, 4, 0, 0, 0, 0, 0, 0>>
tmpregs == <<5, 6, 7, 8, 0, 0, 0, 0, 0, 0>>
saved_regs == <<9, 10, 11, 12, 13, 0, 0, 0, 0, 0>>

(* A name is a stem and a number, -1 when it has none.  Three digits       *)
(* d1 d2 d3 are read as d2 d1 d2.                                          *)
ThreeDigits(k) ==
    LET rg == ((k \div 10) % 10) * 101 + (k \div 100) * 10
    IN  IF rg < 256 THEN rg ELSE NotFound

is_reg(name) ==
    LET stem == name[1]
        k == name[2]
    IN  CASE name = <<"ip", -1>> -> 53
          [] name = <<"fp", -1>> -> 15
          [] name = <<"gp", -1>> -> 14
          [] stem = "a" /\ k \in 0..9 -> argregs[k + 1]
          [] stem = "t" /\ k \in 0..9 -> tmpregs[k + 1]
          [] stem = "s" /\ k \in 0..9 -> saved_regs[k + 1]
          [] stem = "r" /\ k \in 100..999 -> ThreeDigits(k)
          [] stem = "r" /\ k \in 0..99 -> k
          [] OTHER -> NotFound

Operand(kind, reg, form, v, attr) ==
    [kind |-> kind, reg |-> reg, form |-> form, v |-> v, attr |-> attr]

parse_reloc_attr(word) == Attribute(word)

(* An operand of a data directive: an expression and no more               *)
DataOperand(s, float) ==
    Operand("DATA", {}, IF float /\ s.form = "num" THEN "flt" ELSE s.form, s.v, "NONE")

NextRegister == Operand("REG", {}, "num", {}, "NONE")

(* parse_idx: one base register in the brackets                            *)
parse_idx(s) == 
    Operand("REGIND", BitsOf(is_reg(s.base)), s.form, s.v, parse_reloc_attr(s.attr))

parse_operand(s) ==
    CASE s.t = "reg" -> Operand("REG", BitsOf(is_reg(s.name)), "num", BitsOf(is_reg(s.name)), "NONE")
      [] s.t = "imm" -> Operand("IMM", {}, s.form, s.v, parse_reloc_attr(s.attr))
      [] s.t = "mem" -> parse_idx(s)

(***************************************************************************)
(* Where a format puts its registers and values                            *)
(***************************************************************************)
(* A mutant: one bit less is looked at                                     *)
OneBitMore(v, n) == FitsSigned(v, n + 2)

(* is_nbit: the bits from n up are alike; the sign is not one of the n     *)
is_nbit(v, n) == FitsSigned(v, n + 1)

Nth(fields, i) == IF i < Len(fields) THEN {fields[i + 1]} ELSE {}

encode_reg(row, i) ==
    CASE row.f \in {"R2", "R3", "RI", "RI64"} -> Nth(<<RD, RS1, RS2>>, i)
      [] row.f = "WAIT" -> Nth(<<RS1, RS2>>, i)
      [] row.f \in {"STOREI", "REGIND"} ->
            Nth(<<CASE row.flag = "STORE" -> RS2 [] row.flag = "JUMP" -> RS1 [] OTHER -> RD,
                  RS1, RS2>>, i)
      [] row.f = "DIRECT" ->
            CASE row.flag = "STORE" -> Nth(<<RS2, RS1>>, i)
              [] row.flag = "BRANCH" -> Nth(<<RS1, RS2>>, i)
              [] row.flag = "JUMP" -> Nth(<<RS1>>, i)
              [] OTHER -> Nth(<<RD>>, i)
      [] OTHER -> {}

(* What an encoder does to the instruction: the bits it clears and sets,   *)
(* the 64-bit constant it appends, the size it returns, and the pieces of  *)
(* the bytes that hold the value then.                                     *)
Effect(v, pieces) == [clear |-> {}, set |-> Put(v, pieces), pfx |-> <<>>, size |-> 4, pieces |-> pieces]

encode_immed_RI(v) == Effect(v, {Imm15})
encode_direct(v) == Effect(v, {Imm15})
(* (lo & 0xeff) << 21                                                      *)
encode_immed_WAIT(v) == Effect(v, {<<0, 8, 21>>, <<9, 3, 30>>})

(* The constant of 64 bits that is appended, and the one of 32 bits in the *)
(* upper half of a long instruction                                        *)
Appended(v) == [clear |-> 17..63, set |-> {31}, pfx |-> <<v>>, size |-> 4, pieces |-> {<<0, 64, 32>>}]
Long(v) ==
    [clear |-> 17..63, set |-> {17, 31} \cup PutPiece(v, <<0, 32, 32>>),
     pfx |-> <<>>, size |-> 8, pieces |-> {<<0, 32, 32>>}]

(* Mutants: a wide constant also takes the long form; the size of eight is *)
(* not returned                                                            *)
WideAndLong(v, force) ==
    IF is_nbit(v, 14) /\ ~force THEN encode_immed_RI(v)
    ELSE IF is_nbit(v, 32) /\ ~force THEN Long(v) ELSE [Appended(v) EXCEPT !.size = 8]
SizeForgotten(v, force) ==
    IF ~is_nbit(v, 32) \/ force THEN Appended(v)
    ELSE IF is_nbit(v, 14) THEN encode_immed_RI(v) ELSE [Long(v) EXCEPT !.size = 4]

(* An immediate of 0x4000 announces 64 bits that follow, 0x4001 32 bits    *)
encode_immed_RI64(v, force) ==
    IF ~is_nbit(v, 32) \/ force THEN Appended(v)
    ELSE IF is_nbit(v, 14) THEN encode_immed_RI(v) ELSE Long(v)

(* The stored constant: four bits in Rd, or 64 behind an opcode of 6       *)
StoredConstant(v) ==
    IF is_nbit(v, 4) THEN Effect(v, {RD})
    ELSE LET e == encode_immed_RI64(v, TRUE)
         IN  [e EXCEPT !.clear = 0..4 \cup 17..63, !.set = {31} \cup OPC(6)]

Nowhere(v) == Effect(v, {})

encode_immed(row, v, i) ==
    CASE row.f = "STOREI" -> Nth(<<StoredConstant(v), encode_immed_RI(v)>>, i)
      [] row.f = "RI" -> {encode_immed_RI(v)}
      [] row.f = "WAIT" -> {encode_immed_WAIT(v)}
      [] row.f = "RI64" -> {encode_immed_RI64(v, FALSE)}
      [] row.f = "DIRECT" -> {encode_direct(v)}

(* A mutant: the base always goes where a first operand goes               *)
AlwaysFirst(row, i) == {IF row.flag \in {"BRANCH", "JUMP"} THEN RS1 ELSE RD}

(* encode_regind: the base, and behind a first operand the displacement    *)
BaseField(row, i) ==
    IF i = 0 THEN {IF row.flag \in {"BRANCH", "JUMP"} THEN RS1 ELSE RD}
    ELSE IF i = 1 THEN {RS1} ELSE {}

encode_regind(v, i) == IF i = 1 /\ v # {} THEN encode_direct(v) ELSE Nowhere(v)

(***************************************************************************)
(* Relocations: the piece of the value that the linker puts into the bytes *)
(***************************************************************************)
get_reloc_type(attr) ==
    CASE attr = "NONE" -> "ABS"
      [] attr \in {"GOT", "PLT", "SD"} -> attr
      [] OTHER -> "error"

(* A mutant: 32 bits are patched where the instruction is                  *)
Unescaped(f, v) ==
    CASE f = "RI64" /\ ~is_nbit(v, 14) /\ is_nbit(v, 32) -> <<0, 32, 0>>
      [] f \in {"RI", "RI64"} -> IF is_nbit(v, 14) THEN Imm15 ELSE <<0, 64, 32>>
      [] OTHER -> <<2, 15, 17>>

RelocPiece(f, v) ==
    CASE f = "RI" -> Imm15
      [] f = "WAIT" -> <<2, 11, 21>>
      [] f = "RI64" -> IF is_nbit(v, 14) THEN Imm15
                       ELSE IF is_nbit(v, 32) THEN <<0, 32, 32>> ELSE <<0, 64, 32>>
      [] f \in {"DIRECT", "STOREI", "REGIND"} -> <<2, 15, 17>>
      [] OTHER -> <<0, 64, 0>>

(* sd: what the comparison of the operand's base register says             *)
make_reloc(f, i, op, sd) ==
    IF op.form = "num" THEN {}
    ELSE {[op |-> i, at |-> RelocPiece(f, op.v),
           type |-> IF f \in {"STOREI", "REGIND"} /\ sd THEN "SD" ELSE get_reloc_type(op.attr)]}
=============================================================================
