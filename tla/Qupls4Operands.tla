--------------------------- MODULE Qupls4Operands ---------------------------
(***************************************************************************)
(* Operands of the Qupls4 assembler back end                               *)
(* (src/software/vasm/cpus/Qupls4/cpu.c): the names of registers, what an  *)
(* operand is parsed to, the value it is encoded with in the sizing and in *)
(* the emitting call, and the relocations left for it.                     *)
(***************************************************************************)
EXTENDS Integers, Sequences, AsmBits, QuplsRelocs

(***************************************************************************)
(* Registers.  A name is a stem and a decimal number, -1 when it has none. *)
(***************************************************************************)
Plain(stem) == <<stem, -1>>

(* 49 and 67 have the names of 48 and 57 *)
regnames ==
    [n \in 0..127 |->
        CASE n = 0 -> <<"r", 0>>              [] n \in 1..3 -> <<"lr", n>>
          [] n \in 4..11 -> <<"a", n - 4>>    [] n \in 12..21 -> <<"t", n - 12>>
          [] n \in 22..30 -> <<"s", n - 22>>  [] n = 49 -> <<"r", 48>>
          [] n = 67 -> <<"r", 57>>            [] n \in 121..124 -> <<"mot", n - 121>>
          [] n = 125 -> Plain("drm")          [] n = 126 -> Plain("ssp")
          [] n = 127 -> Plain("ip")           [] OTHER -> <<"r", n>>]

NotFound == -1

is_reg7(name) ==
    LET at == {n \in 0..127 : regnames[n] = name}
    IN  IF at = {} THEN NotFound ELSE CHOOSE n \in at : \A m \in at : n <= m

(* Three digits d1 d2 d3 are read as d2 d1 d2 *)
ThreeDigits(k) ==
    LET rg == ((k \div 10) % 10) * 101 + (k \div 100) * 10
    IN  IF rg < 128 THEN rg ELSE NotFound

is_reg(name) ==
    LET stem == name[1]
        k == name[2]
    IN  CASE name \in {Plain("ip"), Plain("pc")} -> 127
          [] name = Plain("ssp") -> 126
          [] name = Plain("sp") -> 31
          [] name = Plain("fp") -> 30
          [] name \in {Plain("gp"), <<"gp", 0>>} -> 29
          [] stem = "a" /\ k \in 0..9 -> IF k < 8 THEN k + 1 ELSE 0
          [] stem = "t" /\ k \in 0..9 -> k + 9
          [] stem = "s" /\ k \in 0..9 -> IF k < 9 THEN k + 19 ELSE 0
          [] name = Plain("lc") -> 55
          [] stem = "lr" /\ k \in 0..7 -> k
          [] name = Plain("lr") -> 1
          [] stem = "r" /\ k \in 100..999 -> ThreeDigits(k)
          [] stem = "r" /\ k \in 0..99 -> k
          [] OTHER -> NotFound

(* A register operand is looked up in regnames first, a base or an index   *)
(* register last.  parse_idx takes the -1 of is_reg7 for a success, and    *)
(* basereg and ndxreg are unsigned chars.                                  *)
OperandRegister(name) == IF is_reg7(name) # NotFound THEN is_reg7(name) ELSE is_reg(name)
MemoryRegister(name) ==
    (IF is_reg(name) # NotFound THEN is_reg(name) ELSE is_reg7(name)) % 256

(* is_vmreg, is_lkreg, and the two bits for each letter of a predicate     *)
(* string: T is 1, F is 2, anything else 0                                 *)
is_vmreg(n, z) == {b + 1 : b \in BitsOf(n)} \cup (IF z THEN {0} ELSE {})
is_lkreg(n) == IF n < 2 THEN BitsOf(n) ELSE {}
is_predstr(s) ==
    {2 * (k - 1) : k \in {j \in DOMAIN s : s[j] = "T"}}
        \cup {2 * (k - 1) + 1 : k \in {j \in DOMAIN s : s[j] = "F"}}

(***************************************************************************)
(* parse_operand.  An operand has a kind, registers, a value and a scale.  *)
(***************************************************************************)
Operand(kind, reg, ndx, scale, form, v) ==
    [kind |-> kind, reg |-> reg, ndx |-> ndx, scale |-> scale, form |-> form, v |-> v,
     attr |-> "NONE"]

parse_reloc_attr(word) == Attribute(word)

(* An operand of a data directive: an expression and no more               *)
DataOperand(s, float) ==
    Operand("DATA", {}, {}, 0, IF float /\ s.form = "num" THEN "flt" ELSE s.form, s.v)

NextRegister == Operand("REG", {}, {}, 0, "num", {})

(* parse_idx: one register, or two and a scale.  A scale that is none of   *)
(* the powers of two is taken as 1.                                        *)
parse_idx(s) ==
    LET base == BitsOf(MemoryRegister(s.base))
    IN  IF s.ndx = <<>> THEN Operand("REGIND", base, {}, 0, s.form, s.v)
        ELSE Operand("SCNDX", base, BitsOf(MemoryRegister(s.ndx)),
                     IF s.scale \in {1, 2, 4, 8, 16, 32, 64} THEN s.scale ELSE 1, s.form, s.v)

parse_operand(s) ==
    CASE s.t = "reg"  -> Operand("REG", BitsOf(OperandRegister(s.name)), {}, 0, "num", {})
      [] s.t = "vm"   -> Operand("VMREG", is_vmreg(s.n, s.z), {}, 0, "num", {})
      [] s.t = "lk"   -> Operand("LK", is_lkreg(s.n), {}, 0, "num", {})
      [] s.t = "pred" -> Operand("PREDSTR", {}, {}, 0, "num", is_predstr(s.s))
      [] s.t = "imm"  -> [Operand("IMM", {}, {}, 0, s.form, s.v)
                             EXCEPT !.attr = parse_reloc_attr(s.attr)]
      [] s.t = "mem"  -> [parse_idx(s) EXCEPT !.attr = parse_reloc_attr(s.attr)]
      [] s.t = "ind"  -> [parse_idx(s) EXCEPT !.attr = parse_reloc_attr(s.attr), !.kind = "IND_SCNDX"]

(***************************************************************************)
(* Values                                                                  *)
(***************************************************************************)
(* is_nbit: the bits from n up are alike.  The sign bit is not one of the  *)
(* n, so that n = 7 takes -128 to 127.                                     *)
is_nbit(v, n) == FitsSigned(v, n + 1)

calc_branch_disp(v, pc, opt) == IF opt = 0 THEN Minus(v, pc) ELSE Shr(Minus(v, pc), 1)

is_branch(f) == f \in {"B", "BI", "BZ", "BL", "B2", "BL2", "J2", "JL2", "J3", "JL3", "J4", "JL4"}

is_branch_target_oper(f, i) ==
    \/ f \in {"B", "BI"} /\ i \in {2, 3}
    \/ f = "BZ" /\ i = 1
    \/ f = "B2" /\ i = 0
    \/ f = "BL2" /\ i \in {1, 2}

(* The relocation of operand i; an attribute such as @plt is kept by the   *)
(* formats that have one for it and is an error elsewhere.                 *)
Attributed(attr, kept) == IF attr = "NONE" THEN "ABS" ELSE IF attr \in kept THEN attr ELSE "error"

get_reloc_type(f, i, attr) ==
    CASE f \in {"B", "BI"} -> IF i < 2 THEN "ABS" ELSE "PC"
      [] f \in {"BZ", "BL2"} -> IF i = 0 THEN "NONE" ELSE "PC"
      [] f = "B2" -> "PC"
      [] f = "J2" -> Attributed(attr, {"PLT", "GLOBDAT", "SECOFF"})
      [] f \in {"JL2", "JL4"} -> IF i = 0 THEN attr ELSE Attributed(attr, {"PLT", "GLOBDAT", "SECOFF"})
      [] f = "J3" -> IF i = 0 THEN "NONE" ELSE Attributed(attr, {"PLT", "GLOBDAT", "SECOFF"})
      [] f = "JL3" -> IF i < 2 THEN "NONE" ELSE Attributed(attr, {"PLT", "GLOBDAT", "SECOFF"})
      [] OTHER -> Attributed(attr, {"GOT", "PLT", "SD"})

(* A mutant: the sizing call measures the target and not the displacement  *)
TargetSized(f, i, op, pc) == op.v

(* What the sizing call (db NULL) encodes.  eval_expr reports a number as  *)
(* constant and a label as not constant; the program counter is taken off  *)
(* the target in the branch for the labels and, for both, after it.        *)
SizingValue(f, i, op, pc) ==
    IF ~(is_branch_target_oper(f, i) /\ get_reloc_type(f, i, op.attr) = "PC") THEN op.v
    ELSE IF op.form = "num" THEN calc_branch_disp(op.v, pc, 0)
    ELSE calc_branch_disp(calc_branch_disp(op.v, pc, 0), pc, 0)

(* What the emitting call encodes.  A label of the section needs no        *)
(* relocation when it is the target of a branch.                           *)
Displaced(f, i, v, pc) ==
    CASE f = "BI" /\ i > 1 -> calc_branch_disp(v, pc, 4)
      [] f = "BZ" /\ i = 1 -> calc_branch_disp(v, pc, 0)
      [] f = "B" /\ i = 2 -> calc_branch_disp(v, pc, 0)
      [] f \in {"B2", "BL2"} -> calc_branch_disp(v, pc, 0)
      [] OTHER -> v

Resolved(f, i, op) == op.form = "lab" /\ get_reloc_type(f, i, op.attr) = "PC"

EmittedValue(f, i, op, pc) ==
    IF get_reloc_type(f, i, op.attr) = "NONE" THEN op.v
    ELSE IF op.form = "num" \/ Resolved(f, i, op) THEN Displaced(f, i, op.v, pc)
    ELSE op.v

IsConstant(f, i, op) == op.form = "num" \/ get_reloc_type(f, i, op.attr) = "NONE"

(***************************************************************************)
(* make_reloc: the relocations of an operand as pieces of the value at bit *)
(* positions of the bytes written, 48 bits to the instruction and to each  *)
(* postfix.  The assembler's core shifts a masked value down to the lowest *)
(* bit of its mask.                                                        *)
(***************************************************************************)
Reloc(lo, n, pos, byte) == <<lo, n, 8 * byte + pos>>

JumpRelocs(f, v) ==
    CASE f \in {"B", "BZ", "BI"} ->
            {Reloc(0, 32, 8, 5)} \cup (IF is_nbit(v, 32) THEN {} ELSE {Reloc(32, 32, 8, 10)})
      [] f \in {"B2", "BL2", "J2", "JL2"} -> {Reloc(0, 34, 14, 0)}
      [] f \in {"J4", "JL4"} -> {Reloc(1, 34, 14, 0)}
      [] f \in {"J3", "JL3"} -> {Reloc(1, 5, 9, 0), Reloc(6, 13, 19, 0)}

(* A mutant: the postfix part as if the postfix had no code                *)
CodeForgotten(f, v) == {Reloc(0, 25, 21, 0)} \cup (IF is_nbit(v, 25) THEN {} ELSE {Reloc(25, 39, 0, 6)})

ImmediateRelocs(f, v) ==
    CASE f = "RI" -> {Reloc(0, 25, 21, 0)} \cup (IF is_nbit(v, 25) THEN {} ELSE {Reloc(25, 39, 9, 6)})
      [] f \in {"RIA", "RIB"} ->
            IF is_nbit(v, 46) THEN {Reloc(7, 39, 9, 6)} ELSE {Reloc(7, 39, 9, 6), Reloc(46, 18, 9, 12)}
      [] f = "RISM" -> {Reloc(27, 37, 27, 0)}
      [] f = "RISH" -> {}
      [] f \in {"RIV", "RIM", "RIMV", "RTDI"} ->
            IF is_nbit(v, 32) THEN {Reloc(0, 32, 32, 0)} ELSE {}

MemoryRelocs(v, len) ==
    IF len = 3 /\ is_nbit(v, 8) THEN {Reloc(3, 5, 19, 0)}
    ELSE {Reloc(0, 15, 29, 0)} \cup (IF is_nbit(v, 15) THEN {} ELSE {Reloc(15, 39, 9, 6)})

RelocPieces(f, i, op, len) ==
    IF op.form = "num" \/ Resolved(f, i, op) \/ get_reloc_type(f, i, op.attr) = "NONE" THEN {}
    ELSE IF is_branch(f) /\ f # "BL" THEN JumpRelocs(f, op.v)
    ELSE IF f \in {"RI", "RIA", "RIB", "RISM", "RISH", "RIV", "RIM", "RIMV", "RTDI"}
         THEN ImmediateRelocs(f, op.v)
    ELSE IF f = "REGIND" THEN MemoryRelocs(op.v, len)
    ELSE IF f \in {"DIRECT", "SCNDX"} THEN MemoryRelocs(op.v, 6)
    ELSE IF f = "JSCNDX" THEN {Reloc(0, 15, 29, 0), Reloc(15, 39, 9, 6)}
    ELSE {Reloc(0, 63, 0, 0)}

(* sd: what the comparison of the operand's base register says             *)
make_reloc(f, i, op, len, sd) ==
    {[op |-> i, v |-> op.v, at |-> r,
      type |-> IF f = "REGIND" /\ sd THEN "SD" ELSE get_reloc_type(f, i, op.attr)] :
        r \in RelocPieces(f, i, op, len)}
=============================================================================
