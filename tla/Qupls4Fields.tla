---------------------------- MODULE Qupls4Fields ----------------------------
(***************************************************************************)
(* Instruction words of the Qupls4 assembler back end                      *)
(* (src/software/vasm/cpus/Qupls4): which fields each encoding routine of  *)
(* cpu.c puts an operand into, and which postfix words it appends.         *)
(***************************************************************************)
EXTENDS Qupls4Operands

(***************************************************************************)
(* Fields of cpu.h, as pieces <<0, bits, position>>                        *)
(***************************************************************************)
Field(n, at) == <<0, n, at>>
NoField == Field(0, 0)

RD == Field(7, 7)
RS1 == Field(7, 14)
RS2 == Field(7, 21)
RS3 == Field(7, 28)
RS4 == Field(7, 34)
RS5 == Field(6, 34)
RS6 == Field(6, 39)
LSDISP == Field(16, 28)

(* The fields that rows fix; the opcode itself is in bits 0 to 6 *)
FixedFields ==
    [ BFFUNC |-> Field(7, 41), BFMB |-> Field(7, 21), BFME |-> Field(7, 28),
      BFN |-> Field(4, 7), BRMS |-> Field(3, 11), CM |-> Field(2, 8), CND3 |-> Field(3, 9),
      COND |-> Field(4, 7), FLT1 |-> Field(5, 22), FMT2 |-> Field(2, 38), FMT3 |-> Field(3, 37),
      FUNC3 |-> Field(3, 37), FUNC5 |-> Field(5, 35), IM2 |-> Field(2, 25),
      INCDEC |-> Field(1, 46), IPR |-> Field(2, 23), LKS |-> Field(3, 16), LKT |-> Field(3, 7),
      LSFUNC |-> Field(4, 60), LSSIZE |-> Field(2, 30), MS3 |-> Field(3, 38),
      NRB |-> Field(1, 33), OP3 |-> Field(3, 35), OP4 |-> Field(4, 37), R1FUNC |-> Field(7, 21),
      R2FUNC |-> Field(7, 41), R3FUNC |-> Field(7, 41), RA |-> RS1, RB |-> RS2, RD |-> RD,
      RS3 |-> RS3, RTYPE |-> Field(2, 13), S |-> Field(4, 44), SC |-> Field(2, 22),
      SHFUNC |-> Field(4, 60), SHI |-> Field(1, 43) ]

FixedBits(row) ==
    IF row.f = "DATA" THEN {}
    ELSE 0..6 \cup Span({FixedFields[x] : x \in row.fixed})
         \cup (IF "INTI" \in row.tags THEN {46, 47} ELSE {})

(***************************************************************************)
(* encode_reg: the field of a register by format and operand               *)
(***************************************************************************)
RegFieldsA ==
    [ PRED |-> <<RS1, RS1, RS1>>,
      R2 |-> <<RD, RS1, RS2>>,
      R2S |-> <<Field(5, 7), Field(5, 14), Field(5, 21)>>,
      R3 |-> <<RD, RS1, RS2, RS3>>, ENTER |-> <<RD, RS1, RS2, RS3>>, LEAVE |-> <<RD, RS1, RS2, RS3>>,
      RI |-> <<RD, RS1>>,
      RIA |-> <<RD, NoField, RS2>>,
      RIB |-> <<RD, RS1, NoField>>,
      B |-> <<RS1, RS2, RS3, RS4>>,
      REGIND |-> <<RD, RS1, RS2>>,
      SCNDX |-> <<RD, RS1>> ]

(* SI: registers of seven bits at a distance of six                        *)
RegFieldsB ==
    [ RII |-> <<RD, RS1>>, RTDI |-> <<RD, RS1>>, RIM |-> <<RD, RS1>>,
      RISH |-> <<RD>>, RISM |-> <<RD>>,
      RIV |-> <<RD, NoField, RS1>>, RIS |-> <<RD, NoField, RS1>>, RIMV |-> <<RD, NoField, RS1>>,
      BFR3IR |-> <<RD, RS1, NoField, RS3>>,
      SI |-> <<Field(8, 9), Field(8, 15), Field(8, 21)>>,
      R1 |-> <<RD, RS1>>, BFR3II |-> <<RD, RS1>>, RI6 |-> <<RD, RS1>>,
      SH |-> <<RD, RS1, RS2, RS3>>,
      CSR |-> <<RD, RS1, RS2, RS3>>, R3RI |-> <<RD, RS1, RS2, RS3>>,
      BFR3RI |-> <<RD, RS1, RS2, RS3>>, SHIFTI |-> <<RD, RS1, RS2, RS3>>,
      MV |-> <<RD, RS1>>,
      RTDR |-> <<RD, RS1>> ]

SevenRegisters == <<RD, RS1, RS2, RS3, RS4, RS5, RS6>>

RegFieldsC ==
    [ R7 |-> SevenRegisters, R6 |-> SevenRegisters, R5 |-> SevenRegisters,
      R4 |-> SevenRegisters, R3RR |-> SevenRegisters,
      BI |-> <<RS1, RS2>>,
      BZ |-> <<RS1>>,
      BL2 |-> <<RD>>,
      J3 |-> <<RS1>>,
      BL |-> <<NoField, RS1, RS2, RS3>>,
      JL3 |-> <<NoField, RS1>>,
      JSCNDX |-> <<RD, RS1>>,
      DIRECT |-> <<RD>> ]

Nth(fields, i) == IF i + 1 \in DOMAIN fields THEN fields[i + 1] ELSE NoField
RegField(f, i) ==
    CASE f \in DOMAIN RegFieldsA -> Nth(RegFieldsA[f], i)
      [] f \in DOMAIN RegFieldsB -> Nth(RegFieldsB[f], i)
      [] f \in DOMAIN RegFieldsC -> Nth(RegFieldsC[f], i)
      [] OTHER -> NoField

(***************************************************************************)
(* An effect on the instruction: the pieces that the value goes through,   *)
(* bits cleared before and bits set besides, postfixes appended, and the   *)
(* size returned.  "all" drops the operand's word for the value 1.         *)
(***************************************************************************)
Effect(v, pieces, size) ==
    [v |-> v, pieces |-> pieces, clear |-> {}, set |-> {}, post |-> <<>>, size |-> size, all |-> FALSE]

(***************************************************************************)
(* encode_reg: with the first register of some formats goes the predicate  *)
(* register for "always", which a predicate register further on replaces.  *)
(* (No row has a predicate register for an operand.)                       *)
(***************************************************************************)
PREDI == Field(3, 25)
PREDSI == Field(3, 16)
PREDF == Field(3, 54)

Always(f) ==
    CASE f \in {"RII", "RTDI", "RIM", "RTDR"} -> PREDI
      [] f \in {"RIV", "RIS", "RIMV"} -> PREDSI
      [] f \in {"R1", "BFR3II", "RI6", "MV", "BI", "JSCNDX"} -> PREDF
      [] OTHER -> NoField

(* The operand that is the predicate register, the bits cleared for it     *)
(* and its field                                                           *)
PredicateOperand(f) ==
    CASE f \in {"RII", "RTDI", "RIM"} -> [i |-> 2, old |-> PREDI, new |-> PREDI]
      [] f \in {"RIV", "RIS", "RIMV"} -> [i |-> 4, old |-> PREDSI, new |-> PREDSI]
      [] f \in {"R1", "BFR3II", "RI6"} -> [i |-> 4, old |-> PREDF, new |-> PREDI]
      [] f \in {"CSR", "R3RI", "BFR3RI", "SHIFTI"} -> [i |-> 4, old |-> PREDF, new |-> PREDF]
      [] f = "MV" -> [i |-> 2, old |-> PREDF, new |-> PREDF]
      [] f = "BI" -> [i |-> 3, old |-> PREDF, new |-> PREDF]
      [] OTHER -> [i |-> 7, old |-> NoField, new |-> NoField]

(* BI or-s the complement of its predicate field into the word             *)
encode_reg(f, reg, i, size) ==
    LET p == PredicateOperand(f)
    IN  CASE i = p.i /\ f = "BI" ->
                [Effect(reg, {}, size) EXCEPT !.clear = Span({p.old}),
                                              !.set = 0..63 \ PutPiece(reg, p.new)]
          [] i = p.i /\ f # "BI" -> [Effect(reg, {p.new}, size) EXCEPT !.clear = Span({p.old})]
          [] OTHER -> [Effect(reg, {RegField(f, i)}, size) EXCEPT
                        !.set = IF i = 0 THEN Span({Always(f)}) ELSE {}]

(* A postfix <<code, second, lo, n>>: n bits of the value from lo, at bit 9*)
(* of a word whose low six bits name the operand and whose bit 6 says that *)
(* it is the second one for it                                             *)
First(code, lo, n) == [code |-> code, second |-> FALSE, lo |-> lo, n |-> n, at |-> 9]
Second(code, lo, n) == [code |-> code, second |-> TRUE, lo |-> lo, n |-> n, at |-> 9]

PostfixWord(v, p) ==
    BitsOf(p.code) \cup (IF p.second THEN {6} ELSE {}) \cup PutPiece(v, <<p.lo, p.n, p.at>>)

(* A mutant: the postfix starts at the last bit of the field               *)
OverlappingPostfix(row, v, i) ==
    [Effect(v, IF i = 2 THEN {<<0, 25, 21>>} ELSE {}, row.len) EXCEPT
        !.post = IF is_nbit(v, 25) THEN <<>> ELSE <<First(61, 24, 39)>>]

(* encode_immed_RI: 25 bits of the third operand and 39 in a postfix; a    *)
(* displacement as the fourth operand                                      *)
encode_immed_RI(row, v, i) ==
    CASE i = 2 -> [Effect(v, {<<0, 25, 21>>}, row.len) EXCEPT
                    !.post = IF is_nbit(v, 25) THEN <<>> ELSE <<First(61, 25, 39)>>]
      [] i = 3 /\ "LSDISP" \in row.tags ->
            [Effect(v, {LSDISP}, row.len) EXCEPT
                !.post = IF is_nbit(v, 16) THEN <<>>
                         ELSE IF is_nbit(v, 55) THEN <<First(62, 16, 39)>>
                         ELSE <<First(62, 16, 36), Second(62, 55, 9)>>]
      [] OTHER -> Effect(v, {}, row.len)

(* encode_immed_RIA, RIB, RIC and RID: a seven bit field and postfixes *)
SevenBits(v, field, code, size) ==
    [Effect(v, {field}, size) EXCEPT
        !.post = IF is_nbit(v, 7) THEN <<>>
                 ELSE IF is_nbit(v, 46) THEN <<First(code, 7, 39)>>
                 ELSE <<First(code, 7, 39), Second(code, 46, 18)>>]

encode_immed_RIA(row, v) == SevenBits(v, RS1, 60, row.len)
(* A mutant: the field of RIA in RIB *)
FieldOfRIA(row, v) == SevenBits(v, RS1, 61, row.len)

encode_immed_RIB(row, v) == SevenBits(v, RS2, 61, row.len)
encode_immed_RID(row, v) == SevenBits(v, RD, 63, row.len)

(* encode_direct: the words for a displacement of more than 16 bits are    *)
(* made but not marked valid, so that none is appended                     *)
encode_direct(row, v) == Effect(v, {LSDISP}, row.len)

(* encode_ipfx: only its size is used, by J2 and J4 *)
encode_ipfx(v) == IF is_nbit(v, 18) THEN 3 ELSE IF is_nbit(v, 42) THEN 6 ELSE 9

(***************************************************************************)
(* encode_immed: for each format the pieces of operands 0 to 3, when the   *)
(* value is constant and when it is not.  Formats that are branches do not *)
(* come here.                                                              *)
(***************************************************************************)
Each(pieces) == <<pieces, pieces, pieces, pieces>>
None == {}
Scale == {Field(2, 22)}
BFOFFS == {Field(7, 21)}
BFWID == {Field(7, 28)}

ConstantPieces ==
    [ SI |-> Each({Field(7, 30)}),
      ATOM |-> Each({Field(24, 7)}),
      CSR |-> Each({Field(8, 24), <<8, 31, 33>>}),
      RTDR |-> <<None, {Field(32, 32)}, {Field(3, 7)}>>,
      RTS |-> Each({Field(6, 11)}),
      R2 |-> Each({RS2}), R2S |-> Each({RS2}),
      R3 |-> <<None, None, {RS2}, {RS3}>>,
      BFR3RI |-> <<None, None, BFOFFS, BFWID>>, BFR3IR |-> <<None, None, BFOFFS, BFWID>>,
      BFR3II |-> <<None, None, BFOFFS, BFWID>>,
      SHIFTI |-> Each({Field(7, 29)}),
      RI6 |-> Each({Field(6, 19)}),
      RII |-> <<None, None, {Field(7, 23)}, {Field(7, 30)}>>,
      CSRI |-> <<None, {Field(7, 16)}, {Field(8, 25), <<8, 5, 34>>}>>,
      ENTER |-> <<None, None, None, {<<3, 22, 25>>}>>,
      LEAVE |-> <<None, None, None, {<<3, 22, 25>>}>>,
      RIS |-> <<None, {Field(37, 27)}, Scale>>,
      RISM |-> <<None, {<<32, 36, 27>>}, Scale>>,
      RISH |-> <<None, {<<64, 32, 27>>}, Scale>>,
      SYNC |-> Each({Field(19, 10)}),
      RIL |-> Each(None), RTDI |-> Each(None), REP |-> Each(None) ]

OtherConstant == {Field(8, 23), <<8, 7, 33>>}

LabelPieces ==
    [ SI |-> Each({Field(7, 30)}),
      ATOM |-> Each({Field(24, 7)}),
      CSRI |-> <<None, {Field(7, 16)}, {Field(8, 23), <<8, 6, 32>>}>>,
      RTDR |-> <<None, {Field(32, 32)}, {Field(3, 7)}>>,
      CSR |-> Each(None),
      SHIFTI |-> Each({Field(7, 26)}),
      RI6 |-> Each({Field(6, 26)}),
      R2 |-> Each({RS2}),
      BFR3RI |-> <<None, None, BFOFFS, BFWID>>, BFR3IR |-> <<None, None, BFOFFS, BFWID>>,
      BFR3II |-> <<None, None, BFOFFS, BFWID>>,
      RIS |-> <<None, {Field(37, 27)}, Scale>>,
      RISM |-> <<None, {<<32, 32, 27>>}, Scale>>,
      RISH |-> <<None, {<<64, 36, 27>>}, Scale>>,
      RIL |-> Each(None),
      RII |-> <<None, None, {Field(7, 23)}, {Field(7, 30)}>>,
      REP |-> Each(None) ]

Pieces(table, f, i) == IF i + 1 \in DOMAIN table[f] THEN table[f][i + 1] ELSE None

(* FLG_NEGIMM.  No row has it together with FLG_FP: that flag of fsub is   *)
(* one place too far, in the column of the short opcode.                   *)
Negated(row, v) == IF "NEGIMM" \in row.tags THEN Neg(v) ELSE v

ConstantImmediate(row, value, i) ==
    LET v == Negated(row, value)
    IN  CASE row.f = "RIA" -> encode_immed_RIA(row, v)
          [] row.f = "RIB" -> encode_immed_RIB(row, v)
          [] row.f = "REGIND" -> IF i = 0 THEN encode_immed_RID(row, v) ELSE Effect(v, None, 6)
          [] row.f \in {"RI", "LDI"} -> encode_immed_RI(row, v, i)
          [] row.f = "DIRECT" -> IF i = 1 THEN encode_direct(row, v) ELSE Effect(v, None, row.len)
          [] row.f = "RISH" -> Effect(Wide(v), Pieces(ConstantPieces, "RISH", i), 6)
          [] row.f = "ENTER" -> Effect(Neg(v), Pieces(ConstantPieces, "ENTER", i), 6)
          [] row.f \in DOMAIN ConstantPieces \ {"RISH", "ENTER"} ->
                Effect(v, Pieces(ConstantPieces, row.f, i), IF row.f = "CSR" THEN 8 ELSE 6)
          [] OTHER -> Effect(v, OtherConstant, 6)

(* A label in a format that has no place for one: "a | b || c" of line     *)
(* 3187 leaves the whole word 1.                                           *)
LabelImmediate(row, value, i) ==
    LET v == Negated(row, value)
    IN  CASE row.f \in {"RI", "LDI"} -> encode_immed_RI(row, v, i)
          [] row.f = "DIRECT" -> IF i = 1 THEN encode_direct(row, v) ELSE Effect(v, None, row.len)
          [] row.f = "RISH" -> Effect(Wide(v), Pieces(LabelPieces, "RISH", i), 6)
          [] row.f \in DOMAIN LabelPieces \ {"RISH"} ->
                Effect(v, Pieces(LabelPieces, row.f, i),
                       IF row.f \in {"CSRI", "BFR3RI", "BFR3IR", "BFR3II"} THEN 8 ELSE 6)
          [] OTHER -> IF is_nbit(v, 16) THEN [Effect(v, None, 6) EXCEPT !.all = TRUE]
                      ELSE Effect(v, {Field(8, 8)}, 6)

encode_pred(v) == Effect(v, {Field(16, 22)}, 6)

(***************************************************************************)
(* Branches                                                                *)
(***************************************************************************)
(* A comparand: register number or seven bits and postfixes, with its bit  *)
(* of MS set; the bits of the opcode's upper half are cleared with it.     *)
Comparand(v, code, ms, at) ==
    [Effect(v, {Field(7, at)}, 6) EXCEPT
        !.set = {ms}, !.clear = (at..at+6) \cup 48..63,
        !.post = IF FitsSigned(v, 7) THEN <<>>
                 ELSE IF is_nbit(v, 46) THEN <<First(code, 7, 39)>>
                 ELSE <<First(code, 7, 39), Second(code, 46, 18)>>]

encode_branch_B(row, v, i) ==
    CASE i = 0 -> Comparand(v, 60, 11, 14)
      [] i = 1 /\ "BZ" \in row.tags ->
            [Effect(v, {Field(19, 28)}, 6) EXCEPT !.clear = 28..46 \cup 48..63]
      [] i = 1 /\ "BZ" \notin row.tags -> Comparand(v, 61, 12, 21)
      [] i = 2 -> [Effect(v, {Field(17, 28)}, 6) EXCEPT
                    !.post = IF is_nbit(v, 17) THEN <<>>
                             ELSE IF is_nbit(v, 56) THEN <<First(62, 17, 39)>>
                             ELSE <<First(62, 17, 39), Second(62, 56, 8)>>]
      [] OTHER -> Effect(v, None, 6)

encode_branch_BL2(row, v, i) ==
    IF i # 1 THEN Effect(v, None, row.len)
    ELSE [Effect(v, {<<1, 35, 14>>}, row.len) EXCEPT
            !.post = IF is_nbit(v, 35) THEN <<>> ELSE <<First(60, 35, 29)>>]

(* J2 and J4 count an immediate postfix in their size that is never        *)
(* appended.                                                               *)
encode_J2(v) ==
    Effect(v, {<<1, 34, 15>>}, 6 + (IF is_nbit(v, 34) THEN 0 ELSE encode_ipfx(v)))
encode_J4(v) ==
    Effect(v, {<<1, 34, 14>>}, 6 + (IF is_nbit(v, 35) THEN 0 ELSE encode_ipfx(v)))

(* The pieces of an immediate target; 6 is what isize starts from *)
encode_branch(row, v, i) ==
    CASE row.f \in {"B", "BI"} -> encode_branch_B(row, v, i)
      [] row.f = "BZ" -> encode_branch_B(row, v, i + 1)
      [] row.f = "B2" -> encode_branch_BL2(row, v, i + 1)
      [] row.f = "BL2" -> encode_branch_BL2(row, v, i)
      [] row.f = "J2" -> encode_J2(v)
      [] row.f = "J4" -> encode_J4(v)
      [] row.f = "JL2" -> Effect(v, {Field(32, 32)}, 6)
      [] row.f = "JL4" -> Effect(v, {<<3, 46, 14>>}, 6)
      [] row.f = "J3" -> Effect(v, IF i = 1 THEN {<<1, 5, 9>>, <<6, 13, 21>>} ELSE None, 8)
      [] row.f = "JL3" -> Effect(v, IF i = 2 THEN {<<1, 5, 9>>, <<6, 13, 19>>} ELSE None, 8)

(* A register with displacement as the target of a jump, the register's    *)
(* field, the displacement's and the size                                  *)
IndirectTarget(f) ==
    IF f = "JL2" THEN [base |-> RS3, disp |-> Field(32, 32)]
    ELSE [base |-> RS1, disp |-> Field(32, 32)]

(***************************************************************************)
(* Memory operands                                                         *)
(***************************************************************************)
encode_regind(row, v, i) ==
    [base |-> IF i = 0 THEN RD ELSE IF i = 1 THEN RS1 ELSE NoField,
     effect |-> IF i = 1 THEN encode_direct(row, v) ELSE Effect(v, None, row.len)]

(* The postfix of a scaled index displacement is the value itself, with    *)
(* the code put over its low bits.                                         *)
Raw(second, lo, n) == [code |-> 62, second |-> second, lo |-> lo, n |-> n, at |-> 0]

encode_scndx(row, op, v, i) ==
    [base |-> IF i = 0 THEN RD ELSE IF i = 1 THEN RS1 ELSE NoField,
     index |-> IF i = 1 THEN RS2 ELSE NoField,
     scale |-> IF i = 1 THEN Field(4, 44) ELSE NoField,
     effect |-> [Effect(v, IF i = 1 THEN {LSDISP} ELSE None, row.len) EXCEPT
                    !.post = IF is_nbit(v, 16) THEN <<>>
                             ELSE IF is_nbit(v, 55) THEN <<Raw(FALSE, 0, 48)>>
                             ELSE <<Raw(FALSE, 0, 48), Raw(TRUE, 55, 9)>>]]

ScaleBits(scale) == IF scale = 16 THEN {} ELSE BitsOf(scale)
=============================================================================
