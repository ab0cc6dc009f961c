--------------------------- MODULE StarkOperands ---------------------------
(***************************************************************************)
(* Operands of the Stark assembler back end                                *)
(* (src/software/vasm/cpus/Stark): how an operand is parsed, which field   *)
(* of the instruction or of the constant pool it is inserted into, and     *)
(* what is checked about its value.                                        *)
(***************************************************************************)
EXTENDS Integers, Sequences, FiniteSets, AsmBits
LOCAL INSTANCE SequencesExt

CONSTANTS
    Abits,          \* the option -abits: the width of addresses, 32 by default
    SdDirectives,   \* the numbers given by .sdreg, in the order of the file
    Sd2Directives   \* the numbers given by .sd2reg

ASSUME AbitsAssumption == Abits \in Nat
ASSUME SdDirectivesAssumption == SdDirectives \in Seq(Int) /\ Sd2Directives \in Seq(Int)

(***************************************************************************)
(* powerpc_operands.  The entries that no mnemonic of opcodes.h names, left*)
(* from the PowerPC, are not repeated here.                                *)
(***************************************************************************)
Opd(bits, shift, insert, flags) ==
    [bits |-> bits, shift |-> shift, insert |-> insert, flags |-> flags]

OperandsA ==
    [ BA     |-> Opd(11, 12, "ba", {"CR"}),
      CSRUI  |-> Opd(31, 0, "csrui", {}),
      BB     |-> Opd(11, 18, "bb", {"CR"}),
      BD     |-> Opd(31, 0, "bd", {"RELATIVE", "SIGNED"}),
      BS     |-> Opd(3, 26, "none", {"BR"}),
      BF     |-> Opd(3, 6, "none", {"CR"}),
      CRS    |-> Opd(7, 20, "crs", {"CR"}),
      CSRNO  |-> Opd(12, 17, "none", {"U14"}),
      BT     |-> Opd(11, 6, "bt", {"CR"}),
      D      |-> Opd(14, 17, "dsi", {"PARENS", "SIGNED"}),
      DX     |-> Opd(14, 17, "xsi", {"PARENS", "SIGNED"}),
      FRS    |-> Opd(5, 6, "none", {"FPR"}),
      LI     |-> Opd(26, 0, "li", {"RELATIVE", "SIGNED"}) ]

OperandsB ==
    [ BR     |-> Opd(3, 6, "none", {"BR"}),
      BRS    |-> Opd(3, 26, "none", {"BR"}),
      RL     |-> Opd(23, 6, "reglist", {"REGLIST"}),
      NSI    |-> Opd(14, 17, "nsi", {"NEGATIVE", "S14", "SIGNED"}),
      RA     |-> Opd(5, 11, "none", {"GPR"}),
      RB     |-> Opd(5, 17, "none", {"GPR"}),
      RC     |-> Opd(5, 22, "none", {"GPR"}),
      RS     |-> Opd(5, 6, "none", {"GPR"}),
      SH6    |-> Opd(6, 17, "sh6", {}),
      SI     |-> Opd(14, 17, "si", {"S14", "SIGNED"}),
      BLR    |-> Opd(31, 0, "blr", {"SIGNED"}),
      LMT    |-> Opd(9, 17, "none", {"SIGNED"}),
      UI     |-> Opd(14, 17, "ui", {"U14"}),
      UI9    |-> Opd(9, 17, "ui", {"UI"}),
      EXFMT  |-> Opd(3, 26, "ui", {"UI"}) ]

OperandsC ==
    [ SCNDX  |-> Opd(5, 24, "scndx", {"PARENS", "SCNDX"}),
      DBRS   |-> Opd(31, 0, "dbrs", {"PARENS", "SIGNED"}),
      MOVRD  |-> Opd(5, 8, "movrd", {"GPR", "FPR", "CR", "BR"}),
      MOVRS  |-> Opd(5, 8, "movrs", {"GPR", "FPR", "CR", "BR"}),
      M12    |-> Opd(31, 0, "m12", {}),
      MPV    |-> Opd(3, 23, "none", {}),
      MD     |-> Opd(4, 20, "none", {}),
      MVRD   |-> Opd(31, 0, "mvrd", {}),
      MVRS   |-> Opd(31, 0, "mvrs", {}) ]

OperandTypes == DOMAIN OperandsA \cup DOMAIN OperandsB \cup DOMAIN OperandsC

powerpc_operands ==
    [t \in OperandTypes |->
        IF t \in DOMAIN OperandsA THEN OperandsA[t]
        ELSE IF t \in DOMAIN OperandsB THEN OperandsB[t] ELSE OperandsC[t]]

(* The operand lists of opcodes.h, RT being another name of RS *)
RowsA ==
    { <<>>, <<"RS","RA","SI">>, <<"RS","RA","RB">>, <<"RS","RB","DX">>, <<"RS","RA","UI">>,
      <<"UI","M12">>, <<"CRS","BD">>, <<"LI">>, <<"CRS","BS">>, <<"BD">>, <<"BS","RA">>,
      <<"BS","BLR">>, <<"BS">>, <<"DBRS","LMT">>, <<"BR","DBRS">>, <<"BR">>,
      <<"BF","RA","RB">>, <<"BF","RA","SI">>, <<"BF","RA","UI">>, <<"RS","RB","RC","D">>,
      <<"RS","RA">>, <<"BT","BA","BB">>, <<"RS","CSRNO">>, <<"RS","CSRNO","RA">>,
      <<"RS","CSRNO","CSRUI">>, <<"UI">>, <<"RB">>, <<"RS","RA","UI9","EXFMT">>,
      <<"RS","RA","SH6","SH6">>, <<"RS","D">>, <<"RS","SI">>, <<"RS","SCNDX">>,
      <<"FRS","D">>, <<"FRS","SCNDX">> }

RowsB ==
    { <<>>, <<"RS","D">>, <<"RS","SI">>, <<"RS","SCNDX">>, <<"MOVRD","MOVRS">>,
      <<"MOVRD","MOVRS","MD">>, <<"MPV","M12">>, <<"RS","RA","RB">>, <<"RS","RA","SI">>,
      <<"RS","RA">>, <<"RS","RA","UI">>, <<"CRS","BD">>, <<"BD">>, <<"RL">>, <<"SI","D">>,
      <<"SI","SCNDX">>, <<"SI","SI">>, <<"FRS","D">>, <<"FRS","SCNDX">>,
      <<"RS","RA","SH6">>, <<"RS","RB","RA">>, <<"RS","RA","NSI">>, <<"MVRD","MVRS","MD">> }

Rows == RowsA \cup RowsB

(***************************************************************************)
(* Registers and register lists                                            *)
(***************************************************************************)
(* regop: the class of each register number.  32..63 are the branch, status*)
(* and control registers between the general and the floating point ones.  *)
RegClass(n) ==
    IF n \in 33..39 THEN "BR"
    ELSE IF n = 45 THEN "CB"
    ELSE IF n = 55 THEN "MPC"
    ELSE IF n \in 56..63 THEN "CR"
    ELSE IF n \in 64..95 THEN "FPR"
    ELSE "GPR"

(* is_reg.  A name with a decimal number is always a general register; a   *)
(* condition suffix .eq .. .so is added from bit 8 up.                     *)
SuffixIndex(s) ==
    CASE s \in {"none", "eq"} -> 0 [] s = "nand" -> 1 [] s = "nor" -> 2
      [] s = "lt" -> 3 [] s = "le" -> 4 [] s = "ca" -> 5 [] s = "so" -> 6

IsReg(r) ==
    [ value |-> BitsOf(r.n) \cup {b + 8 : b \in BitsOf(SuffixIndex(r.suffix))},
      class |-> IF r.numbered THEN "GPR" ELSE RegClass(r.n) ]

(* The pattern of a list a/b/c-d: the loop over a range stops when it has  *)
(* reached the last register, before that one is set.                      *)
ItemRegs(item) ==
    IF item[1] = item[2] THEN {item[1]}
    ELSE IF item[1] < item[2] THEN item[1]..item[2]-1 ELSE item[2]+1..item[1]

RegPattern(items) ==
    UNION {{n % 16} \cup {28 + b : b \in BitsOf((n \div 16) % 16)} :
               n \in UNION {ItemRegs(items[i]) : i \in DOMAIN items}}

(***************************************************************************)
(* parse_operand: a source operand s against an operand type.  s.t is      *)
(* "reg", "list", "expr" or "mem"; s.form says whether an expression is a  *)
(* number, a symbol or something else.                                     *)
(***************************************************************************)
NoMatch == [match |-> FALSE]
Parsed(v, clr, base, ndx) ==
    [match |-> TRUE, v |-> v, clr |-> clr, base |-> base, ndx |-> ndx]

ParseRegisters(s, optype) ==
    LET flags == powerpc_operands[optype].flags
        list  == s.t = "list" \/ optype = "RL"
        class == IF list THEN "REGLIST" ELSE IsReg(s.r).class
    IN  IF {class, "REGLIST"} \cap flags = {} THEN NoMatch
        ELSE Parsed(IF ~list THEN IsReg(s.r).value
                    ELSE IF s.t = "list" THEN RegPattern(s.items)
                    ELSE RegPattern(<<<<s.r.n, s.r.n>>>>),
                    FALSE, {}, {})

(* OPM_CLR marks the operands that need a constant on the cache line       *)
MarkedClr(s, optype) ==
    LET flags == powerpc_operands[optype].flags
    IN  CASE s.form = "num" ->
                IF flags \cap {"U14", "UI"} # {} THEN ~FitsUnsigned(s.v, 14)
                ELSE ~FitsSigned(s.v, 14)
          [] s.form \in {"sym", "ext"} -> "RELATIVE" \notin flags /\ optype # "CSRNO"
          [] OTHER -> FALSE

ParseMemory(s, optype) ==
    LET flags == powerpc_operands[optype].flags
        base  == IsReg(s.base)
        mode  == IF s.indexed THEN "SCNDX" ELSE "PARENS"
    IN  IF /\ "PARENS" \in flags
           /\ base.class = "GPR" \/ (base.class = "BR" /\ optype = "DBRS")
           /\ mode \in flags
        THEN Parsed(s.v, MarkedClr(s, optype),
                    IF optype = "DBRS" THEN base.value \cap Low(3) ELSE base.value,
                    IF s.indexed THEN IsReg(s.ndx).value ELSE {})
        ELSE NoMatch

ParseOperand(s, optype) ==
    CASE s.t \in {"reg", "list"} -> ParseRegisters(s, optype)
      [] s.t = "expr" -> Parsed(s.v, MarkedClr(s, optype), {}, {})
      [] s.t = "mem" -> ParseMemory(s, optype)

(***************************************************************************)
(* The insert functions.  Each takes a value and the words of constants    *)
(* already on the line.  It gives the number held by the instruction (the  *)
(* value or a place on the line), the pieces that hold it, further bits it *)
(* sets, what remains of the value, and the words it pools.                *)
(***************************************************************************)
CONSTANT Words          \* words in a cache line: 16

Inserted(held, pieces, flags, rest, size) ==
    [held |-> held, pieces |-> pieces, flags |-> flags, rest |-> rest,
     size |-> size, error |-> FALSE, whole |-> FALSE]

InField(v, pieces) == Inserted(v, pieces, {}, v, 0)

(* A constant of size words, its place on the line at bits at .. at+3, and *)
(* bit 29 or 30 set to say that the operand is a place on the line.        *)
OnLine(size, tot, at) ==
    Inserted(BitsOf((Words - tot - size) % 16), {<<0, 4, at>>}, {28 + size}, {}, size)

InsertSi(v, tot) ==
    IF FitsSigned(v, 14) THEN InField(v, {<<0, 14, 17>>})
    ELSE OnLine(IF FitsSigned(v, 32) THEN 1 ELSE 2, tot, 18)

(* Mutant: the displacement still as wide as in a PowerPC instruction      *)
SixteenBits(v, tot) ==
    IF FitsSigned(v, 16) THEN InField(v, {<<0, 16, 17>>})
    ELSE OnLine(IF FitsSigned(v, 32) \/ Abits <= 32 THEN 1 ELSE 2, tot, 18)

InsertDsi(v, tot) ==
    IF FitsSigned(v, 14) THEN InField(v, {<<0, 14, 17>>})
    ELSE OnLine(IF FitsSigned(v, 32) \/ Abits <= 32 THEN 1 ELSE 2, tot, 18)

(* A value that fits makes the function return 4 in place of the           *)
(* instruction.                                                            *)
InsertUi(v, tot) ==
    IF FitsUnsigned(v, 14)
    THEN [InField(v, {}) EXCEPT !.whole = TRUE]
    ELSE OnLine(IF FitsUnsigned(v, 32) THEN 1 ELSE 2, tot, 18)

InsertNsi(v, tot) == InsertSi(Neg(v), tot)

InsertXsi(v, tot) == [Inserted(v, {}, {31}, v, 0) EXCEPT !.error = v # {}]

InsertCsrui(v, tot) == OnLine(IF FitsUnsigned(v, 32) THEN 1 ELSE 2, tot, 12)

InsertBlr(v, tot) == OnLine(IF FitsSigned(v, 32) THEN 1 ELSE 2, tot, 10)

(* For a 32-bit constant the number of the bucket is put where the place   *)
(* on the line belongs.                                                    *)
InsertDbrs(v, tot, bucketno) ==
    IF FitsSigned(v, 32)
    THEN Inserted(BitsOf(bucketno % 16), {<<0, 4, 10>>}, {29}, {}, 1)
    ELSE OnLine(2, tot, 10)

BdPieces == {<<2, 1, 0>>, <<3, 8, 6>>, <<11, 3, 29>>}
InsertBd(v, tot) ==
    IF FitsSigned(v, 13) THEN InField(v, BdPieces)
    ELSE OnLine(IF FitsSigned(v, 32) THEN 1 ELSE 2, tot, 10)

LiPieces == {<<2, 1, 0>>, <<3, 22, 9>>}
InsertLi(v, tot) ==
    IF ~FitsSigned(v, 25) THEN [InField(v, {}) EXCEPT !.error = TRUE]
    ELSE [InField(v, LiPieces) EXCEPT !.error = v \cap {0, 1} # {}]

(* Mutant: the place of a scaled index displacement put as for d[Rn]       *)
ScndxLikeDsi(v, tot) ==
    IF FitsSigned(v, 5) THEN InField(v, {<<0, 5, 24>>})
    ELSE OnLine(IF FitsSigned(v, 32) THEN 1 ELSE 2, tot, 18)

InsertScndx(v, tot) ==
    IF FitsSigned(v, 5) THEN InField(v, {<<0, 5, 24>>})
    ELSE OnLine(IF FitsSigned(v, 32) THEN 1 ELSE 2, tot, 24)

(* The field has 12 bits; the bits of a larger number go on to bit 31.     *)
M12Pieces(n) == {<<0, 1, 0>>, <<1, n, 9>>}
InsertM12(v, tot) ==
    IF FitsUnsigned(v, 12) THEN InField(v, M12Pieces(11))
    ELSE [InField(v, M12Pieces(23)) EXCEPT !.error = TRUE]

(* Register and small number fields, with no condition on the value        *)
FieldPieces ==
    [ movrd   |-> {<<0, 5, 6>>, <<5, 2, 17>>},
      movrs   |-> {<<0, 5, 11>>, <<5, 2, 19>>},
      reglist |-> {<<0, 8, 6>>, <<8, 9, 17>>, <<28, 2, 14>>, <<30, 2, 27>>},
      crs     |-> {<<0, 2, 20>>},
      bt      |-> {<<0, 3, 9>>, <<8, 3, 6>>},
      ba      |-> {<<0, 3, 15>>, <<8, 3, 12>>},
      bb      |-> {<<0, 3, 21>>, <<8, 3, 18>>} ]

(* insert_mvrd and insert_mvrs refuse register numbers above 224           *)
MvPieces == [ mvrd |-> {<<0, 5, 6>>, <<5, 2, 17>>}, mvrs |-> {<<0, 5, 11>>, <<5, 2, 19>>} ]
AboveMv(v) == ~FitsUnsigned(v, 8) \/ ({7, 6, 5} \subseteq v /\ v # {7, 6, 5})

InsertSh6(v, tot) == InField(v, {<<0, 6, 17>>})

(* insertcode *)
InsertCode(o, v, tot, bucketno) ==
    CASE o.insert = "si"    -> InsertSi(v, tot)
      [] o.insert = "dsi"   -> InsertDsi(v, tot)
      [] o.insert = "ui"    -> InsertUi(v, tot)
      [] o.insert = "nsi"   -> InsertNsi(v, tot)
      [] o.insert = "xsi"   -> InsertXsi(v, tot)
      [] o.insert = "csrui" -> InsertCsrui(v, tot)
      [] o.insert = "blr"   -> InsertBlr(v, tot)
      [] o.insert = "dbrs"  -> InsertDbrs(v, tot, bucketno)
      [] o.insert = "bd"    -> InsertBd(v, tot)
      [] o.insert = "li"    -> InsertLi(v, tot)
      [] o.insert = "scndx" -> InsertScndx(v, tot)
      [] o.insert = "sh6"   -> InsertSh6(v, tot)
      [] o.insert = "m12"   -> InsertM12(v, tot)
      [] o.insert \in DOMAIN FieldPieces -> InField(v, FieldPieces[o.insert])
      [] o.insert \in DOMAIN MvPieces ->
            [InField(v, MvPieces[o.insert]) EXCEPT !.error = AboveMv(v)]
      [] OTHER -> InField(v, {<<0, o.bits, o.shift>>})

(* Mutant: unsigned fields not checked                                     *)
UnsignedUnchecked(o, v, smalldata) ==
    "SIGNED" \in o.flags /\ ~(FitsSigned(v, o.bits) \/ FitsUnsigned(v, 14))

(***************************************************************************)
(* range_check, on what the insert function left of the value: TRUE when   *)
(* the value is reported as out of range.                                  *)
(***************************************************************************)
RangeError(o, v, smalldata) ==
    LET w == IF "NEGATIVE" \in o.flags THEN Neg(v) ELSE v
        u == IF o.flags \cap {"BR", "CR"} # {} THEN w \cap Low(3)
             ELSE IF o.flags \cap {"FPR", "GPR"} # {} THEN w \cap Low(5) ELSE w
    IN  IF "U14" \in o.flags THEN ~FitsUnsigned(u, 14)
        ELSE IF "S14" \in o.flags THEN ~FitsSigned(u, 14)
        ELSE IF "REGLIST" \in o.flags THEN ~FitsUnsigned(u, 31)
        ELSE IF "SIGNED" \in o.flags
             THEN ~(FitsSigned(u, o.bits) \/ (smalldata /\ FitsUnsigned(u, o.bits)))
        ELSE ~FitsUnsigned(u, o.bits)

(***************************************************************************)
(* Relocations                                                             *)
(***************************************************************************)
(* The relocation attribute of each suffix @... of an expression           *)
RelocAttr ==
    [ got |-> "GOT", plt |-> "PLT", sdax |-> "SD", sdarx |-> "SD", sdarel |-> "SD",
      sectoff |-> "SECOFF", local |-> "LOCALPC", globdat |-> "GLOBDAT",
      sda2rel |-> "SDA2", sda21 |-> "SDA21", sdai16 |-> "SDAI16", sda2i16 |-> "SDA2I16",
      drel |-> "DREL", brel |-> "BREL", none |-> "NONE" ]

ImmediateAttrs ==
    {"NONE", "GOT", "PLT", "SD", "SDA2", "SDA21", "SDAI16", "SDA2I16", "DREL", "BREL", "CLRIMM"}

Patchable(t) ==
    LET o == powerpc_operands[t]
    IN  /\ o.shift = 0 \/ (o.shift = 17 /\ o.bits = 14) \/ t = "DBRS"
        /\ o.bits \in {14, 16, 26} \/ t \in {"BD", "DBRS"}

(* get_reloc_type, "error" for an attribute the operand does not support   *)
GetRelocType(t, attr) ==
    IF ~Patchable(t) THEN "NONE"
    ELSE IF "RELATIVE" \in powerpc_operands[t].flags
    THEN CASE attr = "NONE" -> "PC" [] attr = "PLT" -> "PLTPC"
           [] attr = "LOCALPC" -> "LOCALPC" [] OTHER -> "error"
    ELSE IF attr = "NONE" THEN "ABS"
    ELSE IF attr \in ImmediateAttrs THEN attr ELSE "error"

(* Mutant: the place of bit 3 taken from LI                                *)
LiPlaces(t) == IF t \in {"BD", "LI"} THEN {<<2, 1, 0>>, <<3, 8, 9>>} ELSE {}

(* make_reloc for a branch to an external symbol: the pieces of the        *)
(* address the linker is asked to patch.  A third piece is computed and    *)
(* not added.                                                              *)
BranchRelocs(t) == IF t \in {"BD", "LI"} THEN {<<2, 1, 0>>, <<3, 8, 6>>} ELSE {}

(* make_reloc for an immediate or a displacement marked OPM_CLR.  The      *)
(* relocation of a constant on the line is placed by the bucket after the  *)
(* last one in use, which is empty: word 0, and 64 bits wide unless the    *)
(* address width says otherwise.  A value that fits gets none.             *)
LineReloc(t, v) ==
    LET small == CASE t \in {"NSI", "SI", "D"} -> FitsSigned(v, 14)
                   [] t = "UI" -> FitsUnsigned(v, 14)
                   [] t = "SCNDX" -> FitsSigned(v, 5)
                   [] OTHER -> TRUE
    IN  IF small THEN {}
        ELSE {[word |-> 0, bits |-> IF t \in {"D", "SCNDX"} /\ Abits <= 32 THEN 32 ELSE 64]}

(* The attribute of an operand: parse_operand uses it for the mark too, so *)
(* that one written behind a marked number or symbol is an error.          *)
Attr(s, clr) ==
    IF s.t \in {"expr", "mem"} /\ s.attr # "none" THEN RelocAttr[s.attr]
    ELSE IF clr THEN "CLRIMM" ELSE "NONE"
TwoAttrs(s, clr) == s.t \in {"expr", "mem"} /\ s.attr # "none" /\ clr

(* make_reloc: "sym" is a symbol of the section, "ext" one of another file *)
Symbolic(s) == s.t \in {"expr", "mem"} /\ s.form # "num"

IllegalReloc(s, t, type, clr) ==
    Symbolic(s) /\ type \notin {"NONE", "error"} /\ BranchRelocs(t) = {} /\ ~clr

MakeReloc(s, t, type, clr) ==
    IF ~Symbolic(s) \/ type \in {"NONE", "error"} THEN {}
    ELSE IF type = "PC" /\ s.form = "sym" THEN {}
    ELSE IF BranchRelocs(t) # {}
         THEN {[line |-> FALSE, at |-> b, type |-> type] : b \in BranchRelocs(t)}
    ELSE IF clr THEN {[line |-> TRUE, at |-> <<0, l.bits, 32 * l.word>>, type |-> "CLRIMM"] :
                         l \in LineReloc(t, s.v)}
    ELSE {}

(* The registers of the small data areas: the last .sdreg and .sd2reg of   *)
(* the file, numbers that are no registers left out                        *)
read_sdreg(def, n) == IF n \in 0..31 THEN n ELSE def
sdreg == BitsOf(FoldLeft(read_sdreg, 28, SdDirectives))
sd2reg == BitsOf(FoldLeft(read_sdreg, 2, Sd2Directives))

(* What a memory operand that is not marked does to the relocations of the *)
(* instruction                                                             *)
fix_reloctype(relocs, base) ==
    IF base = sdreg THEN {[r EXCEPT !.type = "SD"] : r \in relocs}
    ELSE IF base = sd2reg THEN {[r EXCEPT !.type = "SDA2"] : r \in relocs}
    ELSE relocs
=============================================================================
