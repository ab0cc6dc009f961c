------------------------- MODULE CoproEncodeProofs -------------------------
(***************************************************************************)
(* Proofs about CoproEncode: what every instruction that the assembler     *)
(* back end of the coprocessor encodes is, for every set of source         *)
(* operands.                                                               *)
(*   - opcodes, registers and the rows of mnemonics[]: every row fixes its *)
(*     opcode and has one of a few shapes;                                 *)
(*   - the inductive invariant: the instruction is a function of the row   *)
(*     and of the operands so far;                                         *)
(*   - its steps, one lemma per action;                                    *)
(*   - the instruction when it is done: its size and its relocations, what *)
(*     the coprocessor reads of it, what is there after linking, and what  *)
(*     can be read back of its operands.                                   *)
(***************************************************************************)
EXTENDS CoproEncode, BaseLemmas, TLAPS

LEMMA Opcodes ==
  /\ OPC(1) = {0} /\ OPC(3) = {0,1} /\ OPC(4) = {2} /\ OPC(5) = {0,2}
  /\ OPC(6) = {1,2} /\ OPC(7) = {0,1,2} /\ OPC(8) = {3} /\ OPC(9) = {0,3}
  /\ OPC(10) = {1,3} /\ OPC(11) = {0,1,3} /\ OPC(12) = {2,3} /\ OPC(13) = {0,2,3}
  /\ OPC(14) = {1,2,3} /\ OPC(15) = {0,1,2,3} /\ OPC(16) = {4} /\ OPC(17) = {0,4}
  /\ OPC(18) = {1,4} /\ OPC(20) = {2,4} /\ OPC(21) = {0,2,4}
  /\ OPC(22) = {1,2,4} /\ OPC(24) = {3,4} /\ OPC(25) = {0,3,4} /\ OPC(26) = {1,3,4}
<1>1. OPC(1) = {0} /\ OPC(3) = {0,1} /\ OPC(4) = {2} /\ OPC(5) = {0,2}
  BY ByteBits DEF OPC
<1>2. OPC(6) = {1,2} /\ OPC(7) = {0,1,2} /\ OPC(8) = {3} /\ OPC(9) = {0,3}
  BY ByteBits DEF OPC
<1>3. OPC(10) = {1,3} /\ OPC(11) = {0,1,3} /\ OPC(12) = {2,3} /\ OPC(13) = {0,2,3}
  BY ByteBits DEF OPC
<1>4. OPC(14) = {1,2,3} /\ OPC(15) = {0,1,2,3} /\ OPC(16) = {4} /\ OPC(17) = {0,4}
  BY ByteBits DEF OPC
<1>5. OPC(18) = {1,4} /\ OPC(20) = {2,4} /\ OPC(21) = {0,2,4}
  BY ByteBits DEF OPC
<1>6. OPC(22) = {1,2,4} /\ OPC(24) = {3,4} /\ OPC(25) = {0,3,4} /\ OPC(26) = {1,3,4}
  BY ByteBits DEF OPC
<1> QED
  BY <1>1, <1>2, <1>3, <1>4, <1>5, <1>6

LEMMA RdField == 
  ASSUME NEW k \in Nat
  PROVE  Rd(k) \subseteq 5..8
  BY DEF Rd, RD, PutPiece
-----------------------------------------------------------------------------
(* The state while an instruction is encoded, as a function of the row and *)
(* of the operands so far.  A number or an address is the last operand,    *)
(* except of STOREI, which has two.                                        *)

(* Operands, and which of them a row takes at a position.                  *)
Value == SUBSET (0..63)
Forms == {"num", "flt"} \cup {s.form : s \in {x \in Sources : x.t \in {"imm", "mem"}}}
Attributes == {"NONE", "GOT", "PLT", "SD", "SECOFF", "LOCALPC", "GLOBDAT"}
OperandType ==
  [kind : {"REG", "IMM", "REGIND", "DATA"}, reg : SUBSET (0..7), form : Forms, v : Value,
   attr : Attributes]

Accepts(taken, op) ==
  /\ op.kind = "REG" => taken \in {Rg, {"NEXTREG"}} /\ op.form = "num"
  /\ op.kind = "IMM" => taken = Im
  /\ op.kind = "REGIND" => taken = Ind
  /\ op.kind = "DATA" => taken = {"DATA"}

(* What operand k of a row does: where its register goes, what its number  *)
(* does, and what is recorded of it.                                       *)
RegisterField(r, op, k) ==
  IF op.kind = "REG" THEN encode_reg(r, k)
  ELSE IF op.kind = "REGIND" THEN BaseField(r, k) ELSE {}

Number(r, op, k) ==
  IF op.kind = "REGIND" THEN encode_regind(op.v, k)
  ELSE IF r.f = "RI64" THEN encode_immed_RI64(op.v, FALSE)
  ELSE IF r.f = "WAIT" THEN encode_immed_WAIT(op.v)
  ELSE Effect(op.v, {Imm15})

Record(r, op, k) ==
  IF op.kind = "REG"
  THEN [op |-> k, kind |-> "REG", v |-> op.reg, pieces |-> encode_reg(r, k)]
  ELSE [op |-> k, kind |-> op.kind, v |-> op.v, pieces |->
          IF r.f = "STOREI" /\ k = 0 THEN StoredConstant(op.v).pieces ELSE Number(r, op, k).pieces]

Records(r, o, j) == {Record(r, o[k + 1], k) : k \in 0..j - 1}

(* The constant appended and the size returned after j operands.           *)
EndsInNumber(o, j) == j > 0 /\ o[j].kind # "REG"

Appends(r, o, j) ==
  IF r.f = "STOREI" THEN (IF j = 0 THEN <<>> ELSE StoredConstant(o[1].v).pfx)
  ELSE IF EndsInNumber(o, j) THEN Number(r, o[j], j - 1).pfx ELSE <<>>

Returns(r, o, j) ==
  IF r.f # "STOREI" /\ EndsInNumber(o, j) THEN Number(r, o[j], j - 1).size ELSE 4

(* The word: registers below bit 17, the number above; and of STOREI.      *)
Registers(r, o, j) == UNION {Put(o[k + 1].reg, RegisterField(r, o[k + 1], k)) : k \in 0..j - 1}

Upper(r, o, j) ==
  IF EndsInNumber(o, j)
  THEN (r.fixed \ Number(r, o[j], j - 1).clear) \cup Number(r, o[j], j - 1).set
  ELSE r.fixed

IsWord(w, f, g, u) == w \cap 0..16 = (f \cup g) \cap 0..16 /\ w \cap 17..63 = u \cap 17..63

Stored(v) == IF is_nbit(v, 4) THEN OPC(18) \cup PutPiece(v, RD) ELSE OPC(6) \cup {31}

StoredWord(o, j) ==
  IF j = 0 THEN OPC(18)
  ELSE Stored(o[1].v) \cup
         (IF j = 1 THEN {}
          ELSE IF o[2].kind = "IMM" THEN PutPiece(o[2].v, Imm15)
          ELSE PutPiece(o[2].reg, RS1) \cup (IF o[2].v = {} THEN {} ELSE PutPiece(o[2].v, Imm15)))

(* The relocation after j operands.                                        *)
RelocType(op) ==
  IF op.kind = "REGIND" /\ op.reg = sdreg THEN "SD" ELSE get_reloc_type(op.attr)

Links(r, o, j) ==
  IF EndsInNumber(o, j) /\ o[j].form # "num"
  THEN {[op |-> j - 1, at |-> RelocPiece(r.f, o[j].v), type |-> RelocType(o[j])]}
  ELSE {}

-----------------------------------------------------------------------------
(* The inductive invariant.                                                *)
OperandsInv ==
  /\ row \in mnemonics \cup data_items
  /\ db \in BOOLEAN
  /\ i \in 0..Len(row.ops)
  /\ ops \in Seq(OperandType)
  /\ Len(ops) = (IF db THEN Len(row.ops) ELSE i)
  /\ \A k \in 1..Len(ops) : Accepts(row.ops[k], ops[k])
  /\ ~db => sized = 0 /\ placed = {} /\ relocs = {}

SizeInv ==
  /\ pfx = Appends(row, ops, i)
  /\ isize = Returns(row, ops, i)
  /\ db => sized = Size(Appends(row, ops, Len(ops)), Returns(row, ops, Len(ops)))

WordInv ==
  /\ word \subseteq 0..63
  /\ db /\ row.f # "STOREI" =>
       IsWord(word, row.fixed, Registers(row, ops, i), Upper(row, ops, i))
  /\ db /\ row.f = "STOREI" => word = StoredWord(ops, i)

HistoryInv ==
  db => /\ placed = Records(row, ops, i)
        /\ row.f # "STOREI" => relocs = Links(row, ops, i)

DataInv ==
  /\ pfx = <<>>
  /\ word \subseteq 0..63
  /\ ~db => i = 0 /\ isize = 4
  /\ db =>
       /\ i = 1
       /\ isize = ItemBits \div 8
       /\ sized = ItemBits \div 8
       /\ word \in QuplsData(ops[1].form, ops[1].v, ItemBits)
       /\ placed = {[op |-> 0, kind |-> "DATA", v |-> ops[1].v, pieces |-> {<<0, ItemBits, 0>>}]}
       /\ relocs = {[op |-> 0, at |-> q, type |-> "ABS"] :
                      q \in QuplsDataRelocs(ops[1].form, row.flag)}
       /\ ops[1].attr = "NONE" /\ ops[1].kind = "DATA"

IInv ==
  /\ OperandsInv
  /\ row.f # "DATA" => SizeInv /\ WordInv /\ HistoryInv
  /\ row.f = "DATA" => DataInv
-----------------------------------------------------------------------------
(* The rows of mnemonics[]: their operands, ...                            *)
Shape(f, flag, o) ==
  /\ f \in {"RI64", "R3", "DIRECT", "REGIND", "RI", "BITS16", "STOREI", "WAIT"}
  /\ o \in Seq({Rg, Im, Ind, {"DIRECT"}, {"NEXTREG"}})
  /\ Len(o) <= 4
  /\ f # "STOREI" => \A k \in 1..Len(o) - 1 : o[k] = Rg
  /\ \A k \in 1..Len(o) : /\ o[k] = Im => f \in {"RI64", "RI", "DIRECT", "WAIT", "STOREI"}
                          /\ o[k] = Ind => f \in {"REGIND", "STOREI"}
                          /\ o[k] = {"NEXTREG"} => f = "WAIT"
  /\ f = "RI64" => Len(o) > 0 /\ o[Len(o)] = Im
  /\ f = "STOREI" => Len(o) = 2 /\ o[1] = Im /\ o[2] \in {Im, Ind} /\ flag = "STORE"
  /\ f = "REGIND" => Len(o) <= 2 /\ (flag = "JUMP" => Len(o) = 1 /\ o[1] = Ind)
  /\ flag \in {"JUMP", "BRANCH"} => f \in {"DIRECT", "REGIND"}
  /\ flag = "BRANCH" => f = "DIRECT"

(* ... and the bits they fix.                                              *)
Fixes(f, b, flag, o) ==
  /\ b \subseteq 0..31
  /\ b \cap 0..4 # OPC(6)
  /\ f = "RI64" => b \in ArithmeticOps /\ b # OPC(11)
  /\ f = "STOREI" => b = OPC(18)
  /\ f = "WAIT" => b \cap 0..4 = OPC(1)
  /\ f # "WAIT" =>
       /\ b \cap 9..16 = {}
       /\ b \cap 17..63 # {} => f = "R3" /\ b \cap 17..63 = 17..31
       /\ b \cap 5..8 # {} =>
            b \cap 0..4 = OPC(7) \/ flag \in {"JUMP", "BRANCH"} \/ (Len(o) = 1 /\ o[1] = Im)

GoodRow(r) == Shape(r.f, r.flag, r.ops) /\ Fixes(r.f, r.fixed, r.flag, r.ops)

LEMMA GoodRows ==
  ASSUME NEW f, NEW fixed, NEW flag, NEW operands,
         \A o \in operands : Shape(f, flag, o),
         \A b \in fixed, o \in operands : Fixes(f, b, flag, o)
  PROVE  \A r \in Rows(f, fixed, flag, operands) : GoodRow(r)
<1> SUFFICES ASSUME NEW r \in Rows(f, fixed, flag, operands)
             PROVE  GoodRow(r)
  OBVIOUS
<1>1. PICK b \in fixed, o \in operands : r = [f |-> f, fixed |-> b, flag |-> flag, ops |-> o]
  BY DEF Rows
<1>2. r.f = f /\ r.fixed = b /\ r.flag = flag /\ r.ops = o
  BY <1>1
<1> QED
  BY <1>2 DEF GoodRow

(* An opcode and nothing else is fixed.                                    *)
PlainOps ==
  {OPC(3), OPC(5), OPC(8), OPC(9), OPC(10), OPC(11), OPC(12), OPC(13), OPC(14), OPC(15), OPC(16),
   OPC(17), OPC(18), OPC(20), OPC(21), OPC(22), OPC(24), OPC(25), OPC(26), {}}

LEMMA PlainOpcodes == \A b \in PlainOps : b \subseteq 0..4 /\ b # OPC(6)
<1>1. PlainOps \subseteq SUBSET (0..4)
  BY Opcodes DEF PlainOps
<1>2. \A b \in PlainOps : b # OPC(6)
  BY Opcodes DEF PlainOps
<1> QED
  BY <1>1, <1>2

(* The parts of a word with an opcode, a first register and an immediate.  *)
LEMMA Below5 ==
  \A c : c \subseteq 0..4 =>
    c \cap 0..4 = c /\ c \cap 5..8 = {} /\ c \cap 9..16 = {} /\ c \cap 17..63 = {}
<1> SUFFICES ASSUME NEW c, c \subseteq 0..4
             PROVE  c \cap 0..4 = c /\ c \cap 5..8 = {} /\ c \cap 9..16 = {} /\ c \cap 17..63 = {}
  OBVIOUS
<1>1. c \cap 0..4 = c
  OBVIOUS
<1>2. c \cap 5..8 = {}
  OBVIOUS
<1>3. c \cap 9..16 = {}
  OBVIOUS
<1>4. c \cap 17..63 = {}
  OBVIOUS
<1> QED
  BY <1>1, <1>2, <1>3, <1>4

LEMMA From5 ==
  \A c : c \subseteq 5..8 =>
    c \cap 0..4 = {} /\ c \cap 5..8 = c /\ c \cap 9..16 = {} /\ c \cap 17..63 = {}
<1> SUFFICES ASSUME NEW c, c \subseteq 5..8
             PROVE  c \cap 0..4 = {} /\ c \cap 5..8 = c /\ c \cap 9..16 = {} /\ c \cap 17..63 = {}
  OBVIOUS
<1>1. c \cap 0..4 = {}
  OBVIOUS
<1>2. c \cap 5..8 = c
  OBVIOUS
<1>3. c \cap 9..16 = {}
  OBVIOUS
<1>4. c \cap 17..63 = {}
  OBVIOUS
<1> QED
  BY <1>1, <1>2, <1>3, <1>4

LEMMA From17 ==
  \A c : c \subseteq 17..31 =>
    c \cap 0..4 = {} /\ c \cap 5..8 = {} /\ c \cap 9..16 = {} /\ c \cap 17..63 = c
<1> SUFFICES ASSUME NEW c, c \subseteq 17..31
             PROVE  c \cap 0..4 = {} /\ c \cap 5..8 = {} /\ c \cap 9..16 = {} /\ c \cap 17..63 = c
  OBVIOUS
<1>1. c \cap 0..4 = {}
  OBVIOUS
<1>2. c \cap 5..8 = {}
  OBVIOUS
<1>3. c \cap 9..16 = {}
  OBVIOUS
<1>5. c \subseteq 17..63
  OBVIOUS
<1>4. c \cap 17..63 = c
  BY <1>5
<1> QED
  BY <1>1, <1>2, <1>3, <1>4

HasParts(b, c, d, e) ==
  /\ b \subseteq 0..31
  /\ b \cap 0..4 = c
  /\ b \cap 5..8 = d
  /\ b \cap 9..16 = {}
  /\ b \cap 17..63 = e

LEMMA Parts ==
  ASSUME NEW c, c \subseteq 0..4, NEW d, d \subseteq 5..8, NEW e, e \subseteq 17..31
  PROVE  HasParts(e \cup d \cup c, c, d, e)
<1> DEFINE b == e \cup d \cup c
<1>1. c \cap 0..4 = c /\ c \cap 5..8 = {} /\ c \cap 9..16 = {} /\ c \cap 17..63 = {}
  BY Below5
<1>2. d \cap 0..4 = {} /\ d \cap 5..8 = d /\ d \cap 9..16 = {} /\ d \cap 17..63 = {}
  BY From5
<1>3. e \cap 0..4 = {} /\ e \cap 5..8 = {} /\ e \cap 9..16 = {} /\ e \cap 17..63 = e
  BY From17
<1>4. \A s : b \cap s = (e \cap s) \cup (d \cap s) \cup (c \cap s)
  OBVIOUS
<1>5. b \cap 0..4 = c /\ b \cap 5..8 = d
  BY <1>1, <1>2, <1>3, <1>4
<1>6. b \cap 9..16 = {} /\ b \cap 17..63 = e
  BY <1>1, <1>2, <1>3, <1>4
<1>7. b \subseteq 0..31
  OBVIOUS
<1> QED
  BY <1>5, <1>6, <1>7 DEF HasParts

LEMMA OnlyOpcode ==
  ASSUME NEW c, c \subseteq 0..4
  PROVE  HasParts(c, c, {}, {})
<1>1. {} \subseteq 5..8 /\ {} \subseteq 17..31
  OBVIOUS
<1>2. HasParts({} \cup {} \cup c, c, {}, {})
  BY <1>1, Parts
<1>3. {} \cup {} \cup c = c
  OBVIOUS
<1> QED
  BY <1>2, <1>3

LEMMA PlainFixes ==
  ASSUME NEW f \in {"R3", "DIRECT", "REGIND", "RI", "BITS16"}, NEW b \in PlainOps, NEW flag, NEW o
  PROVE  Fixes(f, b, flag, o)
<1>1. b \subseteq 0..4 /\ b # OPC(6)
  BY PlainOpcodes
<1>2. HasParts(b, b, {}, {})
  BY <1>1, OnlyOpcode
<1> QED
  BY <1>1, <1>2 DEF Fixes, HasParts

(* An opcode, and a number in the field of the first register.             *)
LEMMA FieldFixes ==
  ASSUME NEW f \in {"DIRECT", "REGIND", "RI"}, NEW k \in Nat,
         NEW c \in {OPC(4), OPC(7), OPC(9)}, NEW flag, NEW o, NEW b, b = Rd(k) \cup c,
         c = OPC(7) \/ flag \in {"JUMP", "BRANCH"} \/ (Len(o) = 1 /\ o[1] = Im)
  PROVE  Fixes(f, b, flag, o)
<1>1. c \subseteq 0..4 /\ c # OPC(6)
  BY Opcodes
<1>2. Rd(k) \subseteq 5..8 /\ {} \subseteq 17..31
  BY RdField
<1>3. HasParts({} \cup Rd(k) \cup c, c, Rd(k), {})
  BY <1>1, <1>2, Parts
<1>4. {} \cup Rd(k) \cup c = b
  OBVIOUS
<1>5. HasParts(b, c, Rd(k), {})
  BY <1>3, <1>4
<1> QED
  BY <1>1, <1>5 DEF Fixes, HasParts

(* An opcode, and an immediate of -1 behind registers.                     *)
LEMMA ImmFixes ==
  ASSUME NEW c \in {OPC(24), OPC(26)}, NEW flag, NEW o
  PROVE  Fixes("R3", ImmOnly \cup c, flag, o)
<1> DEFINE b == ImmOnly \cup c
<1>1. c \subseteq 0..4 /\ c # OPC(6)
  BY Opcodes
<1>2. {} \subseteq 5..8 /\ ImmOnly \subseteq 17..31
  BY DEF ImmOnly
<1>3. HasParts(ImmOnly \cup {} \cup c, c, {}, ImmOnly)
  BY <1>1, <1>2, Parts
<1>4. ImmOnly \cup {} \cup c = b
  OBVIOUS
<1>5. HasParts(b, c, {}, 17..31)
  BY <1>3, <1>4 DEF ImmOnly
<1> HIDE DEF b
<1>6. Fixes("R3", b, flag, o)
  BY <1>1, <1>5 DEF Fixes, HasParts
<1> QED
  BY <1>6 DEF b

LEMMA WaitFixes ==
  ASSUME NEW k \in Nat, NEW flag, NEW o
  PROVE  Fixes("WAIT", PutPiece(BitsOf(k), WCOND) \cup OPC(1), flag, o)
<1> DEFINE b == PutPiece(BitsOf(k), WCOND) \cup OPC(1)
<1>1. OPC(1) = {0} /\ OPC(6) = {1, 2}
  BY Opcodes
<1>2. PutPiece(BitsOf(k), WCOND) \subseteq 17..20
  BY DEF PutPiece, WCOND
<1>3. b \cap 0..4 = OPC(1) /\ b \subseteq 0..31
  BY <1>1, <1>2
<1> HIDE DEF b
<1>4. Fixes("WAIT", b, flag, o)
  BY <1>1, <1>3 DEF Fixes
<1> QED
  BY <1>4 DEF b

LEMMA NumberFixes ==
  ASSUME NEW b \in {OPC(22), OPC(24), OPC(25), OPC(26)}, NEW flag, NEW o
  PROVE  Fixes("RI64", b, flag, o)
<1>1. b \in PlainOps
  BY DEF PlainOps
<1>2. b \subseteq 0..4 /\ b # OPC(6)
  BY <1>1, PlainOpcodes
<1>3. HasParts(b, b, {}, {})
  BY <1>2, OnlyOpcode
<1>4. b \in ArithmeticOps /\ b # OPC(11)
  BY Opcodes DEF ArithmeticOps
<1> QED
  BY <1>2, <1>3, <1>4 DEF Fixes, HasParts

LEMMA StoreFixes == \A flag, o : Fixes("STOREI", OPC(18), flag, o)
<1>1. OPC(18) \subseteq 0..4 /\ OPC(18) # OPC(6)
  BY Opcodes
<1>2. HasParts(OPC(18), OPC(18), {}, {})
  BY <1>1, OnlyOpcode
<1> QED
  BY <1>1, <1>2 DEF Fixes, HasParts
LEMMA BitMapFixes ==
  ASSUME NEW f \in {"DIRECT", "REGIND"}, NEW b \in BitMapOps, NEW flag, NEW o
  PROVE  Fixes(f, b, flag, o)
<1>1. PICK k \in 0..3 : b = Rd(k) \cup OPC(7)
  BY DEF BitMapOps
<1> QED
  BY <1>1, FieldFixes

LEMMA JumpFixes ==
  ASSUME NEW f \in {"DIRECT", "REGIND"}, NEW b \in CallOrJump, NEW o
  PROVE  Fixes(f, b, "JUMP", o)
<1>1. CASE b = OPC(9)
  <2>1. b \in PlainOps
    BY <1>1 DEF PlainOps
  <2> QED
    BY <2>1, PlainFixes
<1>2. CASE b = Rd(1) \cup OPC(9)
  BY <1>2, FieldFixes
<1> QED
  BY <1>1, <1>2 DEF CallOrJump

LEMMA BranchFixes ==
  ASSUME NEW k \in Nat, NEW o
  PROVE  Fixes("DIRECT", Rd(k) \cup OPC(4), "BRANCH", o)
  BY FieldFixes

LEMMA ReturnFixes == Fixes("RI", Rd(2) \cup OPC(9), "none", <<Im>>)
<1> DEFINE o == <<Im>>
<1>1. Len(o) = 1 /\ o[1] = Im
  OBVIOUS
<1> HIDE DEF o
<1>2. Fixes("RI", Rd(2) \cup OPC(9), "none", o)
  BY <1>1, FieldFixes
<1> QED
  BY <1>2 DEF o

(* The kinds of operand a row takes.                                       *)
LEMMA Kinds ==
  /\ Rg # Im /\ Rg # Ind /\ Rg # {"DIRECT"} /\ Rg # {"NEXTREG"}
  /\ Im # Ind /\ Im # {"DIRECT"} /\ Im # {"NEXTREG"}
  /\ Ind # {"DIRECT"} /\ Ind # {"NEXTREG"} /\ {"DIRECT"} # {"NEXTREG"}
  /\ Rg # {"DATA"} /\ Im # {"DATA"} /\ Ind # {"DATA"}
  BY DEF Rg, Im, Ind

Takes == {Rg, Im, Ind, {"DIRECT"}, {"NEXTREG"}}

(* Registers and one more operand.                                         *)
RegistersThen(o, n, last) ==
  /\ o \in Seq(Takes)
  /\ Len(o) = n
  /\ \A k \in 1..n - 1 : o[k] = Rg
  /\ n > 0 => o[n] = last

LEMMA Lists ==
  ASSUME NEW last \in Takes
  PROVE  /\ RegistersThen(<<last>>, 1, last)
         /\ RegistersThen(<<Rg, last>>, 2, last)
         /\ RegistersThen(<<Rg, Rg, last>>, 3, last)
         /\ RegistersThen(<<Rg, Rg, Rg, last>>, 4, last)
<1>0. Rg \in Takes
  BY DEF Takes
<1>1. RegistersThen(<<last>>, 1, last)
  BY DEF RegistersThen
<1>2. RegistersThen(<<Rg, last>>, 2, last)
  BY <1>0 DEF RegistersThen
<1>3. RegistersThen(<<Rg, Rg, last>>, 3, last)
  <2> DEFINE o == <<Rg, Rg, last>>
  <2>1. o \in Seq(Takes) /\ Len(o) = 3
    BY <1>0
  <2>2. o[1] = Rg /\ o[2] = Rg /\ o[3] = last
    OBVIOUS
  <2> HIDE DEF o
  <2>3. RegistersThen(o, 3, last)
    BY <2>1, <2>2 DEF RegistersThen
  <2> QED
    BY <2>3 DEF o
<1>4. RegistersThen(<<Rg, Rg, Rg, last>>, 4, last)
  <2> DEFINE o == <<Rg, Rg, Rg, last>>
  <2>1. o \in Seq(Takes) /\ Len(o) = 4
    BY <1>0
  <2>2. o[1] = Rg /\ o[2] = Rg /\ o[3] = Rg /\ o[4] = last
    OBVIOUS
  <2> HIDE DEF o
  <2>3. RegistersThen(o, 4, last)
    BY <2>1, <2>2 DEF RegistersThen
  <2> QED
    BY <2>3 DEF o
<1> QED
  BY <1>1, <1>2, <1>3, <1>4

(* What may be the last operand of a format.                               *)
LastOf(f, flag, n, last) ==
  /\ f \in {"RI64", "R3", "DIRECT", "REGIND", "RI", "WAIT"}
  /\ last \in Takes
  /\ last = Im => f \in {"RI64", "RI", "DIRECT", "WAIT"}
  /\ last = Ind => f = "REGIND"
  /\ last = {"NEXTREG"} => f = "WAIT"
  /\ f = "RI64" => last = Im
  /\ f = "REGIND" => n <= 2 /\ (flag = "JUMP" => n = 1 /\ last = Ind)
  /\ flag \in {"JUMP", "BRANCH"} => f \in {"DIRECT", "REGIND"}
  /\ flag = "BRANCH" => f = "DIRECT"

LEMMA ShapeOf ==
  ASSUME NEW f, NEW flag, NEW n \in 1..4, NEW last, LastOf(f, flag, n, last),
         NEW o, RegistersThen(o, n, last)
  PROVE  Shape(f, flag, o)
<1>1. \A k \in 1..Len(o) : o[k] = Rg \/ (k = n /\ o[k] = last)
  BY DEF RegistersThen
<1>2. \A k \in 1..Len(o) : /\ o[k] = Im => f \in {"RI64", "RI", "DIRECT", "WAIT", "STOREI"}
                           /\ o[k] = Ind => f \in {"REGIND", "STOREI"}
                           /\ o[k] = {"NEXTREG"} => f = "WAIT"
  BY <1>1, Kinds DEF LastOf
<1>3. o \in Seq(Takes) /\ Len(o) = n /\ o[n] = last /\ \A k \in 1..Len(o) - 1 : o[k] = Rg
  BY DEF RegistersThen
<1> QED
  BY <1>2, <1>3 DEF Shape, LastOf, Takes

LEMMA LastOfRow ==
  /\ \A flag \in {"none"}, n \in 1..4 : /\ LastOf("RI64", flag, n, Im)
                                        /\ LastOf("RI", flag, n, Im)
                                        /\ LastOf("RI", flag, n, Rg)
                                        /\ LastOf("R3", flag, n, Rg)
                                        /\ LastOf("WAIT", flag, n, Im)
                                        /\ LastOf("WAIT", flag, n, {"NEXTREG"})
  /\ \A flag \in {"none", "JUMP", "BRANCH", "STORE"}, n \in 1..4 :
        LastOf("DIRECT", flag, n, Im) /\ LastOf("DIRECT", flag, n, {"DIRECT"})
  /\ \A flag \in {"none", "STORE"}, n \in 1..2 : LastOf("REGIND", flag, n, Ind)
  /\ LastOf("REGIND", "JUMP", 1, Ind)
  BY Kinds DEF LastOf, Takes

LEMMA Shapes ==
  ASSUME NEW f, NEW flag, NEW last
  PROVE  /\ LastOf(f, flag, 1, last) => Shape(f, flag, <<last>>)
         /\ LastOf(f, flag, 2, last) => Shape(f, flag, <<Rg, last>>)
         /\ LastOf(f, flag, 3, last) => Shape(f, flag, <<Rg, Rg, last>>)
         /\ LastOf(f, flag, 4, last) => Shape(f, flag, <<Rg, Rg, Rg, last>>)
<1>0. \A n : LastOf(f, flag, n, last) => last \in Takes
  BY DEF LastOf
<1>1. ASSUME LastOf(f, flag, 1, last) PROVE Shape(f, flag, <<last>>)
  <2>1. RegistersThen(<<last>>, 1, last)
    BY <1>0, <1>1, Lists, Zenon
  <2>2. 1 \in 1..4
    OBVIOUS
  <2> QED
    BY <1>1, <2>1, <2>2, ShapeOf, Zenon
<1>2. ASSUME LastOf(f, flag, 2, last) PROVE Shape(f, flag, <<Rg, last>>)
  <2>1. RegistersThen(<<Rg, last>>, 2, last)
    BY <1>0, <1>2, Lists, Zenon
  <2>2. 2 \in 1..4
    OBVIOUS
  <2> QED
    BY <1>2, <2>1, <2>2, ShapeOf, Zenon
<1>3. ASSUME LastOf(f, flag, 3, last) PROVE Shape(f, flag, <<Rg, Rg, last>>)
  <2>1. RegistersThen(<<Rg, Rg, last>>, 3, last)
    BY <1>0, <1>3, Lists, Zenon
  <2>2. 3 \in 1..4
    OBVIOUS
  <2> QED
    BY <1>3, <2>1, <2>2, ShapeOf, Zenon
<1>4. ASSUME LastOf(f, flag, 4, last) PROVE Shape(f, flag, <<Rg, Rg, Rg, last>>)
  <2>1. RegistersThen(<<Rg, Rg, Rg, last>>, 4, last)
    BY <1>0, <1>4, Lists, Zenon
  <2>2. 4 \in 1..4
    OBVIOUS
  <2> QED
    BY <1>4, <2>1, <2>2, ShapeOf, Zenon
<1> QED
  BY <1>1, <1>2, <1>3, <1>4

LEMMA StoreShapes == Shape("STOREI", "STORE", <<Im, Im>>) /\ Shape("STOREI", "STORE", <<Im, Ind>>)
<1> SUFFICES ASSUME NEW last \in {Im, Ind}
             PROVE  Shape("STOREI", "STORE", <<Im, last>>)
  OBVIOUS
<1> DEFINE o == <<Im, last>>
<1>1. o \in Seq(Takes) /\ Len(o) = 2
  BY DEF Takes
<1>2. o[1] = Im /\ o[2] = last
  OBVIOUS
<1> HIDE DEF o
<1>3. \A k \in 1..2 : o[k] \in {Im, Ind}
  BY <1>2
<1>4. Shape("STOREI", "STORE", o)
  BY <1>1, <1>2, <1>3, Kinds DEF Shape, Takes
<1> QED
  BY <1>4 DEF o

LEMMA NoOperands == Shape("BITS16", "none", <<>>)
  BY DEF Shape

-----------------------------------------------------------------------------
(* Every row of the table is good.                                         *)
LEMMA RowsAGood == \A r \in RowsA : GoodRow(r)
<1>1. \A r \in Rows("RI64", {OPC(22), OPC(24)}, "none", {<<Rg, Rg, Rg, Im>>}) : GoodRow(r)
  <2>1. \A o \in {<<Rg, Rg, Rg, Im>>} : Shape("RI64", "none", o)
    <3>1. LastOf("RI64", "none", 4, Im)
      BY LastOfRow
    <3> QED
      BY <3>1, Shapes, Zenon
  <2>2. \A b \in {OPC(22), OPC(24)}, o \in {<<Rg, Rg, Rg, Im>>} : Fixes("RI64", b, "none", o)
    BY NumberFixes
  <2> QED
    BY <2>1, <2>2, GoodRows
<1>2. \A r \in Rows("R3", {OPC(22), ImmOnly \cup OPC(24), OPC(13)}, "none", {<<Rg, Rg, Rg>>}) :
        GoodRow(r)
  <2>1. \A o \in {<<Rg, Rg, Rg>>} : Shape("R3", "none", o)
    <3>1. LastOf("R3", "none", 3, Rg)
      BY LastOfRow
    <3> QED
      BY <3>1, Shapes, Zenon
  <2>2. \A b \in {OPC(22), ImmOnly \cup OPC(24), OPC(13)}, o \in {<<Rg, Rg, Rg>>} :
          Fixes("R3", b, "none", o)
    BY ImmFixes, PlainFixes DEF PlainOps
  <2> QED
    BY <2>1, <2>2, GoodRows
<1>3. \A r \in Rows("DIRECT", BitMapOps, "none", {<<Rg, {"DIRECT"}>>}) : GoodRow(r)
  <2>1. \A o \in {<<Rg, {"DIRECT"}>>} : Shape("DIRECT", "none", o)
    <3>1. LastOf("DIRECT", "none", 2, {"DIRECT"})
      BY LastOfRow
    <3> QED
      BY <3>1, Shapes, Zenon
  <2>2. \A b \in BitMapOps, o \in {<<Rg, {"DIRECT"}>>} : Fixes("DIRECT", b, "none", o)
    BY BitMapFixes
  <2> QED
    BY <2>1, <2>2, GoodRows
<1>4. \A r \in Rows("REGIND", BitMapOps, "none", {<<Rg, Ind>>}) : GoodRow(r)
  <2>1. \A o \in {<<Rg, Ind>>} : Shape("REGIND", "none", o)
    <3>1. LastOf("REGIND", "none", 2, Ind)
      BY LastOfRow
    <3> QED
      BY <3>1, Shapes, Zenon
  <2>2. \A b \in BitMapOps, o \in {<<Rg, Ind>>} : Fixes("REGIND", b, "none", o)
    BY BitMapFixes
  <2> QED
    BY <2>1, <2>2, GoodRows
<1>5. \A r \in Rows("RI", {OPC(14)}, "none", {<<Rg, Rg, Rg, Im>>}) : GoodRow(r)
  <2>1. \A o \in {<<Rg, Rg, Rg, Im>>} : Shape("RI", "none", o)
    <3>1. LastOf("RI", "none", 4, Im)
      BY LastOfRow
    <3> QED
      BY <3>1, Shapes, Zenon
  <2>2. \A b \in {OPC(14)}, o \in {<<Rg, Rg, Rg, Im>>} : Fixes("RI", b, "none", o)
    BY PlainFixes DEF PlainOps
  <2> QED
    BY <2>1, <2>2, GoodRows
<1>6. \A r \in Rows("R3", {OPC(15)}, "none", {<<Rg>>}) : GoodRow(r)
  <2>1. \A o \in {<<Rg>>} : Shape("R3", "none", o)
    <3>1. LastOf("R3", "none", 1, Rg)
      BY LastOfRow
    <3> QED
      BY <3>1, Shapes, Zenon
  <2>2. \A b \in {OPC(15)}, o \in {<<Rg>>} : Fixes("R3", b, "none", o)
    BY PlainFixes DEF PlainOps
  <2> QED
    BY <2>1, <2>2, GoodRows
<1>7. \A r \in Rows("RI", {OPC(12)}, "none", {<<Rg, Rg>>}) : GoodRow(r)
  <2>1. \A o \in {<<Rg, Rg>>} : Shape("RI", "none", o)
    <3>1. LastOf("RI", "none", 2, Rg)
      BY LastOfRow
    <3> QED
      BY <3>1, Shapes, Zenon
  <2>2. \A b \in {OPC(12)}, o \in {<<Rg, Rg>>} : Fixes("RI", b, "none", o)
    BY PlainFixes DEF PlainOps
  <2> QED
    BY <2>1, <2>2, GoodRows
<1>8. \A r \in Rows("DIRECT", CallOrJump, "JUMP", {<<Im>>}) : GoodRow(r)
  <2>1. \A o \in {<<Im>>} : Shape("DIRECT", "JUMP", o)
    <3>1. LastOf("DIRECT", "JUMP", 1, Im)
      BY LastOfRow
    <3> QED
      BY <3>1, Shapes, Zenon
  <2>2. \A b \in CallOrJump, o \in {<<Im>>} : Fixes("DIRECT", b, "JUMP", o)
    BY JumpFixes
  <2> QED
    BY <2>1, <2>2, GoodRows
<1>9. \A r \in Rows("REGIND", CallOrJump, "JUMP", {<<Ind>>}) : GoodRow(r)
  <2>1. \A o \in {<<Ind>>} : Shape("REGIND", "JUMP", o)
    <3>1. LastOf("REGIND", "JUMP", 1, Ind)
      BY LastOfRow
    <3> QED
      BY <3>1, Shapes, Zenon
  <2>2. \A b \in CallOrJump, o \in {<<Ind>>} : Fixes("REGIND", b, "JUMP", o)
    BY JumpFixes
  <2> QED
    BY <2>1, <2>2, GoodRows
<1>10. \A r \in Rows("R3", {ImmOnly \cup OPC(26)}, "none", {<<Rg, Rg>>}) : GoodRow(r)
  <2>1. \A o \in {<<Rg, Rg>>} : Shape("R3", "none", o)
    <3>1. LastOf("R3", "none", 2, Rg)
      BY LastOfRow
    <3> QED
      BY <3>1, Shapes, Zenon
  <2>2. \A b \in {ImmOnly \cup OPC(26)}, o \in {<<Rg, Rg>>} : Fixes("R3", b, "none", o)
    BY ImmFixes
  <2> QED
    BY <2>1, <2>2, GoodRows
<1>11. \A r \in Rows("RI", {OPC(8)}, "none", {<<Rg, Rg, Im>>}) : GoodRow(r)
  <2>1. \A o \in {<<Rg, Rg, Im>>} : Shape("RI", "none", o)
    <3>1. LastOf("RI", "none", 3, Im)
      BY LastOfRow
    <3> QED
      BY <3>1, Shapes, Zenon
  <2>2. \A b \in {OPC(8)}, o \in {<<Rg, Rg, Im>>} : Fixes("RI", b, "none", o)
    BY PlainFixes DEF PlainOps
  <2> QED
    BY <2>1, <2>2, GoodRows
<1>12. \A r \in Rows("DIRECT", {Rd(k) \cup OPC(4) : k \in 0..6}, "BRANCH", {<<Rg, Rg, Im>>, <<Rg, Im>>}) :
         GoodRow(r)
  <2>1. \A o \in {<<Rg, Rg, Im>>, <<Rg, Im>>} : Shape("DIRECT", "BRANCH", o)
    <3>1. LastOf("DIRECT", "BRANCH", 3, Im)
      BY LastOfRow
    <3>2. LastOf("DIRECT", "BRANCH", 2, Im)
      BY LastOfRow
    <3> QED
      BY <3>1, <3>2, Shapes, Zenon
  <2>2. \A b \in {Rd(k) \cup OPC(4) : k \in 0..6}, o \in {<<Rg, Rg, Im>>, <<Rg, Im>>} :
          Fixes("DIRECT", b, "BRANCH", o)
    BY BranchFixes
  <2> QED
    BY <2>1, <2>2, GoodRows
<1>13. \A r \in Rows("DIRECT", {Rd(k) \cup OPC(4) : k \in 8..11}, "BRANCH", {<<Rg, Rg, Im>>}) :
         GoodRow(r)
  <2>1. \A o \in {<<Rg, Rg, Im>>} : Shape("DIRECT", "BRANCH", o)
    <3>1. LastOf("DIRECT", "BRANCH", 3, Im)
      BY LastOfRow
    <3> QED
      BY <3>1, Shapes, Zenon
  <2>2. \A b \in {Rd(k) \cup OPC(4) : k \in 8..11}, o \in {<<Rg, Rg, Im>>} :
          Fixes("DIRECT", b, "BRANCH", o)
    BY BranchFixes
  <2> QED
    BY <2>1, <2>2, GoodRows
<1>14. \A S \in {Rows("RI64", {OPC(22), OPC(24)}, "none", {<<Rg, Rg, Rg, Im>>}),
              Rows("R3", {OPC(22), ImmOnly \cup OPC(24), OPC(13)}, "none", {<<Rg, Rg, Rg>>}),
              Rows("DIRECT", BitMapOps, "none", {<<Rg, {"DIRECT"}>>}),
              Rows("REGIND", BitMapOps, "none", {<<Rg, Ind>>}),
              Rows("RI", {OPC(14)}, "none", {<<Rg, Rg, Rg, Im>>}),
              Rows("R3", {OPC(15)}, "none", {<<Rg>>}),
              Rows("RI", {OPC(12)}, "none", {<<Rg, Rg>>}),
              Rows("DIRECT", CallOrJump, "JUMP", {<<Im>>}),
              Rows("REGIND", CallOrJump, "JUMP", {<<Ind>>}),
              Rows("R3", {ImmOnly \cup OPC(26)}, "none", {<<Rg, Rg>>}),
              Rows("RI", {OPC(8)}, "none", {<<Rg, Rg, Im>>}),
              Rows("DIRECT", {Rd(k) \cup OPC(4) : k \in 0..6}, "BRANCH", {<<Rg, Rg, Im>>, <<Rg, Im>>}),
              Rows("DIRECT", {Rd(k) \cup OPC(4) : k \in 8..11}, "BRANCH", {<<Rg, Rg, Im>>})} :
         \A r \in S : GoodRow(r)
  BY <1>1, <1>2, <1>3, <1>4, <1>5, <1>6, <1>7, <1>8, <1>9, <1>10, <1>11, <1>12, <1>13, ZenonT(60)
<1> QED
  BY <1>14, Zenon DEF RowsA

LEMMA RowsBGood == \A r \in RowsB : GoodRow(r)
<1>1. \A r \in Rows("DIRECT", {OPC(16), OPC(22), OPC(5)}, "none", {<<Rg, Im>>}) : GoodRow(r)
  <2>1. \A o \in {<<Rg, Im>>} : Shape("DIRECT", "none", o)
    <3>1. LastOf("DIRECT", "none", 2, Im)
      BY LastOfRow
    <3> QED
      BY <3>1, Shapes, Zenon
  <2>2. \A b \in {OPC(16), OPC(22), OPC(5)}, o \in {<<Rg, Im>>} : Fixes("DIRECT", b, "none", o)
    BY PlainFixes DEF PlainOps
  <2> QED
    BY <2>1, <2>2, GoodRows
<1>2. \A r \in Rows("REGIND", {OPC(16), OPC(22), OPC(5)}, "none", {<<Rg, Ind>>}) : GoodRow(r)
  <2>1. \A o \in {<<Rg, Ind>>} : Shape("REGIND", "none", o)
    <3>1. LastOf("REGIND", "none", 2, Ind)
      BY LastOfRow
    <3> QED
      BY <3>1, Shapes, Zenon
  <2>2. \A b \in {OPC(16), OPC(22), OPC(5)}, o \in {<<Rg, Ind>>} : Fixes("REGIND", b, "none", o)
    BY PlainFixes DEF PlainOps
  <2> QED
    BY <2>1, <2>2, GoodRows
<1>3. \A r \in Rows("RI", {OPC(3)}, "none", {<<Im>>, <<Rg, Im>>}) : GoodRow(r)
  <2>1. \A o \in {<<Im>>, <<Rg, Im>>} : Shape("RI", "none", o)
    <3>1. LastOf("RI", "none", 1, Im)
      BY LastOfRow
    <3>2. LastOf("RI", "none", 2, Im)
      BY LastOfRow
    <3> QED
      BY <3>1, <3>2, Shapes, Zenon
  <2>2. \A b \in {OPC(3)}, o \in {<<Im>>, <<Rg, Im>>} : Fixes("RI", b, "none", o)
    BY PlainFixes DEF PlainOps
  <2> QED
    BY <2>1, <2>2, GoodRows
<1>4. \A r \in Rows("R3", {OPC(3)}, "none", {<<Rg>>}) : GoodRow(r)
  <2>1. \A o \in {<<Rg>>} : Shape("R3", "none", o)
    <3>1. LastOf("R3", "none", 1, Rg)
      BY LastOfRow
    <3> QED
      BY <3>1, Shapes, Zenon
  <2>2. \A b \in {OPC(3)}, o \in {<<Rg>>} : Fixes("R3", b, "none", o)
    BY PlainFixes DEF PlainOps
  <2> QED
    BY <2>1, <2>2, GoodRows
<1>5. \A r \in Rows("RI64", {OPC(22)}, "none", {<<Rg, Im>>}) : GoodRow(r)
  <2>1. \A o \in {<<Rg, Im>>} : Shape("RI64", "none", o)
    <3>1. LastOf("RI64", "none", 2, Im)
      BY LastOfRow
    <3> QED
      BY <3>1, Shapes, Zenon
  <2>2. \A b \in {OPC(22)}, o \in {<<Rg, Im>>} : Fixes("RI64", b, "none", o)
    BY NumberFixes
  <2> QED
    BY <2>1, <2>2, GoodRows
<1>6. \A r \in Rows("R3", {OPC(22)}, "none", {<<Rg, Rg>>}) : GoodRow(r)
  <2>1. \A o \in {<<Rg, Rg>>} : Shape("R3", "none", o)
    <3>1. LastOf("R3", "none", 2, Rg)
      BY LastOfRow
    <3> QED
      BY <3>1, Shapes, Zenon
  <2>2. \A b \in {OPC(22)}, o \in {<<Rg, Rg>>} : Fixes("R3", b, "none", o)
    BY PlainFixes DEF PlainOps
  <2> QED
    BY <2>1, <2>2, GoodRows
<1>7. \A r \in Rows("RI", {OPC(11), OPC(20), OPC(21)}, "none", {<<Rg, Rg, Rg, Im>>}) : GoodRow(r)
  <2>1. \A o \in {<<Rg, Rg, Rg, Im>>} : Shape("RI", "none", o)
    <3>1. LastOf("RI", "none", 4, Im)
      BY LastOfRow
    <3> QED
      BY <3>1, Shapes, Zenon
  <2>2. \A b \in {OPC(11), OPC(20), OPC(21)}, o \in {<<Rg, Rg, Rg, Im>>} : Fixes("RI", b, "none", o)
    BY PlainFixes DEF PlainOps
  <2> QED
    BY <2>1, <2>2, GoodRows
<1>8. \A r \in Rows("R3", {OPC(11), OPC(20), OPC(21), OPC(26)}, "none", {<<Rg, Rg, Rg>>}) :
        GoodRow(r)
  <2>1. \A o \in {<<Rg, Rg, Rg>>} : Shape("R3", "none", o)
    <3>1. LastOf("R3", "none", 3, Rg)
      BY LastOfRow
    <3> QED
      BY <3>1, Shapes, Zenon
  <2>2. \A b \in {OPC(11), OPC(20), OPC(21), OPC(26)}, o \in {<<Rg, Rg, Rg>>} :
          Fixes("R3", b, "none", o)
    BY PlainFixes DEF PlainOps
  <2> QED
    BY <2>1, <2>2, GoodRows
<1>9. \A r \in Rows("BITS16", {{}}, "none", {<<>>}) : GoodRow(r)
  <2>1. \A o \in {<<>>} : Shape("BITS16", "none", o)
    BY NoOperands
  <2>2. \A b \in {{}}, o \in {<<>>} : Fixes("BITS16", b, "none", o)
    BY PlainFixes DEF PlainOps
  <2> QED
    BY <2>1, <2>2, GoodRows
<1>10. \A r \in Rows("RI64", {OPC(25), OPC(26)}, "none", {<<Rg, Rg, Rg, Im>>}) : GoodRow(r)
  <2>1. \A o \in {<<Rg, Rg, Rg, Im>>} : Shape("RI64", "none", o)
    <3>1. LastOf("RI64", "none", 4, Im)
      BY LastOfRow
    <3> QED
      BY <3>1, Shapes, Zenon
  <2>2. \A b \in {OPC(25), OPC(26)}, o \in {<<Rg, Rg, Rg, Im>>} : Fixes("RI64", b, "none", o)
    BY NumberFixes
  <2> QED
    BY <2>1, <2>2, GoodRows
<1>11. \A r \in Rows("RI", {Rd(2) \cup OPC(9)}, "none", {<<Im>>}) : GoodRow(r)
  <2>1. \A o \in {<<Im>>} : Shape("RI", "none", o)
    <3>1. LastOf("RI", "none", 1, Im)
      BY LastOfRow
    <3> QED
      BY <3>1, Shapes, Zenon
  <2>2. \A b \in {Rd(2) \cup OPC(9)}, o \in {<<Im>>} : Fixes("RI", b, "none", o)
    BY ReturnFixes
  <2> QED
    BY <2>1, <2>2, GoodRows
<1>12. \A r \in Rows("RI", {OPC(20), OPC(21)}, "none", {<<Rg, Rg, Im>>}) : GoodRow(r)
  <2>1. \A o \in {<<Rg, Rg, Im>>} : Shape("RI", "none", o)
    <3>1. LastOf("RI", "none", 3, Im)
      BY LastOfRow
    <3> QED
      BY <3>1, Shapes, Zenon
  <2>2. \A b \in {OPC(20), OPC(21)}, o \in {<<Rg, Rg, Im>>} : Fixes("RI", b, "none", o)
    BY PlainFixes DEF PlainOps
  <2> QED
    BY <2>1, <2>2, GoodRows
<1>13. \A r \in Rows("DIRECT", {OPC(17), OPC(10)}, "STORE", {<<Rg, Im>>}) : GoodRow(r)
  <2>1. \A o \in {<<Rg, Im>>} : Shape("DIRECT", "STORE", o)
    <3>1. LastOf("DIRECT", "STORE", 2, Im)
      BY LastOfRow
    <3> QED
      BY <3>1, Shapes, Zenon
  <2>2. \A b \in {OPC(17), OPC(10)}, o \in {<<Rg, Im>>} : Fixes("DIRECT", b, "STORE", o)
    BY PlainFixes DEF PlainOps
  <2> QED
    BY <2>1, <2>2, GoodRows
<1>14. \A r \in Rows("REGIND", {OPC(17), OPC(10)}, "STORE", {<<Rg, Ind>>}) : GoodRow(r)
  <2>1. \A o \in {<<Rg, Ind>>} : Shape("REGIND", "STORE", o)
    <3>1. LastOf("REGIND", "STORE", 2, Ind)
      BY LastOfRow
    <3> QED
      BY <3>1, Shapes, Zenon
  <2>2. \A b \in {OPC(17), OPC(10)}, o \in {<<Rg, Ind>>} : Fixes("REGIND", b, "STORE", o)
    BY PlainFixes DEF PlainOps
  <2> QED
    BY <2>1, <2>2, GoodRows
<1>15. \A r \in Rows("STOREI", {OPC(18)}, "STORE", {<<Im, Im>>, <<Im, Ind>>}) : GoodRow(r)
  <2>1. \A o \in {<<Im, Im>>, <<Im, Ind>>} : Shape("STOREI", "STORE", o)
    BY StoreShapes
  <2>2. \A b \in {OPC(18)}, o \in {<<Im, Im>>, <<Im, Ind>>} : Fixes("STOREI", b, "STORE", o)
    BY StoreFixes
  <2> QED
    BY <2>1, <2>2, GoodRows
<1>16. \A r \in Rows("WAIT", {PutPiece(BitsOf(10), WCOND) \cup OPC(1)}, "none", {<<Rg, Im>>}) :
         GoodRow(r)
  <2>1. \A o \in {<<Rg, Im>>} : Shape("WAIT", "none", o)
    <3>1. LastOf("WAIT", "none", 2, Im)
      BY LastOfRow
    <3> QED
      BY <3>1, Shapes, Zenon
  <2>2. \A b \in {PutPiece(BitsOf(10), WCOND) \cup OPC(1)}, o \in {<<Rg, Im>>} :
          Fixes("WAIT", b, "none", o)
    BY WaitFixes
  <2> QED
    BY <2>1, <2>2, GoodRows
<1>17. \A r \in Rows("WAIT", {PutPiece(BitsOf(9), WCOND) \cup OPC(1)}, "none", {<<Rg, Rg, Rg, {"NEXTREG"}>>}) :
         GoodRow(r)
  <2>1. \A o \in {<<Rg, Rg, Rg, {"NEXTREG"}>>} : Shape("WAIT", "none", o)
    <3>1. LastOf("WAIT", "none", 4, {"NEXTREG"})
      BY LastOfRow
    <3> QED
      BY <3>1, Shapes, Zenon
  <2>2. \A b \in {PutPiece(BitsOf(9), WCOND) \cup OPC(1)}, o \in {<<Rg, Rg, Rg, {"NEXTREG"}>>} :
          Fixes("WAIT", b, "none", o)
    BY WaitFixes
  <2> QED
    BY <2>1, <2>2, GoodRows
<1>18. \A S \in {Rows("DIRECT", {OPC(16), OPC(22), OPC(5)}, "none", {<<Rg, Im>>}),
              Rows("REGIND", {OPC(16), OPC(22), OPC(5)}, "none", {<<Rg, Ind>>}),
              Rows("RI", {OPC(3)}, "none", {<<Im>>, <<Rg, Im>>}),
              Rows("R3", {OPC(3)}, "none", {<<Rg>>}),
              Rows("RI64", {OPC(22)}, "none", {<<Rg, Im>>}),
              Rows("R3", {OPC(22)}, "none", {<<Rg, Rg>>}),
              Rows("RI", {OPC(11), OPC(20), OPC(21)}, "none", {<<Rg, Rg, Rg, Im>>}),
              Rows("R3", {OPC(11), OPC(20), OPC(21), OPC(26)}, "none", {<<Rg, Rg, Rg>>}),
              Rows("BITS16", {{}}, "none", {<<>>}),
              Rows("RI64", {OPC(25), OPC(26)}, "none", {<<Rg, Rg, Rg, Im>>}),
              Rows("RI", {Rd(2) \cup OPC(9)}, "none", {<<Im>>}),
              Rows("RI", {OPC(20), OPC(21)}, "none", {<<Rg, Rg, Im>>}),
              Rows("DIRECT", {OPC(17), OPC(10)}, "STORE", {<<Rg, Im>>}),
              Rows("REGIND", {OPC(17), OPC(10)}, "STORE", {<<Rg, Ind>>}),
              Rows("STOREI", {OPC(18)}, "STORE", {<<Im, Im>>, <<Im, Ind>>}),
              Rows("WAIT", {PutPiece(BitsOf(10), WCOND) \cup OPC(1)}, "none", {<<Rg, Im>>}),
              Rows("WAIT", {PutPiece(BitsOf(9), WCOND) \cup OPC(1)}, "none", {<<Rg, Rg, Rg, {"NEXTREG"}>>})} :
         \A r \in S : GoodRow(r)
  BY <1>1, <1>2, <1>3, <1>4, <1>5, <1>6, <1>7, <1>8, <1>9, <1>10, <1>11, <1>12, <1>13, <1>14,
     <1>15, <1>16, <1>17, ZenonT(60)
<1> QED
  BY <1>18, Zenon DEF RowsB

LEMMA MnemonicsGood == \A r \in mnemonics : GoodRow(r)
  BY RowsAGood, RowsBGood DEF mnemonics
-----------------------------------------------------------------------------
(* Operands as they are parsed.                                            *)
LEMMA BitsOfRange == \A k : BitsOf(k) \in SUBSET (0..7) /\ BitsOf(k) \in Value
<1> SUFFICES ASSUME NEW k
             PROVE  BitsOf(k) \in SUBSET (0..7) /\ BitsOf(k) \in Value
  OBVIOUS
<1>1. BitsOf(k) \in SUBSET (0..7)
  BY DEF BitsOf
<1>2. \A x \in SUBSET (0..7) : x \in Value
  BY DEF Value
<1> QED
  BY <1>1, <1>2

LEMMA Strings ==
  /\ "num" \in Forms /\ "flt" \in Forms /\ "NONE" \in Attributes
  /\ \A s \in Sources : s.t \in {"imm", "mem"} => s.form \in Forms
  BY DEF Forms, Attributes

LEMMA AttributeType == \A w : Attribute(w) \in Attributes
<1> SUFFICES ASSUME NEW w
             PROVE  Attribute(w) \in Attributes
  OBVIOUS
<1>1. CASE w = "got"
  BY <1>1 DEF Attribute, Attributes
<1>2. CASE w = "plt"
  BY <1>2 DEF Attribute, Attributes
<1>3. CASE w \in {"sdax", "sdarx", "sdarel"}
  BY <1>3 DEF Attribute, Attributes
<1>4. CASE w = "sectoff"
  BY <1>4 DEF Attribute, Attributes
<1>5. CASE w = "local"
  BY <1>5 DEF Attribute, Attributes
<1>6. CASE w = "globdat"
  BY <1>6 DEF Attribute, Attributes
<1>7. CASE w \notin {"got", "plt", "sdax", "sdarx", "sdarel", "sectoff", "local", "globdat"}
  BY <1>7 DEF Attribute, Attributes
<1> QED
  BY <1>1, <1>2, <1>3, <1>4, <1>5, <1>6, <1>7

LEMMA OperandFields ==
  ASSUME NEW kind \in {"REG", "IMM", "REGIND", "DATA"}, NEW reg \in SUBSET (0..7),
         NEW form \in Forms, NEW v \in Value, NEW attr \in Attributes
  PROVE  /\ Operand(kind, reg, form, v, attr) \in OperandType
         /\ Operand(kind, reg, form, v, attr).kind = kind
         /\ Operand(kind, reg, form, v, attr).reg = reg
         /\ Operand(kind, reg, form, v, attr).form = form
         /\ Operand(kind, reg, form, v, attr).v = v
         /\ Operand(kind, reg, form, v, attr).attr = attr
  BY DEF Operand, OperandType

LEMMA NextRegisterType ==
  NextRegister \in OperandType /\ NextRegister.kind = "REG" /\ NextRegister.form = "num"
<1>1. {} \in SUBSET (0..7) /\ {} \in Value
  BY DEF Value
<1> QED
  BY <1>1, Strings, OperandFields DEF NextRegister

LEMMA ParsedType ==
  ASSUME NEW s \in Sources
  PROVE  /\ parse_operand(s) \in OperandType
         /\ parse_operand(s).kind \in {"REG", "IMM", "REGIND"}
         /\ parse_operand(s).kind = "REG" => parse_operand(s).form = "num"
<1>0. s.t \in {"reg", "imm", "mem"} /\ {} \in SUBSET (0..7)
  BY SourcesAssumption
<1>1. CASE s.t = "reg"
  <2>1. parse_operand(s) = Operand("REG", BitsOf(is_reg(s.name)), "num", BitsOf(is_reg(s.name)), "NONE")
    BY <1>1 DEF parse_operand
  <2> QED
    BY <2>1, BitsOfRange, Strings, OperandFields
<1>2. CASE s.t = "imm"
  <2>1. parse_operand(s) = Operand("IMM", {}, s.form, s.v, parse_reloc_attr(s.attr))
    BY <1>2 DEF parse_operand
  <2>2. s.v \in Value /\ s.form \in Forms /\ parse_reloc_attr(s.attr) \in Attributes
    BY <1>2, SourcesAssumption, Strings, AttributeType DEF Value, parse_reloc_attr
  <2> QED
    BY <1>0, <2>1, <2>2, OperandFields
<1>3. CASE s.t = "mem"
  <2>1. parse_operand(s) = Operand("REGIND", BitsOf(is_reg(s.base)), s.form, s.v, parse_reloc_attr(s.attr))
    BY <1>3 DEF parse_operand, parse_idx
  <2>2. s.v \in Value /\ s.form \in Forms /\ parse_reloc_attr(s.attr) \in Attributes
    BY <1>3, SourcesAssumption, Strings, AttributeType DEF Value, parse_reloc_attr
  <2> QED
    BY <2>1, <2>2, BitsOfRange, Strings, OperandFields
<1> QED
  BY <1>0, <1>1, <1>2, <1>3

LEMMA ParsedDataType ==
  ASSUME NEW op \in ParsedData
  PROVE  op \in OperandType /\ op.kind = "DATA" /\ op.attr = "NONE"
<1>1. PICK s \in Sources : s.t = "imm" /\ op = DataOperand(s, row.flag \in {"F32", "F64"})
  BY DEF ParsedData
<1> DEFINE form == IF row.flag \in {"F32", "F64"} /\ s.form = "num" THEN "flt" ELSE s.form
<1>2. s.v \in Value /\ s.form \in Forms /\ {} \in SUBSET (0..7)
  BY <1>1, SourcesAssumption, Strings DEF Value
<1>3. form \in Forms
  BY <1>2, Strings
<1>4. op = Operand("DATA", {}, form, s.v, "NONE")
  BY <1>1 DEF DataOperand
<1> HIDE DEF form
<1> QED
  BY <1>2, <1>3, <1>4, Strings, OperandFields

-----------------------------------------------------------------------------
(* The rows of the two kinds.                                              *)
GoodDataRow(r) ==
  /\ r.f = "DATA"
  /\ r.ops = <<{"DATA"}>>
  /\ r.fixed = {}
  /\ r.flag \in {"D8", "D16", "D32", "D64", "F32", "F64"}

LEMMA DataRows == \A r \in data_items : GoodDataRow(r)
<1> SUFFICES ASSUME NEW d \in Directives
             PROVE  GoodDataRow([f |-> "DATA", fixed |-> {}, flag |-> qupls_data_operand(d),
                                 ops |-> <<{"DATA"}>>])
  BY DEF data_items
<1>1. qupls_data_operand(d) \in {"D8", "D16", "D32", "D64", "F32", "F64"}
  BY DEF qupls_data_operand
<1> QED
  BY <1>1 DEF GoodDataRow

LEMMA RowIs ==
  ASSUME row \in mnemonics \cup data_items
  PROVE  /\ row.f # "DATA" => GoodRow(row)
         /\ row.f = "DATA" => GoodDataRow(row)
         /\ Len(row.ops) \in Nat
         /\ row.f # "DATA" => row \in mnemonics
         /\ row.fixed \subseteq 0..31
<1>1. CASE row \in mnemonics
  <2>1. GoodRow(row) /\ row.f # "DATA"
    BY <1>1, MnemonicsGood DEF GoodRow, Shape
  <2>2. row.fixed \subseteq 0..31
    BY <2>1 DEF GoodRow, Fixes
  <2>3. row.ops \in Seq({Rg, Im, Ind, {"DIRECT"}, {"NEXTREG"}})
    BY <2>1 DEF GoodRow, Shape
  <2>4. Len(row.ops) \in Nat
    BY <2>3
  <2> QED
    BY <1>1, <2>1, <2>2, <2>4
<1>2. CASE row \in data_items
  <2>1. GoodDataRow(row)
    BY <1>2, DataRows
  <2> QED
    BY <2>1 DEF GoodDataRow
<1> QED
  BY <1>1, <1>2

(* The operand an action takes is one that the row takes there.            *)
LEMMA GivenType ==
  ASSUME OperandsInv, More, NEW op \in Given
  PROVE  /\ op \in OperandType
         /\ Accepts(row.ops[i + 1], op)
         /\ db => op = ops[i + 1]
         /\ row.f # "DATA" => op.kind # "DATA"
         /\ row.f = "DATA" => op.kind = "DATA"
         /\ row.f = "DATA" /\ ~db => op \in ParsedData
<1>0. /\ i \in Nat /\ i + 1 \in 1..Len(row.ops) /\ Len(row.ops) \in Nat
      /\ db \in BOOLEAN /\ row \in mnemonics \cup data_items
  BY RowIs DEF OperandsInv, More
<1>a. row.f # "DATA" => row.ops[i + 1] \in Takes
  <2>1. row.f # "DATA" => row.ops \in Seq(Takes)
    BY <1>0, RowIs DEF GoodRow, Shape, Takes
  <2> QED
    BY <1>0, <2>1
<1>b. row.f = "DATA" => row.ops[i + 1] = {"DATA"}
  <2>1. row.f = "DATA" => row.ops = <<{"DATA"}>>
    BY <1>0, RowIs DEF GoodDataRow
  <2> QED
    BY <1>0, <2>1
<1>t. /\ row.f # "DATA" => row.ops[i + 1] \in Takes
      /\ row.f = "DATA" => row.ops[i + 1] = {"DATA"}
  BY <1>a, <1>b
<1>k. /\ {"DATA"} \notin Takes
      /\ "DATA" \notin Rg /\ "DATA" \notin Im /\ "DATA" \notin Ind
  BY Kinds DEF Takes, Rg, Im, Ind
<1>1. CASE db
  <2>1. op = ops[i + 1] /\ i + 1 \in 1..Len(ops)
    BY <1>0, <1>1 DEF Given, OperandsInv
  <2>2. op \in OperandType /\ Accepts(row.ops[i + 1], op)
    BY <2>1 DEF OperandsInv
  <2>3. op.kind \in {"REG", "IMM", "REGIND", "DATA"}
    BY <2>2 DEF OperandType
  <2> QED
    BY <1>1, <1>t, <1>k, <2>1, <2>2, <2>3, Kinds DEF Accepts
<1>2. CASE ~db
  <2>1. op \in Parsed /\ Taken = row.ops[i + 1]
    BY <1>2 DEF Given, Taken
  <2>2. CASE Taken = {"NEXTREG"}
    <3>1. op = NextRegister
      BY <2>1, <2>2 DEF Parsed
    <3>2. Accepts({"NEXTREG"}, op) /\ op.kind = "REG"
      BY <3>1, NextRegisterType DEF Accepts
    <3>3. row.f # "DATA"
      BY <1>t, <2>1, <2>2
    <3> QED
      BY <1>2, <2>1, <2>2, <3>1, <3>2, <3>3, NextRegisterType
  <2>3. CASE Taken = {"DATA"}
    <3>1. op \in ParsedData
      BY <2>1, <2>3 DEF Parsed
    <3>2. op \in OperandType /\ op.kind = "DATA"
      BY <3>1, ParsedDataType
    <3>3. Accepts({"DATA"}, op)
      BY <3>2 DEF Accepts
    <3>4. row.f = "DATA"
      BY <1>t, <1>k, <2>1, <2>3
    <3> QED
      BY <1>2, <2>1, <2>3, <3>1, <3>2, <3>3, <3>4
  <2>4. CASE Taken # {"NEXTREG"} /\ Taken # {"DATA"}
    <3>1. PICK s \in Sources : op = parse_operand(s) /\ op.kind \in Taken
      BY <2>1, <2>4 DEF Parsed
    <3>2. row.f # "DATA" /\ Taken \in {Rg, Im, Ind, {"DIRECT"}}
      BY <1>t, <2>1, <2>4 DEF Takes
    <3>3. /\ op \in OperandType /\ op.kind \in {"REG", "IMM", "REGIND"}
          /\ op.kind = "REG" => op.form = "num"
      BY <3>1, ParsedType
    <3>4. Accepts(Taken, op)
      BY <3>1, <3>2, <3>3 DEF Accepts, Rg, Im, Ind
    <3> QED
      BY <1>2, <2>1, <3>2, <3>3, <3>4
  <2> QED
    BY <2>2, <2>3, <2>4
<1> QED
  BY <1>0, <1>1, <1>2
-----------------------------------------------------------------------------
(* What the three encoding actions have in common.                         *)
Stepped(op) ==
  /\ row' = row /\ db' = db /\ sized' = sized /\ i' = i + 1
  /\ i \in Nat /\ Len(row.ops) \in Nat /\ i < Len(row.ops) /\ db \in BOOLEAN
  /\ op \in OperandType /\ Accepts(row.ops[i + 1], op) /\ op.kind # "DATA"
  /\ ops' \in Seq(OperandType)
  /\ Len(ops') = IF db THEN Len(row.ops) ELSE i + 1
  /\ ops'[i + 1] = op
  /\ \A k \in 1..i : ops'[k] = ops[k]
  /\ db => ops' = ops
  /\ \A k \in 1..Len(ops') : Accepts(row.ops[k], ops'[k])

LEMMA Steps ==
  ASSUME OperandsInv, More, row.f # "DATA", NEW op \in Given, Advance(op)
  PROVE  Stepped(op)
<1>1. /\ row' = row /\ db' = db /\ sized' = sized /\ i' = i + 1
      /\ ops' = IF db THEN ops ELSE Append(ops, op)
  BY DEF Advance
<1>2. i \in Nat /\ Len(row.ops) \in Nat /\ i < Len(row.ops) /\ db \in BOOLEAN
  BY RowIs DEF OperandsInv, More
<1>3. /\ op \in OperandType /\ Accepts(row.ops[i + 1], op) /\ op.kind # "DATA"
      /\ db => op = ops[i + 1]
  BY GivenType
<1>4. /\ ops \in Seq(OperandType)
      /\ Len(ops) = IF db THEN Len(row.ops) ELSE i
      /\ \A k \in 1..Len(ops) : Accepts(row.ops[k], ops[k])
  BY DEF OperandsInv
<1>5. CASE db
  <2>1. ops' = ops
    BY <1>1, <1>5
  <2> QED
    BY <1>1, <1>2, <1>3, <1>4, <1>5, <2>1 DEF Stepped
<1>6. CASE ~db
  <2>1. ops' = Append(ops, op) /\ Len(ops) = i
    BY <1>1, <1>4, <1>6
  <2>2. ops' \in Seq(OperandType) /\ Len(ops') = i + 1
    BY <1>2, <1>3, <1>4, <2>1
  <2>3. ops'[i + 1] = op /\ \A k \in 1..i : ops'[k] = ops[k]
    BY <1>2, <1>3, <1>4, <2>1
  <2>4. \A k \in 1..Len(ops') : Accepts(row.ops[k], ops'[k])
    BY <1>2, <1>3, <1>4, <2>1, <2>2, <2>3
  <2> QED
    BY <1>1, <1>2, <1>3, <1>6, <2>2, <2>3, <2>4 DEF Stepped
<1> QED
  BY <1>2, <1>5, <1>6

LEMMA OperandsStep ==
  ASSUME OperandsInv, NEW op, Stepped(op), ~db => placed' = {} /\ relocs' = {}
  PROVE  OperandsInv'
<1>1. row' = row /\ db' = db /\ sized' = sized /\ i' \in 0..Len(row.ops)
  BY DEF Stepped
<1>2. /\ ops' \in Seq(OperandType)
      /\ Len(ops') = (IF db' THEN Len(row'.ops) ELSE i')
      /\ \A k \in 1..Len(ops') : Accepts(row'.ops[k], ops'[k])
  BY <1>1 DEF Stepped
<1>3. row' \in mnemonics \cup data_items /\ db' \in BOOLEAN
  BY <1>1 DEF OperandsInv
<1>4. ~db' => sized' = 0 /\ placed' = {} /\ relocs' = {}
  BY <1>1 DEF OperandsInv
<1> QED
  BY <1>1, <1>2, <1>3, <1>4 DEF OperandsInv

(* Before an operand of another instruction than STOREI come registers,    *)
(* and a number is the last one.                                           *)
LEMMA RegistersBefore ==
  ASSUME OperandsInv, More, row.f # "DATA", row.f # "STOREI"
  PROVE  /\ ~EndsInNumber(ops, i)
         /\ row.ops[i + 1] # Rg => i + 1 = Len(row.ops)
<1>1. i \in Nat /\ Len(row.ops) \in Nat /\ i < Len(row.ops) /\ db \in BOOLEAN
  BY RowIs DEF OperandsInv, More
<1>2. \A k \in 1..Len(row.ops) - 1 : row.ops[k] = Rg
  BY RowIs DEF OperandsInv, GoodRow, Shape
<1>3. ASSUME i > 0
      PROVE  ops[i].kind = "REG"
  <2>1. i \in 1..Len(ops)
    BY <1>1, <1>3 DEF OperandsInv
  <2>2. ops[i] \in OperandType /\ Accepts(row.ops[i], ops[i])
    BY <2>1 DEF OperandsInv
  <2>3. row.ops[i] = Rg
    BY <1>1, <1>2, <1>3
  <2> QED
    BY <2>2, <2>3, Kinds DEF Accepts, OperandType
<1> QED
  BY <1>1, <1>2, <1>3 DEF EndsInNumber

-----------------------------------------------------------------------------
(* Where the formats put things.                                           *)
LEMMA Nth1 ==
  ASSUME NEW a, NEW k \in Nat
  PROVE  Nth(<<a>>, k) = IF k = 0 THEN {a} ELSE {}
  BY DEF Nth

LEMMA Nth2 ==
  ASSUME NEW a, NEW b, NEW k \in Nat
  PROVE  Nth(<<a, b>>, k) = IF k = 0 THEN {a} ELSE IF k = 1 THEN {b} ELSE {}
  BY DEF Nth

LEMMA Nth3 ==
  ASSUME NEW a, NEW b, NEW c, NEW k \in Nat
  PROVE  Nth(<<a, b, c>>, k) =
           IF k = 0 THEN {a} ELSE IF k = 1 THEN {b} ELSE IF k = 2 THEN {c} ELSE {}
<1>1. CASE k = 0
  BY <1>1 DEF Nth
<1>2. CASE k = 1
  BY <1>2 DEF Nth
<1>3. CASE k = 2
  BY <1>3 DEF Nth
<1>4. CASE k > 2
  BY <1>4 DEF Nth
<1> QED
  BY <1>1, <1>2, <1>3, <1>4

(* The register fields of the formats.                                     *)
LEMMA FieldTable ==
  ASSUME NEW r, NEW k
  PROVE  /\ r.f \in {"R2", "R3", "RI", "RI64"} => encode_reg(r, k) = Nth(<<RD, RS1, RS2>>, k)
         /\ r.f = "WAIT" => encode_reg(r, k) = Nth(<<RS1, RS2>>, k)
         /\ r.f \in {"STOREI", "REGIND"} =>
              /\ r.flag = "STORE" => encode_reg(r, k) = Nth(<<RS2, RS1, RS2>>, k)
              /\ r.flag = "JUMP" => encode_reg(r, k) = Nth(<<RS1, RS1, RS2>>, k)
              /\ r.flag \notin {"STORE", "JUMP"} => encode_reg(r, k) = Nth(<<RD, RS1, RS2>>, k)
         /\ r.f = "DIRECT" =>
              /\ r.flag = "STORE" => encode_reg(r, k) = Nth(<<RS2, RS1>>, k)
              /\ r.flag = "BRANCH" => encode_reg(r, k) = Nth(<<RS1, RS2>>, k)
              /\ r.flag = "JUMP" => encode_reg(r, k) = Nth(<<RS1>>, k)
              /\ r.flag \notin {"STORE", "BRANCH", "JUMP"} => encode_reg(r, k) = Nth(<<RD>>, k)
         /\ r.f = "BITS16" => encode_reg(r, k) = {}
<1>1. r.f \in {"R2", "R3", "RI", "RI64"} => encode_reg(r, k) = Nth(<<RD, RS1, RS2>>, k)
  BY DEF encode_reg
<1>2. r.f = "WAIT" => encode_reg(r, k) = Nth(<<RS1, RS2>>, k)
  BY DEF encode_reg
<1>3. ASSUME r.f \in {"STOREI", "REGIND"}
      PROVE  /\ r.flag = "STORE" => encode_reg(r, k) = Nth(<<RS2, RS1, RS2>>, k)
             /\ r.flag = "JUMP" => encode_reg(r, k) = Nth(<<RS1, RS1, RS2>>, k)
             /\ r.flag \notin {"STORE", "JUMP"} => encode_reg(r, k) = Nth(<<RD, RS1, RS2>>, k)
  <2>1. encode_reg(r, k) =
          Nth(<<CASE r.flag = "STORE" -> RS2 [] r.flag = "JUMP" -> RS1 [] OTHER -> RD, RS1, RS2>>, k)
    BY <1>3 DEF encode_reg
  <2>2. /\ r.flag = "STORE" =>
              (CASE r.flag = "STORE" -> RS2 [] r.flag = "JUMP" -> RS1 [] OTHER -> RD) = RS2
        /\ r.flag = "JUMP" =>
              (CASE r.flag = "STORE" -> RS2 [] r.flag = "JUMP" -> RS1 [] OTHER -> RD) = RS1
        /\ r.flag \notin {"STORE", "JUMP"} =>
              (CASE r.flag = "STORE" -> RS2 [] r.flag = "JUMP" -> RS1 [] OTHER -> RD) = RD
    OBVIOUS
  <2> QED
    BY <2>1, <2>2
<1>4. ASSUME r.f = "DIRECT"
      PROVE  /\ r.flag = "STORE" => encode_reg(r, k) = Nth(<<RS2, RS1>>, k)
             /\ r.flag = "BRANCH" => encode_reg(r, k) = Nth(<<RS1, RS2>>, k)
             /\ r.flag = "JUMP" => encode_reg(r, k) = Nth(<<RS1>>, k)
             /\ r.flag \notin {"STORE", "BRANCH", "JUMP"} => encode_reg(r, k) = Nth(<<RD>>, k)
  BY <1>4 DEF encode_reg
<1>5. r.f = "BITS16" => encode_reg(r, k) = {}
  BY DEF encode_reg
<1> QED
  BY <1>1, <1>2, <1>3, <1>4, <1>5

FieldSets == {{}, {RD}, {RS1}, {RS2}}

LEMMA NthIsField ==
  ASSUME NEW a \in {RD, RS1, RS2}, NEW b \in {RD, RS1, RS2}, NEW c \in {RD, RS1, RS2}, NEW k \in Nat
  PROVE  Nth(<<a>>, k) \in FieldSets /\ Nth(<<a, b>>, k) \in FieldSets /\ Nth(<<a, b, c>>, k) \in FieldSets
<1>0. {} \in FieldSets /\ {a} \in FieldSets /\ {b} \in FieldSets /\ {c} \in FieldSets
  BY DEF FieldSets
<1>1. Nth(<<a>>, k) \in FieldSets
  BY <1>0, Nth1, Zenon
<1>2. Nth(<<a, b>>, k) \in FieldSets
  BY <1>0, Nth2, Zenon
<1>3. Nth(<<a, b, c>>, k) \in FieldSets
  <2>1. Nth(<<a, b, c>>, k) =
          IF k = 0 THEN {a} ELSE IF k = 1 THEN {b} ELSE IF k = 2 THEN {c} ELSE {}
    BY Nth3, Zenon
  <2> QED
    BY <1>0, <2>1
<1> QED
  BY <1>1, <1>2, <1>3

LEMMA EncodeReg ==
  ASSUME NEW r, GoodRow(r), NEW k \in Nat
  PROVE  encode_reg(r, k) \in FieldSets
<1>0. RD \in {RD, RS1, RS2} /\ RS1 \in {RD, RS1, RS2} /\ RS2 \in {RD, RS1, RS2}
  OBVIOUS
<1>1. r.f \in {"RI64", "R3", "DIRECT", "REGIND", "RI", "BITS16", "STOREI", "WAIT"}
  BY DEF GoodRow, Shape
<1>2. {} \in FieldSets
  BY DEF FieldSets
<1>3. CASE r.f \in {"R2", "R3", "RI", "RI64"}
  <2>1. encode_reg(r, k) = Nth(<<RD, RS1, RS2>>, k)
    BY <1>3, FieldTable
  <2>2. Nth(<<RD, RS1, RS2>>, k) \in FieldSets
    BY <1>0, NthIsField, Zenon
  <2> QED
    BY <2>1, <2>2
<1>4. CASE r.f = "WAIT"
  <2>1. encode_reg(r, k) = Nth(<<RS1, RS2>>, k)
    BY <1>4, FieldTable
  <2>2. Nth(<<RS1, RS2>>, k) \in FieldSets
    BY <1>0, NthIsField, Zenon
  <2> QED
    BY <2>1, <2>2
<1>5. CASE r.f \in {"STOREI", "REGIND"}
  <2>1. CASE r.flag = "STORE"
    <3>1. encode_reg(r, k) = Nth(<<RS2, RS1, RS2>>, k)
      BY <1>5, <2>1, FieldTable
    <3>2. Nth(<<RS2, RS1, RS2>>, k) \in FieldSets
      BY <1>0, NthIsField, Zenon
    <3> QED
      BY <3>1, <3>2
  <2>2. CASE r.flag = "JUMP"
    <3>1. encode_reg(r, k) = Nth(<<RS1, RS1, RS2>>, k)
      BY <1>5, <2>2, FieldTable
    <3>2. Nth(<<RS1, RS1, RS2>>, k) \in FieldSets
      BY <1>0, NthIsField, Zenon
    <3> QED
      BY <3>1, <3>2
  <2>3. CASE r.flag \notin {"STORE", "JUMP"}
    <3>1. encode_reg(r, k) = Nth(<<RD, RS1, RS2>>, k)
      BY <1>5, <2>3, FieldTable
    <3>2. Nth(<<RD, RS1, RS2>>, k) \in FieldSets
      BY <1>0, NthIsField, Zenon
    <3> QED
      BY <3>1, <3>2
  <2> QED
    BY <2>1, <2>2, <2>3
<1>6. CASE r.f = "DIRECT"
  <2>1. CASE r.flag = "STORE"
    <3>1. encode_reg(r, k) = Nth(<<RS2, RS1>>, k)
      BY <1>6, <2>1, FieldTable
    <3>2. Nth(<<RS2, RS1>>, k) \in FieldSets
      BY <1>0, NthIsField, Zenon
    <3> QED
      BY <3>1, <3>2
  <2>2. CASE r.flag = "JUMP"
    <3>1. encode_reg(r, k) = Nth(<<RS1>>, k)
      BY <1>6, <2>2, FieldTable
    <3>2. Nth(<<RS1>>, k) \in FieldSets
      BY <1>0, NthIsField, Zenon
    <3> QED
      BY <3>1, <3>2
  <2>3. CASE r.flag = "BRANCH"
    <3>1. encode_reg(r, k) = Nth(<<RS1, RS2>>, k)
      BY <1>6, <2>3, FieldTable
    <3>2. Nth(<<RS1, RS2>>, k) \in FieldSets
      BY <1>0, NthIsField, Zenon
    <3> QED
      BY <3>1, <3>2
  <2>4. CASE r.flag \notin {"STORE", "BRANCH", "JUMP"}
    <3>1. encode_reg(r, k) = Nth(<<RD>>, k)
      BY <1>6, <2>4, FieldTable
    <3>2. Nth(<<RD>>, k) \in FieldSets
      BY <1>0, NthIsField, Zenon
    <3> QED
      BY <3>1, <3>2
  <2> QED
    BY <2>1, <2>2, <2>3, <2>4
<1>7. CASE r.f = "BITS16"
  BY <1>2, <1>7, FieldTable
<1> QED
  BY <1>1, <1>3, <1>4, <1>5, <1>6, <1>7

-----------------------------------------------------------------------------
(* Where a register or a number may set bits, and what a number changes.   *)
LEMMA PutOne == \A v, p : Put(v, {p}) = PutPiece(v, p)
  BY DEF Put

LEMMA PutNone == \A v : Put(v, {}) = {}
  BY DEF Put

LEMMA PieceRange ==
  /\ \A v : PutPiece(v, RD) \subseteq 5..8
  /\ \A v : PutPiece(v, RS1) \subseteq 9..12
  /\ \A v : PutPiece(v, RS2) \subseteq 13..16
  /\ \A v : PutPiece(v, Imm15) \subseteq 17..31
  /\ \A v : PutPiece(v, <<0, 32, 32>>) \subseteq 32..63
<1>1. \A v : PutPiece(v, RD) \subseteq 5..8
  BY DEF PutPiece, RD
<1>2. \A v : PutPiece(v, RS1) \subseteq 9..12
  BY DEF PutPiece, RS1
<1>3. \A v : PutPiece(v, RS2) \subseteq 13..16
  BY DEF PutPiece, RS2
<1>4. \A v : PutPiece(v, Imm15) \subseteq 17..31
  BY DEF PutPiece, Imm15
<1>5. \A v : PutPiece(v, <<0, 32, 32>>) \subseteq 32..63
  BY DEF PutPiece
<1> QED
  BY <1>1, <1>2, <1>3, <1>4, <1>5

LEMMA RegisterRange ==
  ASSUME NEW v, NEW s \in FieldSets
  PROVE  Put(v, s) \subseteq 5..16
<1>1. CASE s = {}
  BY <1>1, PutNone
<1>2. CASE s = {RD}
  BY <1>2, PutOne, PieceRange
<1>3. CASE s = {RS1}
  BY <1>3, PutOne, PieceRange
<1>4. CASE s = {RS2}
  BY <1>4, PutOne, PieceRange
<1> QED
  BY <1>1, <1>2, <1>3, <1>4 DEF FieldSets

LEMMA BaseFields == \A r, k : BaseField(r, k) \in FieldSets
  BY DEF BaseField, FieldSets

LEMMA RegisterFieldType ==
  ASSUME NEW r, GoodRow(r), NEW op, NEW k \in Nat
  PROVE  RegisterField(r, op, k) \in FieldSets
  BY EncodeReg, BaseFields DEF RegisterField, FieldSets

(* What an operand with a number does.                                     *)
EffectType(e) ==
  /\ e.clear \subseteq 17..63
  /\ e.set \subseteq 17..63
  /\ e.pfx = <<>> => e.size \in {4, 8}
  /\ e.pfx # <<>> => e.size = 4
  /\ e.pfx = <<>> \/ Len(e.pfx) = 1

LEMMA EffectFields ==
  ASSUME NEW v, NEW pieces
  PROVE  /\ Effect(v, pieces).clear = {}
         /\ Effect(v, pieces).set = Put(v, pieces)
         /\ Effect(v, pieces).pfx = <<>>
         /\ Effect(v, pieces).size = 4
         /\ Effect(v, pieces).pieces = pieces
  BY DEF Effect

LEMMA AppendedFields ==
  ASSUME NEW v
  PROVE  /\ Appended(v).clear = 17..63
         /\ Appended(v).set = {31}
         /\ Appended(v).pfx = <<v>>
         /\ Appended(v).size = 4
         /\ Appended(v).pieces = {<<0, 64, 32>>}
  BY DEF Appended

LEMMA LongFields ==
  ASSUME NEW v
  PROVE  /\ Long(v).clear = 17..63
         /\ Long(v).set = {17, 31} \cup PutPiece(v, <<0, 32, 32>>)
         /\ Long(v).pfx = <<>>
         /\ Long(v).size = 8
         /\ Long(v).pieces = {<<0, 32, 32>>}
  BY DEF Long

(* The three ways of a number with 64 bits.                                *)
LEMMA RI64Cases ==
  ASSUME NEW v
  PROVE  /\ ~is_nbit(v, 32) => encode_immed_RI64(v, FALSE) = Appended(v)
         /\ is_nbit(v, 32) /\ is_nbit(v, 14) => encode_immed_RI64(v, FALSE) = Effect(v, {Imm15})
         /\ is_nbit(v, 32) /\ ~is_nbit(v, 14) => encode_immed_RI64(v, FALSE) = Long(v)
         /\ encode_immed_RI64(v, TRUE) = Appended(v)
<1>1. \A b \in BOOLEAN : encode_immed_RI64(v, b) =
        IF ~is_nbit(v, 32) \/ b THEN Appended(v)
        ELSE IF is_nbit(v, 14) THEN encode_immed_RI(v) ELSE Long(v)
  BY DEF encode_immed_RI64
<1>2. encode_immed_RI64(v, FALSE) =
        IF ~is_nbit(v, 32) THEN Appended(v)
        ELSE IF is_nbit(v, 14) THEN encode_immed_RI(v) ELSE Long(v)
  BY DEF encode_immed_RI64
<1>3. encode_immed_RI64(v, TRUE) = Appended(v)
  BY DEF encode_immed_RI64
<1> QED
  BY <1>2, <1>3 DEF encode_immed_RI

LEMMA EffectTypeIf ==
  ASSUME NEW e, e.clear \subseteq 17..63, e.set \subseteq 17..63,
         (e.pfx = <<>> /\ e.size \in {4, 8}) \/ (Len(e.pfx) = 1 /\ e.size = 4)
  PROVE  EffectType(e)
<1>1. e.pfx = <<>> => e.size \in {4, 8}
  OBVIOUS
<1>2. e.pfx # <<>> => e.size = 4
  OBVIOUS
<1>3. e.pfx = <<>> \/ Len(e.pfx) = 1
  OBVIOUS
<1> QED
  BY <1>1, <1>2, <1>3 DEF EffectType

LEMMA EffectIs ==
  ASSUME NEW v, NEW pieces, Put(v, pieces) \subseteq 17..63
  PROVE  EffectType(Effect(v, pieces))
<1>1. Effect(v, pieces).set = Put(v, pieces)
  BY EffectFields
<1>2. Effect(v, pieces).clear = {} /\ Effect(v, pieces).pfx = <<>> /\ Effect(v, pieces).size = 4
  BY EffectFields
<1>3. Effect(v, pieces).clear \subseteq 17..63
  BY <1>2
<1>4. Effect(v, pieces).set \subseteq 17..63
  BY <1>1
<1> QED
  BY <1>2, <1>3, <1>4, EffectTypeIf

LEMMA NumberType ==
  ASSUME NEW r, NEW op \in OperandType, NEW k
  PROVE  EffectType(Number(r, op, k))
<1>1. \A v : Put(v, {Imm15}) \subseteq 17..63
  BY PutOne, PieceRange
<1>2. \A v : EffectType(Effect(v, {Imm15}))
  BY <1>1, EffectIs
<1>3. \A v : EffectType(Nowhere(v))
  BY PutNone, EffectIs DEF Nowhere
<1>4. \A v : EffectType(encode_immed_WAIT(v))
  <2> SUFFICES ASSUME NEW v
               PROVE  EffectType(encode_immed_WAIT(v))
    OBVIOUS
  <2>1. PutPiece(v, <<0, 8, 21>>) \subseteq 17..63 /\ PutPiece(v, <<9, 3, 30>>) \subseteq 17..63
    BY DEF PutPiece
  <2>2. Put(v, {<<0, 8, 21>>, <<9, 3, 30>>}) \subseteq 17..63
    BY <2>1 DEF Put
  <2> QED
    BY <2>2, EffectIs DEF encode_immed_WAIT
<1>5. \A v \in Value : EffectType(encode_immed_RI64(v, FALSE))
  <2> SUFFICES ASSUME NEW v \in Value
               PROVE  EffectType(encode_immed_RI64(v, FALSE))
    OBVIOUS
  <2>1. EffectType(Appended(v))
    <3>1. Appended(v).set = {31} /\ Appended(v).clear = 17..63
      BY AppendedFields
    <3>2. Appended(v).pfx = <<v>> /\ Appended(v).size = 4
      BY AppendedFields
    <3>3. Appended(v).set \subseteq 17..63 /\ Appended(v).clear \subseteq 17..63
      BY <3>1
    <3>4. Len(Appended(v).pfx) = 1
      BY <3>2
    <3> QED
      BY <3>2, <3>3, <3>4, EffectTypeIf
  <2>2. EffectType(Long(v))
    <3>1. {17, 31} \cup PutPiece(v, <<0, 32, 32>>) \subseteq 17..63
      BY PieceRange
    <3>2. Long(v).pfx = <<>> /\ Long(v).size = 8
      BY LongFields
    <3>3. Long(v).set \subseteq 17..63 /\ Long(v).clear \subseteq 17..63
      BY <3>1, LongFields
    <3> QED
      BY <3>1, <3>2, <3>3, EffectTypeIf
  <2> QED
    BY <1>2, <2>1, <2>2, RI64Cases
<1>6. op.v \in Value
  BY DEF OperandType
<1>7. EffectType(encode_regind(op.v, k))
  BY <1>2, <1>3 DEF encode_regind, encode_direct
<1> QED
  BY <1>2, <1>4, <1>5, <1>6, <1>7 DEF Number

(* The immediate of an instruction other than STOREI.                      *)
LEMMA ImmediateIsNumber ==
  ASSUME NEW r, r.f \in {"RI64", "RI", "DIRECT", "WAIT"}, NEW op, op.kind = "IMM", NEW k
  PROVE  encode_immed(r, op.v, k) = {Number(r, op, k)}
<1>1. op.kind # "REGIND"
  OBVIOUS
<1>2. CASE r.f = "RI64"
  BY <1>1, <1>2 DEF encode_immed, Number
<1>3. CASE r.f = "RI"
  BY <1>1, <1>3 DEF encode_immed, Number, encode_immed_RI
<1>4. CASE r.f = "DIRECT"
  BY <1>1, <1>4 DEF encode_immed, Number, encode_direct
<1>5. CASE r.f = "WAIT"
  BY <1>1, <1>5 DEF encode_immed, Number
<1> QED
  BY <1>2, <1>3, <1>4, <1>5

(* The stored constant.                                                    *)
LEMMA StoredFields ==
  ASSUME NEW v
  PROVE  /\ is_nbit(v, 4) => StoredConstant(v) = Effect(v, {RD})
         /\ ~is_nbit(v, 4) =>
              /\ StoredConstant(v).clear = 0..4 \cup 17..63
              /\ StoredConstant(v).set = {31} \cup OPC(6)
              /\ StoredConstant(v).pfx = <<v>>
              /\ StoredConstant(v).size = 4
              /\ StoredConstant(v).pieces = {<<0, 64, 32>>}
<1>1. encode_immed_RI64(v, TRUE) = Appended(v)
  BY RI64Cases
<1>2. ~is_nbit(v, 4) =>
        StoredConstant(v) = [Appended(v) EXCEPT !.clear = 0..4 \cup 17..63, !.set = {31} \cup OPC(6)]
  BY <1>1 DEF StoredConstant
<1>3. is_nbit(v, 4) => StoredConstant(v) = Effect(v, {RD})
  BY DEF StoredConstant
<1> QED
  BY <1>2, <1>3 DEF Appended

-----------------------------------------------------------------------------
(* One operand more.                                                       *)
LEMMA OneMore ==
  ASSUME NEW r, NEW o, NEW j \in Nat, r.f # "STOREI"
  PROVE  LET op == o[j + 1]
         IN  /\ op.kind = "REG" =>
                  /\ Appends(r, o, j + 1) = <<>>
                  /\ Returns(r, o, j + 1) = 4
                  /\ Upper(r, o, j + 1) = r.fixed
                  /\ Links(r, o, j + 1) = {}
             /\ op.kind # "REG" =>
                  /\ Appends(r, o, j + 1) = Number(r, op, j).pfx
                  /\ Returns(r, o, j + 1) = Number(r, op, j).size
                  /\ Upper(r, o, j + 1) = (r.fixed \ Number(r, op, j).clear) \cup Number(r, op, j).set
                  /\ Links(r, o, j + 1) =
                       IF op.form # "num"
                       THEN {[op |-> j, at |-> RelocPiece(r.f, op.v), type |-> RelocType(op)]}
                       ELSE {}
<1>1. j + 1 > 0 /\ (j + 1) - 1 = j
  OBVIOUS
<1> QED
  BY <1>1 DEF Appends, Returns, Upper, Links, EndsInNumber

LEMMA NoneYet ==
  ASSUME NEW r, NEW o, NEW j, ~EndsInNumber(o, j), r.f # "STOREI"
  PROVE  /\ Appends(r, o, j) = <<>>
         /\ Returns(r, o, j) = 4
         /\ Upper(r, o, j) = r.fixed
         /\ Links(r, o, j) = {}
  BY DEF Appends, Returns, Upper, Links

LEMMA RegistersGrow ==
  ASSUME NEW r, NEW o, NEW j \in Nat
  PROVE  Registers(r, o, j + 1) =
           Registers(r, o, j) \cup Put(o[j + 1].reg, RegisterField(r, o[j + 1], j))
<1> DEFINE P(k) == Put(o[k + 1].reg, RegisterField(r, o[k + 1], k))
<1>1. 0..(j + 1) - 1 = (0..j - 1) \cup {j}
  OBVIOUS
<1>2. Registers(r, o, j) = UNION {P(k) : k \in 0..j - 1}
  BY DEF Registers
<1>3. Registers(r, o, j + 1) = UNION {P(k) : k \in (0..j - 1) \cup {j}}
  BY <1>1 DEF Registers
<1> HIDE DEF P
<1>6. {P(k) : k \in (0..j - 1) \cup {j}} = {P(k) : k \in 0..j - 1} \cup {P(j)}
  OBVIOUS
<1>7. \A S, x : UNION (S \cup {x}) = (UNION S) \cup x
  <2> SUFFICES ASSUME NEW S, NEW x
               PROVE  \A y : y \in UNION (S \cup {x}) <=> y \in (UNION S) \cup x
    OBVIOUS
  <2> QED
    OBVIOUS
<1>4. UNION {P(k) : k \in (0..j - 1) \cup {j}} = (UNION {P(k) : k \in 0..j - 1}) \cup P(j)
  BY <1>6, <1>7
<1>5. Registers(r, o, j + 1) = Registers(r, o, j) \cup P(j)
  BY <1>2, <1>3, <1>4
<1> QED
  BY <1>5 DEF P

LEMMA RecordsGrow ==
  ASSUME NEW r, NEW o, NEW j \in Nat
  PROVE  Records(r, o, j + 1) = Records(r, o, j) \cup {Record(r, o[j + 1], j)}
<1> DEFINE P(k) == Record(r, o[k + 1], k)
<1>1. 0..(j + 1) - 1 = (0..j - 1) \cup {j}
  OBVIOUS
<1>2. Records(r, o, j) = {P(k) : k \in 0..j - 1}
  BY DEF Records
<1>3. Records(r, o, j + 1) = {P(k) : k \in (0..j - 1) \cup {j}}
  BY <1>1 DEF Records
<1> HIDE DEF P
<1>4. {P(k) : k \in (0..j - 1) \cup {j}} = {P(k) : k \in 0..j - 1} \cup {P(j)}
  OBVIOUS
<1>5. Records(r, o, j + 1) = Records(r, o, j) \cup {P(j)}
  BY <1>2, <1>3, <1>4
<1> QED
  BY <1>5 DEF P

LEMMA AtStart ==
  ASSUME NEW r, NEW o
  PROVE  /\ Appends(r, o, 0) = <<>>
         /\ Returns(r, o, 0) = 4
         /\ Registers(r, o, 0) = {}
         /\ Upper(r, o, 0) = r.fixed
         /\ Links(r, o, 0) = {}
         /\ Records(r, o, 0) = {}
<1>1. 0..0 - 1 = {} /\ ~EndsInNumber(o, 0)
  BY DEF EndsInNumber
<1> QED
  BY <1>1 DEF Appends, Returns, Registers, Upper, Links, Records

(* What an action changes below bit 17, and from there up.                 *)
LEMMA LowerSet ==
  ASSUME NEW w, NEW f, NEW g, NEW u, IsWord(w, f, g, u), NEW p, p \subseteq 5..16
  PROVE  IsWord(w \cup p, f, g \cup p, u)
<1>0. w \cap 0..16 = (f \cup g) \cap 0..16 /\ w \cap 17..63 = u \cap 17..63
  BY DEF IsWord
<1>1. p \cap 17..63 = {}
  OBVIOUS
<1>2. (w \cup p) \cap 17..63 = u \cap 17..63
  BY <1>0, <1>1
<1>3. (w \cup p) \cap 0..16 = (w \cap 0..16) \cup (p \cap 0..16)
  OBVIOUS
<1>4. (f \cup (g \cup p)) \cap 0..16 = ((f \cup g) \cap 0..16) \cup (p \cap 0..16)
  OBVIOUS
<1>5. (w \cup p) \cap 0..16 = (f \cup (g \cup p)) \cap 0..16
  BY <1>0, <1>3, <1>4
<1> QED
  BY <1>2, <1>5 DEF IsWord

LEMMA UpperSet ==
  ASSUME NEW w, NEW f, NEW g, IsWord(w, f, g, f), NEW c, c \subseteq 17..63, NEW p,
         p \subseteq 17..63
  PROVE  IsWord((w \ c) \cup p, f, g, (f \ c) \cup p)
<1>0. w \cap 0..16 = (f \cup g) \cap 0..16 /\ w \cap 17..63 = f \cap 17..63
  BY DEF IsWord
<1>1. p \cap 0..16 = {}
  OBVIOUS
<1>2. c \cap 0..16 = {}
  OBVIOUS
<1>3. ((w \ c) \cup p) \cap 0..16 = w \cap 0..16
  BY <1>1, <1>2
<1>4. ((w \ c) \cup p) \cap 17..63 = ((w \cap 17..63) \ c) \cup (p \cap 17..63)
  OBVIOUS
<1>5. ((f \ c) \cup p) \cap 17..63 = ((f \cap 17..63) \ c) \cup (p \cap 17..63)
  OBVIOUS
<1>6. ((w \ c) \cup p) \cap 0..16 = (f \cup g) \cap 0..16
  BY <1>0, <1>3
<1>7. ((w \ c) \cup p) \cap 17..63 = ((f \ c) \cup p) \cap 17..63
  BY <1>0, <1>4, <1>5
<1> QED
  BY <1>6, <1>7 DEF IsWord

-----------------------------------------------------------------------------
(* A register is encoded.                                                  *)
LEMMA EncodedRegister ==
  ASSUME NEW op, op.kind = "REG",
         Encoded(op, op.reg, [Effect(op.reg, encode_reg(row, i)) EXCEPT !.size = isize], {})
  PROVE  /\ word' = word \cup Put(op.reg, encode_reg(row, i))
         /\ pfx' = pfx
         /\ isize' = isize
         /\ placed' = IF db THEN placed \cup {Record(row, op, i)} ELSE placed
<1> DEFINE e == [Effect(op.reg, encode_reg(row, i)) EXCEPT !.size = isize]
<1>1. /\ e.clear = {} /\ e.set = Put(op.reg, encode_reg(row, i)) /\ e.pfx = <<>>
      /\ e.size = isize /\ e.pieces = encode_reg(row, i)
  BY DEF Effect
<1>2. Encoded(op, op.reg, e, {})
  OBVIOUS
<1> HIDE DEF e
<1>3. word' = (word \ e.clear) \cup e.set \cup {} /\ pfx' = pfx /\ isize' = isize
  BY <1>1, <1>2 DEF Encoded
<1>4. word' = word \cup Put(op.reg, encode_reg(row, i))
  BY <1>1, <1>3
<1>5. Record(row, op, i) = [op |-> i, kind |-> op.kind, v |-> op.reg, pieces |-> e.pieces]
  BY <1>1 DEF Record
<1>6. placed' = IF db THEN placed \cup {Record(row, op, i)} ELSE placed
  BY <1>2, <1>5 DEF Encoded
<1> QED
  BY <1>3, <1>4, <1>6

LEMMA RegisterLinks ==
  ASSUME NEW op, op.kind = "REG", op.form = "num", Advance(op)
  PROVE  relocs' = relocs
<1>1. PICK sd \in BaseIsSdreg(op) :
        relocs' = IF db THEN fix_reloctype(op, relocs \cup make_reloc(row.f, i, op, sd)) ELSE relocs
  BY DEF Advance
<1>2. make_reloc(row.f, i, op, sd) = {}
  BY DEF make_reloc
<1>3. relocs \cup make_reloc(row.f, i, op, sd) = relocs
  BY <1>2
<1>4. fix_reloctype(op, relocs) = relocs
  BY DEF fix_reloctype
<1> QED
  BY <1>1, <1>3, <1>4

LEMMA RegisterStep ==
  ASSUME IInv, EncodeRegister
  PROVE  IInv'
<1>1. PICK op \in Given :
        /\ op.kind = "REG"
        /\ Encoded(op, op.reg, [Effect(op.reg, encode_reg(row, i)) EXCEPT !.size = isize], {})
        /\ Advance(op)
  BY DEF EncodeRegister
<1>2. OperandsInv /\ More
  BY DEF IInv, EncodeRegister
<1>3. row.f # "DATA"
  BY <1>1, <1>2, GivenType
<1>4. Stepped(op)
  BY <1>1, <1>2, <1>3, Steps
<1>5. op.form = "num" /\ row.ops[i + 1] \in {Rg, {"NEXTREG"}}
  BY <1>1, <1>4 DEF Stepped, Accepts
<1>6. GoodRow(row) /\ i \in Nat /\ i + 1 \in 1..Len(row.ops)
  BY <1>2, <1>3, <1>4, RowIs DEF OperandsInv, Stepped
<1>7. row.f # "STOREI"
  BY <1>5, <1>6, Kinds DEF GoodRow, Shape
<1>8. SizeInv /\ WordInv /\ HistoryInv
  BY <1>3 DEF IInv
<1>9. /\ word' = word \cup Put(op.reg, encode_reg(row, i))
      /\ pfx' = pfx /\ isize' = isize
      /\ placed' = IF db THEN placed \cup {Record(row, op, i)} ELSE placed
      /\ relocs' = relocs
  BY <1>1, <1>5, EncodedRegister, RegisterLinks
<1>10. /\ row' = row /\ db' = db /\ i' = i + 1 /\ sized' = sized /\ ops'[i + 1] = op
       /\ db => ops' = ops
  BY <1>4 DEF Stepped
<1>11. /\ Appends(row, ops, i) = <<>> /\ Returns(row, ops, i) = 4
       /\ Upper(row, ops, i) = row.fixed /\ Links(row, ops, i) = {}
  BY <1>2, <1>3, <1>7, RegistersBefore, NoneYet
<1>12. /\ Appends(row, ops', i + 1) = <<>> /\ Returns(row, ops', i + 1) = 4
       /\ Upper(row, ops', i + 1) = row.fixed /\ Links(row, ops', i + 1) = {}
  BY <1>1, <1>6, <1>7, <1>10, OneMore
<1>13. OperandsInv'
  <2>1. ~db => placed' = {} /\ relocs' = {}
    BY <1>2, <1>9 DEF OperandsInv
  <2> QED
    BY <1>2, <1>4, <2>1, OperandsStep
<1>14. SizeInv'
  <2>1. pfx' = Appends(row', ops', i') /\ isize' = Returns(row', ops', i')
    BY <1>8, <1>9, <1>10, <1>11, <1>12 DEF SizeInv
  <2>2. db' => sized' = Size(Appends(row', ops', Len(ops')), Returns(row', ops', Len(ops')))
    BY <1>8, <1>10 DEF SizeInv
  <2> QED
    BY <2>1, <2>2 DEF SizeInv
<1>15. Put(op.reg, encode_reg(row, i)) \subseteq 5..16
  BY <1>6, EncodeReg, RegisterRange
<1>16. RegisterField(row, op, i) = encode_reg(row, i)
  BY <1>1 DEF RegisterField
<1>17. WordInv'
  <2>1. word' \subseteq 0..63
    <3>1. \A s : s \subseteq 5..16 => s \subseteq 0..63
      OBVIOUS
    <3>2. Put(op.reg, encode_reg(row, i)) \subseteq 0..63 /\ word \subseteq 0..63
      BY <1>8, <1>15, <3>1 DEF WordInv
    <3> QED
      BY <1>9, <3>2
  <2>2. ASSUME db
        PROVE  IsWord(word', row.fixed, Registers(row, ops, i + 1), row.fixed)
    <3>1. IsWord(word, row.fixed, Registers(row, ops, i), row.fixed)
      BY <1>7, <1>8, <1>11, <2>2 DEF WordInv
    <3>2. Registers(row, ops, i + 1) = Registers(row, ops, i) \cup Put(op.reg, encode_reg(row, i))
      BY <1>6, <1>10, <1>16, <2>2, RegistersGrow
    <3> QED
      BY <1>9, <1>15, <3>1, <3>2, LowerSet
  <2> QED
    BY <1>7, <1>10, <1>12, <2>1, <2>2 DEF WordInv
<1>18. HistoryInv'
  <2>1. ASSUME db
        PROVE  placed' = Records(row, ops, i + 1)
    <3>1. placed = Records(row, ops, i) /\ placed' = placed \cup {Record(row, op, i)}
      BY <1>8, <1>9, <2>1 DEF HistoryInv
    <3>2. ops[i + 1] = op
      BY <1>10, <2>1
    <3>3. Records(row, ops, i + 1) = Records(row, ops, i) \cup {Record(row, ops[i + 1], i)}
      BY <1>6, RecordsGrow
    <3> QED
      BY <3>1, <3>2, <3>3
  <2>2. ASSUME db
        PROVE  relocs' = Links(row, ops, i + 1)
    BY <1>7, <1>8, <1>9, <1>10, <1>11, <1>12, <2>2 DEF HistoryInv
  <2> QED
    BY <1>10, <2>1, <2>2 DEF HistoryInv
<1> QED
  BY <1>3, <1>10, <1>13, <1>14, <1>17, <1>18 DEF IInv

-----------------------------------------------------------------------------
(* A number is encoded that is not stored: the last operand.               *)
LEMMA NumberLinks ==
  ASSUME NEW op, op.kind \in {"IMM", "REGIND"}, Advance(op), db, relocs = {},
         op.kind = "IMM" => row.f \notin {"STOREI", "REGIND"},
         op.kind = "REGIND" => row.f = "REGIND"
  PROVE  relocs' = IF op.form # "num"
                   THEN {[op |-> i, at |-> RelocPiece(row.f, op.v), type |-> RelocType(op)]}
                   ELSE {}
<1>1. PICK sd \in BaseIsSdreg(op) : relocs' = fix_reloctype(op, relocs \cup make_reloc(row.f, i, op, sd))
  BY DEF Advance
<1>2. relocs \cup make_reloc(row.f, i, op, sd) = make_reloc(row.f, i, op, sd)
  OBVIOUS
<1>3. CASE op.form = "num"
  <2>1. make_reloc(row.f, i, op, sd) = {}
    BY <1>3 DEF make_reloc
  <2>2. fix_reloctype(op, {}) = {}
    BY DEF fix_reloctype
  <2> QED
    BY <1>1, <1>2, <1>3, <2>1, <2>2
<1>4. CASE op.form # "num"
  <2> DEFINE r == [op |-> i, at |-> RelocPiece(row.f, op.v), type |-> RelocType(op)]
  <2>1. make_reloc(row.f, i, op, sd) = {r}
    <3>1. CASE op.kind = "IMM"
      <4>1. ~(row.f \in {"STOREI", "REGIND"} /\ sd)
        BY <3>1
      <4>2. RelocType(op) = get_reloc_type(op.attr)
        BY <3>1 DEF RelocType
      <4> QED
        BY <1>4, <4>1, <4>2 DEF make_reloc
    <3>2. CASE op.kind = "REGIND"
      <4>1. sd = (op.reg = sdreg)
        BY <3>2 DEF BaseIsSdreg
      <4>2. (IF row.f \in {"STOREI", "REGIND"} /\ sd THEN "SD" ELSE get_reloc_type(op.attr)) = RelocType(op)
        BY <3>2, <4>1 DEF RelocType
      <4> QED
        BY <1>4, <4>2 DEF make_reloc
    <3> QED
      BY <3>1, <3>2
  <2>2. fix_reloctype(op, {r}) = {r}
    <3>1. CASE op.kind = "REGIND" /\ op.attr = "NONE" /\ op.reg = sdreg
      <4>1. RelocType(op) = "SD"
        BY <3>1 DEF RelocType
      <4>2. [r EXCEPT !.type = "SD"] = r
        BY <4>1
      <4>3. {[x EXCEPT !.type = "SD"] : x \in {r}} = {[r EXCEPT !.type = "SD"]}
        OBVIOUS
      <4> QED
        BY <3>1, <4>2, <4>3 DEF fix_reloctype
    <3>2. CASE ~(op.kind = "REGIND" /\ op.attr = "NONE" /\ op.reg = sdreg)
      BY <3>2 DEF fix_reloctype
    <3> QED
      BY <3>1, <3>2
  <2> QED
    BY <1>1, <1>2, <1>4, <2>1, <2>2
<1> QED
  BY <1>3, <1>4

LEMMA NumberStep ==
  ASSUME IInv, More, row.f # "DATA", row.f # "STOREI",
         NEW op \in Given, op.kind \in {"IMM", "REGIND"},
         Encoded(op, op.v, Number(row, op, i), Put(op.reg, RegisterField(row, op, i))),
         Advance(op)
  PROVE  IInv'
<1> DEFINE e == Number(row, op, i)
           base == Put(op.reg, RegisterField(row, op, i))
<1>1. /\ word' = (word \ e.clear) \cup e.set \cup base
      /\ pfx' = (IF e.pfx = <<>> THEN pfx ELSE e.pfx)
      /\ isize' = e.size
      /\ placed' = IF db THEN placed \cup {[op |-> i, kind |-> op.kind, v |-> op.v, pieces |-> e.pieces]}
                   ELSE placed
  BY DEF Encoded
<1>2. OperandsInv
  BY DEF IInv
<1>4. Stepped(op)
  BY <1>2, Steps
<1>5. row.ops[i + 1] \in {Im, Ind} /\ op \in OperandType
  BY <1>4 DEF Stepped, Accepts
<1>6. GoodRow(row) /\ i \in Nat /\ i + 1 \in 1..Len(row.ops)
  BY <1>2, <1>4, RowIs DEF OperandsInv, Stepped
<1>e. EffectType(e)
  BY <1>5, NumberType
<1>f. base \subseteq 5..16
  BY <1>6, RegisterFieldType, RegisterRange
<1>8. SizeInv /\ WordInv /\ HistoryInv
  BY DEF IInv
<1>10. /\ row' = row /\ db' = db /\ i' = i + 1 /\ sized' = sized /\ ops'[i + 1] = op
       /\ db => ops' = ops
  BY <1>4 DEF Stepped
<1>11. /\ Appends(row, ops, i) = <<>> /\ Upper(row, ops, i) = row.fixed /\ Links(row, ops, i) = {}
  BY <1>2, RegistersBefore, NoneYet
<1>12. /\ Appends(row, ops', i + 1) = e.pfx /\ Returns(row, ops', i + 1) = e.size
       /\ Upper(row, ops', i + 1) = (row.fixed \ e.clear) \cup e.set
       /\ Links(row, ops', i + 1) =
            IF op.form # "num"
            THEN {[op |-> i, at |-> RelocPiece(row.f, op.v), type |-> RelocType(op)]}
            ELSE {}
  <2> DEFINE last == ops'[i + 1]
  <2>1. last = op
    BY <1>10
  <2> HIDE DEF last
  <2>2. last.kind # "REG"
    BY <2>1
  <2>3. /\ Appends(row, ops', i + 1) = Number(row, last, i).pfx
        /\ Returns(row, ops', i + 1) = Number(row, last, i).size
        /\ Upper(row, ops', i + 1) =
             (row.fixed \ Number(row, last, i).clear) \cup Number(row, last, i).set
        /\ Links(row, ops', i + 1) =
             IF last.form # "num"
             THEN {[op |-> i, at |-> RelocPiece(row.f, last.v), type |-> RelocType(last)]}
             ELSE {}
    BY <1>6, <2>2, OneMore DEF last
  <2> QED
    BY <2>1, <2>3
<1> HIDE DEF e, base
<1>13. OperandsInv'
  <2>1. ~db => placed' = {} /\ relocs' = {}
    BY <1>1, <1>2 DEF OperandsInv, Advance
  <2> QED
    BY <1>2, <1>4, <2>1, OperandsStep
<1>14. SizeInv'
  <2>0. pfx = <<>>
    BY <1>8, <1>11 DEF SizeInv
  <2>1. pfx' = Appends(row', ops', i') /\ isize' = Returns(row', ops', i')
    BY <2>0, <1>1, <1>10, <1>12
  <2>2. db' => sized' = Size(Appends(row', ops', Len(ops')), Returns(row', ops', Len(ops')))
    BY <1>8, <1>10 DEF SizeInv
  <2> QED
    BY <2>1, <2>2 DEF SizeInv
<1>17. WordInv'
  <2>1. word' \subseteq 0..63
    <3>1. \A s : s \subseteq 5..16 \/ s \subseteq 17..63 => s \subseteq 0..63
      OBVIOUS
    <3>2. base \subseteq 0..63 /\ e.set \subseteq 0..63 /\ word \subseteq 0..63
      BY <1>8, <1>e, <1>f, <3>1 DEF WordInv, EffectType
    <3> QED
      BY <1>1, <3>2
  <2>2. ASSUME db
        PROVE  IsWord(word', row.fixed, Registers(row, ops, i + 1), (row.fixed \ e.clear) \cup e.set)
    <3>1. IsWord(word, row.fixed, Registers(row, ops, i), row.fixed)
      BY <1>8, <1>11, <2>2 DEF WordInv
    <3>2. Registers(row, ops, i + 1) = Registers(row, ops, i) \cup base
      BY <1>6, <1>10, <2>2, RegistersGrow DEF base
    <3>3. IsWord((word \ e.clear) \cup e.set, row.fixed, Registers(row, ops, i),
                 (row.fixed \ e.clear) \cup e.set)
      BY <3>1, <1>e, UpperSet DEF EffectType
    <3> DEFINE w == (word \ e.clear) \cup e.set
               u == (row.fixed \ e.clear) \cup e.set
    <3>4. word' = w \cup base
      BY <1>1
    <3>5. IsWord(w, row.fixed, Registers(row, ops, i), u)
      BY <3>3
    <3> HIDE DEF w, u
    <3>6. IsWord(w \cup base, row.fixed, Registers(row, ops, i) \cup base, u)
      BY <1>f, <3>5, LowerSet
    <3>7. IsWord(word', row.fixed, Registers(row, ops, i + 1), u)
      BY <3>2, <3>4, <3>6
    <3> QED
      BY <3>7 DEF u
  <2> QED
    BY <1>10, <1>12, <2>1, <2>2 DEF WordInv
<1>18. HistoryInv'
  <2>1. ASSUME db
        PROVE  placed' = Records(row, ops, i + 1)
    <3>0. Record(row, op, i) = [op |-> i, kind |-> op.kind, v |-> op.v, pieces |-> e.pieces]
      BY DEF Record, e
    <3>1. placed = Records(row, ops, i) /\ placed' = placed \cup {Record(row, op, i)}
      BY <1>1, <1>8, <2>1, <3>0 DEF HistoryInv
    <3>2. ops[i + 1] = op
      BY <1>10, <2>1
    <3>3. Records(row, ops, i + 1) = Records(row, ops, i) \cup {Record(row, ops[i + 1], i)}
      BY <1>6, RecordsGrow
    <3> QED
      BY <3>1, <3>2, <3>3
  <2>2. ASSUME db
        PROVE  relocs' = Links(row, ops, i + 1)
    <3>1. relocs = {}
      BY <1>8, <1>11, <2>2 DEF HistoryInv
    <3>2. /\ op.kind = "IMM" => row.f \notin {"STOREI", "REGIND"}
          /\ op.kind = "REGIND" => row.f = "REGIND"
      BY <1>4, <1>6 DEF Stepped, Accepts, GoodRow, Shape
    <3>3. ops' = ops
      BY <1>10, <2>2
    <3> QED
      BY <1>12, <2>2, <3>1, <3>2, <3>3, NumberLinks
  <2> QED
    BY <1>10, <2>1, <2>2 DEF HistoryInv
<1> QED
  BY <1>10, <1>13, <1>14, <1>17, <1>18 DEF IInv

-----------------------------------------------------------------------------
(* STOREI.                                                                 *)
LEMMA StoredBits ==
  /\ OPC(18) = {1, 4} /\ OPC(6) = {1, 2}
  /\ \A v : Stored(v) \subseteq 0..31
<1>1. OPC(18) = {1, 4} /\ OPC(6) = {1, 2}
  BY Opcodes
<1>2. \A v : PutPiece(v, RD) \subseteq 0..31
  <2>1. \A s : s \subseteq 5..8 => s \subseteq 0..31
    OBVIOUS
  <2> QED
    BY <2>1, PieceRange
<1>3. {1, 4} \subseteq 0..31 /\ {1, 2} \cup {31} \subseteq 0..31
  OBVIOUS
<1> QED
  BY <1>1, <1>2, <1>3 DEF Stored

LEMMA StoreConstantWord ==
  ASSUME NEW v
  PROVE  /\ (OPC(18) \ StoredConstant(v).clear) \cup StoredConstant(v).set = Stored(v)
         /\ StoredConstant(v).size = 4
         /\ StoredConstant(v).pfx = <<>> \/ Len(StoredConstant(v).pfx) = 1
<1>1. CASE is_nbit(v, 4)
  <2>1. StoredConstant(v).clear = {} /\ StoredConstant(v).set = PutPiece(v, RD)
    BY <1>1, StoredFields, EffectFields, PutOne
  <2>2. StoredConstant(v).size = 4 /\ StoredConstant(v).pfx = <<>>
    BY <1>1, StoredFields, EffectFields
  <2>3. Stored(v) = OPC(18) \cup PutPiece(v, RD)
    BY <1>1 DEF Stored
  <2>4. (OPC(18) \ {}) \cup PutPiece(v, RD) = OPC(18) \cup PutPiece(v, RD)
    OBVIOUS
  <2>5. StoredConstant(v).pfx = <<>> \/ Len(StoredConstant(v).pfx) = 1
    BY <2>2
  <2> QED
    BY <2>1, <2>2, <2>3, <2>4, <2>5
<1>2. CASE ~is_nbit(v, 4)
  <2>1. StoredConstant(v).clear = 0..4 \cup 17..63 /\ StoredConstant(v).set = {31} \cup OPC(6)
    BY <1>2, StoredFields
  <2>2. StoredConstant(v).size = 4 /\ StoredConstant(v).pfx = <<v>>
    BY <1>2, StoredFields
  <2>3. Stored(v) = OPC(6) \cup {31}
    BY <1>2 DEF Stored
  <2>4. OPC(18) \ (0..4 \cup 17..63) = {}
    BY StoredBits
  <2>5. StoredConstant(v).pfx = <<>> \/ Len(StoredConstant(v).pfx) = 1
    BY <2>2
  <2>6. ({} \cup ({31} \cup OPC(6))) = OPC(6) \cup {31}
    OBVIOUS
  <2> QED
    BY <2>1, <2>2, <2>3, <2>4, <2>5, <2>6
<1> QED
  BY <1>1, <1>2

(* A row of STOREI takes the constant first.                               *)
LEMMA StoreRow ==
  ASSUME IInv, More, row.f = "STOREI", NEW op \in Given, Advance(op)
  PROVE  /\ Stepped(op) /\ GoodRow(row)
         /\ Len(row.ops) = 2 /\ i \in 0..1
         /\ i = 0 => op.kind = "IMM"
         /\ i = 1 => op.kind \in {"IMM", "REGIND"}
         /\ row.fixed = OPC(18)
         /\ i = 0 => ops'[1] = op
         /\ i = 1 => ops'[1] = ops[1] /\ ops'[2] = op
<1>1. OperandsInv /\ row.f # "DATA"
  BY DEF IInv
<1>2. Stepped(op)
  BY <1>1, Steps
<1>3. GoodRow(row)
  BY <1>1, RowIs DEF OperandsInv
<1>4. Len(row.ops) = 2 /\ row.ops[1] = Im /\ row.ops[2] \in {Im, Ind} /\ row.fixed = OPC(18)
  BY <1>3 DEF GoodRow, Shape, Fixes
<1>5. i \in 0..1
  BY <1>2, <1>4 DEF Stepped
<1>6. op.kind \in {"REG", "IMM", "REGIND"} /\ Accepts(row.ops[i + 1], op)
  BY <1>2 DEF Stepped, OperandType
<1>7. i = 0 => op.kind = "IMM"
  BY <1>4, <1>6, Kinds DEF Accepts
<1>8. i = 1 => op.kind \in {"IMM", "REGIND"}
  BY <1>4, <1>6, Kinds DEF Accepts
<1>9. /\ i = 0 => ops'[1] = op
      /\ i = 1 => ops'[1] = ops[1] /\ ops'[2] = op
  BY <1>2, <1>5 DEF Stepped
<1> QED
  BY <1>2, <1>3, <1>4, <1>5, <1>7, <1>8, <1>9

(* The first operand.                                                      *)
LEMMA StoreFirst ==
  ASSUME IInv, More, row.f = "STOREI", i = 0, NEW op \in Given,
         Encoded(op, op.v, StoredConstant(op.v), {}), Advance(op)
  PROVE  IInv'
<1> DEFINE e == StoredConstant(op.v)
<1>1. /\ word' = (word \ e.clear) \cup e.set \cup {}
      /\ pfx' = (IF e.pfx = <<>> THEN pfx ELSE e.pfx)
      /\ isize' = e.size
      /\ placed' = IF db THEN placed \cup {[op |-> i, kind |-> op.kind, v |-> op.v, pieces |-> e.pieces]}
                   ELSE placed
  BY DEF Encoded
<1>2. OperandsInv /\ SizeInv /\ WordInv /\ HistoryInv
  BY DEF IInv
<1>3. Stepped(op) /\ row.fixed = OPC(18) /\ op.kind = "IMM" /\ ops'[1] = op
  BY StoreRow
<1>4. /\ row' = row /\ db' = db /\ i' = 1 /\ sized' = sized
      /\ db => ops' = ops
  BY <1>3 DEF Stepped
<1>5. pfx = <<>>
  BY <1>2 DEF SizeInv, Appends
<1>6. Appends(row, ops', 1) = e.pfx /\ Returns(row, ops', 1) = 4
  BY <1>3 DEF Appends, Returns
<1>7. e.size = 4 /\ (OPC(18) \ e.clear) \cup e.set = Stored(op.v)
  BY StoreConstantWord
<1> HIDE DEF e
<1>8. OperandsInv'
  <2>1. ~db => placed' = {} /\ relocs' = {}
    BY <1>1, <1>2 DEF OperandsInv, Advance
  <2> QED
    BY <1>2, <1>3, <2>1, OperandsStep
<1>9. SizeInv'
  <2>1. pfx' = Appends(row', ops', i') /\ isize' = Returns(row', ops', i')
    BY <1>1, <1>4, <1>5, <1>6, <1>7
  <2>2. db' => sized' = Size(Appends(row', ops', Len(ops')), Returns(row', ops', Len(ops')))
    BY <1>2, <1>4 DEF SizeInv
  <2> QED
    BY <2>1, <2>2 DEF SizeInv
<1>10. WordInv'
  <2>1. word' \subseteq 0..63
    <3>1. e.set \subseteq Stored(op.v)
      BY <1>7
    <3>2. \A s : s \subseteq 0..31 => s \subseteq 0..63
      OBVIOUS
    <3>3. Stored(op.v) \subseteq 0..63
      BY <3>2, StoredBits
    <3>4. word \subseteq 0..63
      BY <1>2 DEF WordInv
    <3> QED
      BY <1>1, <3>1, <3>3, <3>4
  <2>2. ASSUME db
        PROVE  word' = StoredWord(ops', 1)
    <3>1. word = OPC(18)
      BY <1>2, <2>2 DEF WordInv, StoredWord
    <3>2. StoredWord(ops', 1) = Stored(op.v)
      BY <1>3 DEF StoredWord
    <3> QED
      BY <1>1, <1>7, <3>1, <3>2
  <2> QED
    BY <1>4, <2>1, <2>2 DEF WordInv
<1>11. HistoryInv'
  <2>1. ASSUME db
        PROVE  placed' = Records(row, ops, 1)
    <3>0. Record(row, op, 0) = [op |-> 0, kind |-> op.kind, v |-> op.v, pieces |-> e.pieces]
      BY <1>3 DEF Record, e
    <3>1. placed = Records(row, ops, 0) /\ placed' = placed \cup {Record(row, op, 0)}
      BY <1>1, <1>2, <2>1, <3>0 DEF HistoryInv
    <3>2. ops[1] = op
      BY <1>3, <1>4, <2>1
    <3>3. Records(row, ops, 0 + 1) = Records(row, ops, 0) \cup {Record(row, ops[0 + 1], 0)}
      BY RecordsGrow
    <3>4. 0 + 1 = 1
      OBVIOUS
    <3> QED
      BY <3>1, <3>2, <3>3, <3>4
  <2> QED
    BY <1>4, <2>1 DEF HistoryInv
<1> QED
  BY <1>4, <1>8, <1>9, <1>10, <1>11 DEF IInv

(* The second operand: an address, or a base and a displacement.           *)
Second(op) ==
  IF op.kind = "IMM" THEN PutPiece(op.v, Imm15)
  ELSE PutPiece(op.reg, RS1) \cup (IF op.v = {} THEN {} ELSE PutPiece(op.v, Imm15))

LEMMA SecondNumber ==
  ASSUME NEW r, r.f = "STOREI", NEW op, op.kind \in {"IMM", "REGIND"}
  PROVE  LET e == Number(r, op, 1)
         IN  /\ e.clear = {} /\ e.pfx = <<>> /\ e.size = 4
             /\ e.set \cup Put(op.reg, RegisterField(r, op, 1)) = Second(op)
<1> DEFINE e == Number(r, op, 1)
<1>1. CASE op.kind = "IMM"
  <2>1. e = Effect(op.v, {Imm15})
    BY <1>1 DEF Number
  <2>2. RegisterField(r, op, 1) = {} /\ Second(op) = PutPiece(op.v, Imm15)
    BY <1>1 DEF RegisterField, Second
  <2>3. Put(op.reg, {}) = {} /\ Put(op.v, {Imm15}) = PutPiece(op.v, Imm15)
    BY PutNone, PutOne
  <2>4. e.clear = {} /\ e.pfx = <<>> /\ e.size = 4 /\ e.set = PutPiece(op.v, Imm15)
    BY <2>1, <2>3, EffectFields
  <2> HIDE DEF e
  <2>5. e.set \cup Put(op.reg, RegisterField(r, op, 1)) = Second(op)
    BY <2>2, <2>3, <2>4
  <2> QED
    BY <2>4, <2>5 DEF e
<1>2. CASE op.kind = "REGIND"
  <2>1. e = encode_regind(op.v, 1)
    BY <1>2 DEF Number
  <2>2. RegisterField(r, op, 1) = {RS1}
    BY <1>2 DEF RegisterField, BaseField
  <2>3. Put(op.reg, RegisterField(r, op, 1)) = PutPiece(op.reg, RS1)
    BY <2>2, PutOne
  <2>4. CASE op.v = {}
    <3>1. e = Effect(op.v, {})
      BY <2>1, <2>4 DEF encode_regind, Nowhere
    <3>2. e.set = {} /\ e.clear = {} /\ e.pfx = <<>> /\ e.size = 4
      BY <3>1, EffectFields, PutNone
    <3>3. Second(op) = PutPiece(op.reg, RS1) \cup {}
      BY <1>2, <2>4 DEF Second
    <3> HIDE DEF e
    <3>4. e.set \cup Put(op.reg, RegisterField(r, op, 1)) = Second(op)
      BY <2>3, <3>2, <3>3
    <3> QED
      BY <3>2, <3>4 DEF e
  <2>5. CASE op.v # {}
    <3>1. e = Effect(op.v, {Imm15})
      BY <2>1, <2>5 DEF encode_regind, encode_direct
    <3>2. e.set = PutPiece(op.v, Imm15) /\ e.clear = {} /\ e.pfx = <<>> /\ e.size = 4
      BY <3>1, EffectFields, PutOne
    <3>3. Second(op) = PutPiece(op.reg, RS1) \cup PutPiece(op.v, Imm15)
      BY <1>2, <2>5 DEF Second
    <3> HIDE DEF e
    <3>4. e.set \cup Put(op.reg, RegisterField(r, op, 1)) = Second(op)
      BY <2>3, <3>2, <3>3
    <3> QED
      BY <3>2, <3>4 DEF e
  <2> QED
    BY <2>4, <2>5
<1> QED
  BY <1>1, <1>2

LEMMA SecondRange == \A op : Second(op) \subseteq 0..63
<1>1. \A s : s \subseteq 9..12 \/ s \subseteq 17..31 => s \subseteq 0..63
  OBVIOUS
<1>2. \A v : PutPiece(v, Imm15) \subseteq 0..63 /\ PutPiece(v, RS1) \subseteq 0..63
  BY <1>1, PieceRange
<1> QED
  BY <1>2 DEF Second

LEMMA StoreSecond ==
  ASSUME IInv, More, row.f = "STOREI", i = 1, NEW op \in Given,
         Encoded(op, op.v, Number(row, op, 1), Put(op.reg, RegisterField(row, op, 1))), Advance(op)
  PROVE  IInv'
<1> DEFINE e == Number(row, op, 1)
           base == Put(op.reg, RegisterField(row, op, 1))
<1>1. /\ word' = (word \ e.clear) \cup e.set \cup base
      /\ pfx' = (IF e.pfx = <<>> THEN pfx ELSE e.pfx)
      /\ isize' = e.size
      /\ placed' = IF db THEN placed \cup {[op |-> i, kind |-> op.kind, v |-> op.v, pieces |-> e.pieces]}
                   ELSE placed
  BY DEF Encoded
<1>2. OperandsInv /\ SizeInv /\ WordInv /\ HistoryInv
  BY DEF IInv
<1>3. /\ Stepped(op) /\ op.kind \in {"IMM", "REGIND"}
      /\ ops'[1] = ops[1] /\ ops'[2] = op
  BY StoreRow
<1>4. /\ row' = row /\ db' = db /\ i' = 2 /\ sized' = sized
      /\ db => ops' = ops
  BY <1>3 DEF Stepped
<1>5. pfx = StoredConstant(ops[1].v).pfx
  BY <1>2 DEF SizeInv, Appends
<1>6. Appends(row, ops', 2) = StoredConstant(ops[1].v).pfx /\ Returns(row, ops', 2) = 4
  BY <1>3 DEF Appends, Returns
<1>7. /\ e.clear = {} /\ e.pfx = <<>> /\ e.size = 4
      /\ e.set \cup base = Second(op)
  BY <1>3, SecondNumber
<1>k. Record(row, op, 1) = [op |-> 1, kind |-> op.kind, v |-> op.v, pieces |-> e.pieces]
  BY <1>3 DEF Record
<1> HIDE DEF e, base
<1>w. word' = word \cup Second(op)
  <2>1. (word \ {}) \cup e.set \cup base = word \cup (e.set \cup base)
    OBVIOUS
  <2> QED
    BY <1>1, <1>7, <2>1
<1>8. OperandsInv'
  <2>1. ~db => placed' = {} /\ relocs' = {}
    BY <1>1, <1>2 DEF OperandsInv, Advance
  <2> QED
    BY <1>2, <1>3, <2>1, OperandsStep
<1>9. SizeInv'
  <2>1. pfx' = Appends(row', ops', i') /\ isize' = Returns(row', ops', i')
    BY <1>1, <1>4, <1>5, <1>6, <1>7
  <2>2. db' => sized' = Size(Appends(row', ops', Len(ops')), Returns(row', ops', Len(ops')))
    BY <1>2, <1>4 DEF SizeInv
  <2> QED
    BY <2>1, <2>2 DEF SizeInv
<1>10. WordInv'
  <2>1. word' \subseteq 0..63
    <3>1. word \subseteq 0..63
      BY <1>2 DEF WordInv
    <3> QED
      BY <1>w, <3>1, SecondRange
  <2>2. ASSUME db
        PROVE  word' = StoredWord(ops', 2)
    <3>1. word = Stored(ops[1].v) \cup {}
      BY <1>2, <2>2 DEF WordInv, StoredWord
    <3>2. StoredWord(ops', 2) = Stored(ops[1].v) \cup Second(op)
      BY <1>3 DEF StoredWord, Second
    <3> QED
      BY <1>w, <3>1, <3>2
  <2> QED
    BY <1>4, <2>1, <2>2 DEF WordInv
<1>11. HistoryInv'
  <2>1. ASSUME db
        PROVE  placed' = Records(row, ops, 2)
    <3>1. placed = Records(row, ops, 1) /\ placed' = placed \cup {Record(row, op, 1)}
      BY <1>1, <1>2, <1>k, <2>1 DEF HistoryInv
    <3>2. ops[2] = op
      BY <1>3, <1>4, <2>1
    <3>3. Records(row, ops, 1 + 1) = Records(row, ops, 1) \cup {Record(row, ops[1 + 1], 1)}
      BY RecordsGrow
    <3>4. 1 + 1 = 2
      OBVIOUS
    <3> QED
      BY <3>1, <3>2, <3>3, <3>4
  <2> QED
    BY <1>4, <2>1 DEF HistoryInv
<1> QED
  BY <1>4, <1>8, <1>9, <1>10, <1>11 DEF IInv

(* The two actions that encode a number, whatever the format.              *)
LEMMA ImmediateStep ==
  ASSUME IInv, EncodeImmediate
  PROVE  IInv'
<1>1. PICK op \in Given :
        /\ op.kind = "IMM"
        /\ \E e \in encode_immed(row, op.v, i) : Encoded(op, op.v, e, {})
        /\ Advance(op)
  BY DEF EncodeImmediate
<1>2. OperandsInv /\ More
  BY DEF IInv, EncodeImmediate
<1>3. row.f # "DATA"
  BY <1>1, <1>2, GivenType
<1>4. PICK e \in encode_immed(row, op.v, i) : Encoded(op, op.v, e, {})
  BY <1>1
<1>5. RegisterField(row, op, i) = {} /\ Put(op.reg, {}) = {}
  BY <1>1, PutNone DEF RegisterField
<1>6. CASE row.f = "STOREI"
  <2>1. i \in 0..1
    BY <1>1, <1>2, <1>6, StoreRow
  <2>2. encode_immed(row, op.v, i) = Nth(<<StoredConstant(op.v), encode_immed_RI(op.v)>>, i)
    BY <1>6 DEF encode_immed
  <2>3. CASE i = 0
    <3>1. Nth(<<StoredConstant(op.v), encode_immed_RI(op.v)>>, 0) = {StoredConstant(op.v)}
      BY Nth2
    <3>2. e = StoredConstant(op.v)
      BY <2>2, <2>3, <3>1
    <3> QED
      BY <1>1, <1>2, <1>4, <1>6, <2>3, <3>2, StoreFirst
  <2>4. CASE i = 1
    <3>1. Nth(<<StoredConstant(op.v), encode_immed_RI(op.v)>>, 1) = {encode_immed_RI(op.v)}
      <4>1. \A a, b : Nth(<<a, b>>, 1) = {b}
        BY DEF Nth
      <4> QED
        BY <4>1, Zenon
    <3>2. e = Number(row, op, 1)
      BY <1>1, <1>6, <2>2, <2>4, <3>1 DEF Number, encode_immed_RI
    <3>3. Encoded(op, op.v, Number(row, op, 1), Put(op.reg, RegisterField(row, op, 1)))
      BY <1>4, <1>5, <2>4, <3>2
    <3> QED
      BY <1>1, <1>2, <1>6, <2>4, <3>3, StoreSecond
  <2> QED
    BY <2>1, <2>3, <2>4
<1>7. CASE row.f # "STOREI"
  <2>1. row.f \in {"RI64", "RI", "DIRECT", "WAIT"}
    <3>1. Stepped(op) /\ GoodRow(row)
      BY <1>1, <1>2, <1>3, Steps, RowIs DEF OperandsInv
    <3>2. row.ops[i + 1] = Im /\ i + 1 \in 1..Len(row.ops)
      BY <1>1, <3>1 DEF Stepped, Accepts
    <3> QED
      BY <1>7, <3>1, <3>2 DEF GoodRow, Shape
  <2>2. e = Number(row, op, i)
    BY <1>1, <1>4, <2>1, ImmediateIsNumber
  <2>3. Encoded(op, op.v, Number(row, op, i), Put(op.reg, RegisterField(row, op, i)))
    BY <1>4, <1>5, <2>2
  <2> QED
    BY <1>1, <1>2, <1>3, <1>7, <2>3, NumberStep
<1> QED
  BY <1>6, <1>7

LEMMA IndirectStep ==
  ASSUME IInv, EncodeIndirect
  PROVE  IInv'
<1>1. PICK op \in Given :
        /\ op.kind = "REGIND"
        /\ Encoded(op, op.v, encode_regind(op.v, i), Put(op.reg, BaseField(row, i)))
        /\ Advance(op)
  BY DEF EncodeIndirect
<1>2. OperandsInv /\ More
  BY DEF IInv, EncodeIndirect
<1>3. row.f # "DATA"
  BY <1>1, <1>2, GivenType
<1>4. Number(row, op, i) = encode_regind(op.v, i) /\ RegisterField(row, op, i) = BaseField(row, i)
  BY <1>1 DEF Number, RegisterField
<1>5. Encoded(op, op.v, Number(row, op, i), Put(op.reg, RegisterField(row, op, i)))
  BY <1>1, <1>4
<1>6. CASE row.f = "STOREI"
  <2>1. i = 1
    BY <1>1, <1>2, <1>6, StoreRow
  <2> QED
    BY <1>1, <1>2, <1>5, <1>6, <2>1, StoreSecond
<1>7. CASE row.f # "STOREI"
  BY <1>1, <1>2, <1>3, <1>5, <1>7, NumberStep
<1> QED
  BY <1>6, <1>7

(* The sizing call ends.                                                   *)
LEMMA EmittingStep ==
  ASSUME IInv, StartEmitting
  PROVE  IInv'
<1>1. /\ ~More /\ ~db /\ sized' = Size(pfx, isize) /\ db' = TRUE /\ i' = 0 /\ word' = row.fixed
      /\ pfx' = <<>> /\ isize' = 4
      /\ row' = row /\ ops' = ops /\ placed' = placed /\ relocs' = relocs
  BY DEF StartEmitting
<1>2. OperandsInv
  BY DEF IInv
<1>3. Len(row.ops) \in Nat /\ row.fixed \subseteq 0..31 /\ i = Len(row.ops)
  <2>1. row \in mnemonics \cup data_items /\ i \in 0..Len(row.ops)
    BY <1>2 DEF OperandsInv
  <2>2. Len(row.ops) \in Nat /\ row.fixed \subseteq 0..31
    BY <2>1, RowIs
  <2>3. ~(i < Len(row.ops))
    BY <1>1 DEF More
  <2>4. i = Len(row.ops)
    BY <2>1, <2>2, <2>3
  <2> QED
    BY <2>2, <2>4
<1>4. row.f # "DATA"
  <2>1. SUFFICES ASSUME row.f = "DATA"
                 PROVE  FALSE
    OBVIOUS
  <2>2. i = 0
    BY <1>1, <2>1 DEF IInv, DataInv
  <2>3. row.ops = <<{"DATA"}>>
    BY <1>2, <2>1, RowIs DEF OperandsInv, GoodDataRow
  <2>4. Len(row.ops) = 1
    BY <2>3
  <2>5. Len(row.ops) = 0
    BY <1>3, <2>2
  <2> QED
    BY <2>4, <2>5
<1>5. SizeInv /\ placed = {} /\ relocs = {} /\ Len(ops) = i
  BY <1>1, <1>2, <1>4 DEF IInv, OperandsInv
<1>6. OperandsInv'
  <2>1. ops' \in Seq(OperandType) /\ \A k \in 1..Len(ops') : Accepts(row'.ops[k], ops'[k])
    BY <1>1, <1>2 DEF OperandsInv
  <2>2. row' \in mnemonics \cup data_items /\ i' \in 0..Len(row'.ops)
    BY <1>1, <1>2, <1>3 DEF OperandsInv
  <2>3. Len(ops') = (IF db' THEN Len(row'.ops) ELSE i')
    BY <1>1, <1>3, <1>5
  <2> QED
    BY <1>1, <2>1, <2>2, <2>3 DEF OperandsInv
<1>s. /\ Appends(row, ops, 0) = <<>> /\ Returns(row, ops, 0) = 4
      /\ Registers(row, ops, 0) = {} /\ Upper(row, ops, 0) = row.fixed
      /\ Links(row, ops, 0) = {} /\ Records(row, ops, 0) = {}
  BY AtStart
<1>7. SizeInv'
  <2>1. sized' = Size(Appends(row, ops, Len(ops)), Returns(row, ops, Len(ops)))
    BY <1>1, <1>5 DEF SizeInv
  <2> QED
    BY <1>1, <1>s, <2>1 DEF SizeInv
<1>8. WordInv'
  <2>1. word' \subseteq 0..63
    <3>1. \A s : s \subseteq 0..31 => s \subseteq 0..63
      OBVIOUS
    <3> QED
      BY <1>1, <1>3, <3>1
  <2>2. IsWord(word', row.fixed, {}, row.fixed)
    BY <1>1 DEF IsWord
  <2>3. row.f = "STOREI" => word' = StoredWord(ops, 0)
    BY <1>1, <1>2, RowIs DEF OperandsInv, GoodRow, Fixes, StoredWord
  <2> QED
    BY <1>1, <1>s, <2>1, <2>2, <2>3 DEF WordInv
<1>9. HistoryInv'
  BY <1>1, <1>5, <1>s DEF HistoryInv
<1> QED
  BY <1>1, <1>4, <1>6, <1>7, <1>8, <1>9 DEF IInv

(* A data item is written.                                                 *)
Widths == {8, 16, 32, 64}

LEMMA ItemSizes ==
  ASSUME NEW r, GoodDataRow(r)
  PROVE  RelocBits[r.flag] \in Widths
  BY DEF GoodDataRow, RelocBits, Widths

LEMMA BytesOfItem ==
  ASSUME NEW form, form # "flt", NEW v \in Value, NEW n \in Widths
  PROVE  QuplsData(form, v, n) = {v \cap 0..n - 1}
<1>0. n \in {8, 16, 32, 64}
  BY DEF Widths
<1>1. setval(FALSE, n) = {<<8 * k, 8, 8 * k>> : k \in 0..(n \div 8) - 1}
  BY DEF setval
<1>2. \A k \in 0..(n \div 8) - 1 :
        PutPiece(v, <<8 * k, 8, 8 * k>>) = {b \in 8 * k .. 8 * k + 7 : b \in v}
  <2> SUFFICES ASSUME NEW k \in 0..(n \div 8) - 1
               PROVE  PutPiece(v, <<8 * k, 8, 8 * k>>) = {b \in 8 * k .. 8 * k + 7 : b \in v}
    OBVIOUS
  <2> DEFINE s == 8 * k
  <2>1. s \in Int
    BY <1>0
  <2> HIDE DEF s
  <2>2. PutPiece(v, <<s, 8, s>>) = {b \in s .. s + 8 - 1 : b - s + s \in v}
    BY DEF PutPiece
  <2>3. \A b \in s .. s + 8 - 1 : b - s + s = b
    BY <2>1
  <2>4. s .. s + 8 - 1 = s .. s + 7
    BY <2>1
  <2>5. PutPiece(v, <<s, 8, s>>) = {b \in s .. s + 7 : b \in v}
    BY <2>2, <2>3, <2>4
  <2> QED
    BY <2>5 DEF s
<1>3. ASSUME NEW b \in Put(v, setval(FALSE, n))
      PROVE  b \in v \cap 0..n - 1
  <2>1. PICK k \in 0..(n \div 8) - 1 : b \in PutPiece(v, <<8 * k, 8, 8 * k>>)
    BY <1>1 DEF Put
  <2>2. b \in v /\ b \in 8 * k .. 8 * k + 7
    BY <1>2, <2>1
  <2>3. k \in Nat /\ 8 * k + 7 <= n - 1
    BY <1>0
  <2> QED
    BY <1>0, <2>2, <2>3
<1>4. ASSUME NEW b \in v \cap 0..n - 1
      PROVE  b \in Put(v, setval(FALSE, n))
  <2> DEFINE k == b \div 8
  <2>1. k \in 0..(n \div 8) - 1 /\ b \in 8 * k .. 8 * k + 7
    BY <1>0
  <2> HIDE DEF k
  <2>2. b \in PutPiece(v, <<8 * k, 8, 8 * k>>)
    BY <1>2, <2>1
  <2>3. <<8 * k, 8, 8 * k>> \in setval(FALSE, n)
    BY <1>1, <2>1
  <2> QED
    BY <2>2, <2>3 DEF Put
<1>5. Put(v, setval(FALSE, n)) = v \cap 0..n - 1
  BY <1>3, <1>4
<1>6. QuplsData(form, v, n) = {Put(v, setval(FALSE, n))}
  BY DEF QuplsData
<1> QED
  BY <1>5, <1>6

LEMMA ItemWord ==
  ASSUME NEW form, NEW v \in Value, NEW n \in Widths, NEW w \in QuplsData(form, v, n)
  PROVE  /\ w \subseteq 0..n - 1 /\ w \subseteq 0..63
         /\ form # "flt" => w = v \cap 0..n - 1
<1>0. n \in Int /\ n <= 64
  BY DEF Widths
<1>1. w \subseteq 0..n - 1 /\ (form # "flt" => w = v \cap 0..n - 1)
  <2>1. CASE form = "flt"
    <3>1. w \in {{}, 0..n - 1}
      BY <2>1 DEF QuplsData
    <3> QED
      BY <2>1, <3>1
  <2>2. CASE form # "flt"
    <3>1. QuplsData(form, v, n) = {v \cap 0..n - 1}
      BY <2>2, BytesOfItem
    <3>3. w = v \cap 0..n - 1
      BY <3>1
    <3> QED
      BY <2>2, <3>3
  <2> QED
    BY <2>1, <2>2
<1>2. 0..n - 1 \subseteq 0..63
  BY <1>0
<1> QED
  BY <1>1, <1>2

LEMMA DataStep ==
  ASSUME IInv, EvalData
  PROVE  IInv'
<1>1. PICK op \in Given :
        /\ word' \in QuplsData(op.form, op.v, ItemBits)
        /\ placed' = {[op |-> 0, kind |-> "DATA", v |-> op.v, pieces |-> {<<0, ItemBits, 0>>}]}
        /\ relocs' = {[op |-> 0, at |-> q, type |-> "ABS"] : q \in QuplsDataRelocs(op.form, row.flag)}
        /\ ops' = <<op>>
  BY DEF EvalData
<1>2. /\ More /\ row.f = "DATA" /\ db' = TRUE /\ i' = 1 /\ row' = row /\ pfx' = pfx
      /\ isize' = ItemBits \div 8 /\ sized' = ItemBits \div 8
  BY DEF EvalData
<1>3. OperandsInv /\ DataInv
  BY <1>2 DEF IInv
<1>4. GoodDataRow(row) /\ Len(row.ops) = 1 /\ row.ops[1] = {"DATA"}
  <2>1. GoodDataRow(row)
    BY <1>2, <1>3, RowIs DEF OperandsInv
  <2>2. row.ops = <<{"DATA"}>>
    BY <2>1 DEF GoodDataRow
  <2> QED
    BY <2>1, <2>2
<1>5. ~db /\ i = 0
  BY <1>2, <1>3, <1>4 DEF DataInv, More, OperandsInv
<1>6. op \in OperandType /\ Accepts({"DATA"}, op) /\ op.kind = "DATA" /\ op \in ParsedData
  <2>1. op \in OperandType /\ op.kind = "DATA" /\ op \in ParsedData /\ Accepts(row.ops[i + 1], op)
    BY <1>2, <1>3, <1>5, GivenType
  <2>2. i + 1 = 1
    BY <1>5
  <2> QED
    BY <1>4, <2>1, <2>2
<1>7. op.attr = "NONE" /\ op.v \in Value
  BY <1>6, ParsedDataType DEF OperandType
<1>8. ops'[1] = op /\ Len(ops') = 1 /\ ops' \in Seq(OperandType)
  BY <1>1, <1>6
<1>9. OperandsInv'
  <2>1. Len(ops') = (IF db' THEN Len(row'.ops) ELSE i') /\ i' \in 0..Len(row'.ops)
    BY <1>2, <1>4, <1>8
  <2>2. \A k \in 1..Len(ops') : Accepts(row'.ops[k], ops'[k])
    <3>1. \A k \in 1..Len(ops') : k = 1
      BY <1>8
    <3>2. row'.ops[1] = {"DATA"}
      BY <1>2, <1>4
    <3> QED
      BY <1>6, <1>8, <3>1, <3>2
  <2>3. row' \in mnemonics \cup data_items /\ db' \in BOOLEAN
    BY <1>2, <1>3 DEF OperandsInv
  <2> QED
    BY <1>2, <1>8, <2>1, <2>2, <2>3 DEF OperandsInv
<1>10. DataInv'
  <2>1. ItemBits \in Widths /\ ItemBits' = ItemBits
    BY <1>2, <1>4, ItemSizes DEF ItemBits
  <2>2. word' \subseteq 0..63
    BY <1>1, <1>7, <2>1, ItemWord
  <2>3. pfx' = <<>>
    BY <1>2, <1>3 DEF DataInv
  <2> QED
    BY <1>1, <1>2, <1>6, <1>7, <1>8, <2>1, <2>2, <2>3 DEF DataInv
<1> QED
  BY <1>2, <1>9, <1>10 DEF IInv

LEMMA InitIInv == Init => IInv
<1> SUFFICES ASSUME Init
             PROVE  IInv
  OBVIOUS
<1>1. /\ row \in mnemonics \cup data_items /\ ops = <<>> /\ db = FALSE /\ i = 0 /\ word = row.fixed
      /\ pfx = <<>> /\ isize = 4 /\ sized = 0 /\ placed = {} /\ relocs = {}
  BY DEF Init
<1>2. Len(row.ops) \in Nat /\ row.fixed \subseteq 0..31
  BY <1>1, RowIs
<1>3. OperandsInv
  <2>1. ops \in Seq(OperandType) /\ Len(ops) = 0
    BY <1>1
  <2>2. i \in 0..Len(row.ops) /\ Len(ops) = (IF db THEN Len(row.ops) ELSE i)
    BY <1>1, <1>2, <2>1
  <2>3. \A k \in 1..Len(ops) : Accepts(row.ops[k], ops[k])
    <3>1. 1..Len(ops) = {}
      BY <2>1
    <3> QED
      BY <3>1
  <2> QED
    BY <1>1, <2>1, <2>2, <2>3 DEF OperandsInv
<1>4. word \subseteq 0..63
  <2>1. \A s : s \subseteq 0..31 => s \subseteq 0..63
    OBVIOUS
  <2> QED
    BY <1>1, <1>2, <2>1
<1>5. SizeInv
  BY <1>1, AtStart DEF SizeInv
<1>6. WordInv /\ HistoryInv /\ DataInv
  BY <1>1, <1>4 DEF WordInv, HistoryInv, DataInv
<1> QED
  BY <1>3, <1>5, <1>6 DEF IInv

LEMMA StutterIInv == IInv /\ UNCHANGED vars => IInv'
<1> SUFFICES ASSUME IInv, UNCHANGED vars
             PROVE  IInv'
  OBVIOUS
<1>0. /\ row' = row /\ ops' = ops /\ db' = db /\ i' = i /\ word' = word /\ pfx' = pfx
      /\ isize' = isize /\ sized' = sized /\ placed' = placed /\ relocs' = relocs
  BY DEF vars
<1>1. OperandsInv'
  BY <1>0 DEF IInv, OperandsInv
<1>2. SizeInv => SizeInv'
  BY <1>0 DEF SizeInv
<1>3. WordInv => WordInv'
  BY <1>0 DEF WordInv
<1>4. HistoryInv => HistoryInv'
  BY <1>0 DEF HistoryInv
<1>5. DataInv => DataInv'
  BY <1>0 DEF DataInv, ItemBits
<1> QED
  BY <1>0, <1>1, <1>2, <1>3, <1>4, <1>5 DEF IInv

(* Whatever has been encoded, the instruction is the function of the row   *)
(* and of the operands so far that IInv says it is.                        *)
THEOREM Inductive == Spec => []IInv
<1>1. IInv /\ [Next]_vars => IInv'
  <2> SUFFICES ASSUME IInv, [Next]_vars
               PROVE  IInv'
    OBVIOUS
  <2>1. CASE EncodeRegister
    BY <2>1, RegisterStep
  <2>2. CASE EncodeImmediate
    BY <2>2, ImmediateStep
  <2>3. CASE EncodeIndirect
    BY <2>3, IndirectStep
  <2>4. CASE StartEmitting
    BY <2>4, EmittingStep
  <2>5. CASE EvalData
    BY <2>5, DataStep
  <2>6. CASE UNCHANGED vars
    BY <2>6, StutterIInv
  <2> QED
    BY <2>1, <2>2, <2>3, <2>4, <2>5, <2>6 DEF Next
<1> QED
  BY <1>1, InitIInv, PTL DEF Spec

-----------------------------------------------------------------------------
(* The instruction when it is done.                                        *)
Finished ==
  /\ row.f # "DATA" /\ GoodRow(row) /\ row \in mnemonics
  /\ db /\ i = Len(ops) /\ Len(ops) \in Nat /\ Len(row.ops) = Len(ops)
  /\ \A k \in 1..Len(ops) : ops[k] \in OperandType /\ Accepts(row.ops[k], ops[k])
  /\ pfx = Appends(row, ops, Len(ops)) /\ isize = Returns(row, ops, Len(ops))
  /\ sized = Size(pfx, isize)
  /\ word \subseteq 0..63
  /\ row.f # "STOREI" =>
       /\ IsWord(word, row.fixed, Registers(row, ops, Len(ops)), Upper(row, ops, Len(ops)))
       /\ relocs = Links(row, ops, Len(ops))
  /\ row.f = "STOREI" => word = StoredWord(ops, Len(ops))
  /\ placed = Records(row, ops, Len(ops))

LEMMA DoneFinished ==
  ASSUME IInv, Done, row.f # "DATA"
  PROVE  Finished
<1>1. OperandsInv /\ SizeInv /\ WordInv /\ HistoryInv
  BY DEF IInv
<1>2. db /\ ~(i < Len(row.ops)) /\ row \in mnemonics \cup data_items /\ i \in 0..Len(row.ops)
  BY <1>1 DEF Done, More, OperandsInv
<1>3. Len(row.ops) \in Nat /\ GoodRow(row) /\ row \in mnemonics
  BY <1>2, RowIs
<1>4. i = Len(row.ops) /\ Len(ops) = Len(row.ops)
  BY <1>1, <1>2, <1>3 DEF OperandsInv
<1>5. \A k \in 1..Len(ops) : ops[k] \in OperandType /\ Accepts(row.ops[k], ops[k])
  BY <1>1 DEF OperandsInv
<1>6. pfx = Appends(row, ops, Len(ops)) /\ isize = Returns(row, ops, Len(ops)) /\ sized = Size(pfx, isize)
  BY <1>1, <1>2, <1>4 DEF SizeInv
<1>7. /\ row.f # "STOREI" =>
           /\ IsWord(word, row.fixed, Registers(row, ops, Len(ops)), Upper(row, ops, Len(ops)))
           /\ relocs = Links(row, ops, Len(ops))
      /\ row.f = "STOREI" => word = StoredWord(ops, Len(ops))
      /\ placed = Records(row, ops, Len(ops))
      /\ word \subseteq 0..63
  BY <1>1, <1>2, <1>4 DEF WordInv, HistoryInv
<1> QED
  BY <1>2, <1>3, <1>4, <1>5, <1>6, <1>7 DEF Finished

(* An instruction and its constant are one, two or three words long.       *)
GoodSize(a, s) ==
  /\ s \in {4, 8}
  /\ a = <<>> \/ (Len(a) = 1 /\ s = 4)

LEMMA GoodSizes ==
  ASSUME NEW a, NEW s, GoodSize(a, s)
  PROVE  Len(a) <= 1 /\ Size(a, s) \in {4, 8, 12}
<1>1. CASE a = <<>>
  <2>1. Len(a) = 0
    BY <1>1
  <2> QED
    BY <2>1 DEF GoodSize, Size
<1>2. CASE Len(a) = 1 /\ s = 4
  BY <1>2 DEF Size
<1> QED
  BY <1>1, <1>2 DEF GoodSize

LEMMA SizeRange ==
  ASSUME OperandsInv, NEW j \in 0..Len(ops)
  PROVE  GoodSize(Appends(row, ops, j), Returns(row, ops, j))
<1>0. ops \in Seq(OperandType)
  BY DEF OperandsInv
<1>1. CASE row.f = "STOREI"
  <2>1. Returns(row, ops, j) = 4
    BY <1>1 DEF Returns
  <2>2. Appends(row, ops, j) = <<>> \/ Len(Appends(row, ops, j)) = 1
    BY <1>1, StoreConstantWord DEF Appends
  <2> QED
    BY <2>1, <2>2 DEF GoodSize
<1>2. CASE row.f # "STOREI" /\ ~EndsInNumber(ops, j)
  <2>1. Appends(row, ops, j) = <<>> /\ Returns(row, ops, j) = 4
    BY <1>2, NoneYet
  <2> QED
    BY <2>1 DEF GoodSize
<1>3. CASE row.f # "STOREI" /\ EndsInNumber(ops, j)
  <2>1. j \in 1..Len(ops)
    BY <1>0, <1>3 DEF EndsInNumber
  <2>2. ops[j] \in OperandType
    BY <1>0, <2>1
  <2> DEFINE e == Number(row, ops[j], j - 1)
  <2>3. EffectType(e)
    BY <2>2, NumberType
  <2>4. Appends(row, ops, j) = e.pfx /\ Returns(row, ops, j) = e.size
    BY <1>3 DEF Appends, Returns
  <2> HIDE DEF e
  <2> QED
    BY <2>3, <2>4 DEF GoodSize, EffectType
<1> QED
  BY <1>1, <1>2, <1>3

LEMMA TypesFollow == IInv => TypeOK
<1> SUFFICES ASSUME IInv
             PROVE  TypeOK
  OBVIOUS
<1>1. OperandsInv
  BY DEF IInv
<1>2. /\ row \in mnemonics \cup data_items /\ db \in BOOLEAN /\ i \in 0..Len(row.ops)
      /\ Len(ops) = (IF db THEN Len(row.ops) ELSE i)
      /\ ~db => sized = 0
  BY <1>1 DEF OperandsInv
<1>3. CASE row.f # "DATA"
  <2>1. SizeInv /\ WordInv
    BY <1>3 DEF IInv
  <2>2. Len(row.ops) \in Nat
    BY <1>2, RowIs
  <2>3. i \in 0..Len(ops) /\ Len(ops) \in 0..Len(ops)
    BY <1>2, <2>2
  <2>4. GoodSize(pfx, isize)
    BY <1>1, <2>1, <2>3, SizeRange DEF SizeInv
  <2>5. GoodSize(Appends(row, ops, Len(ops)), Returns(row, ops, Len(ops)))
    BY <1>1, <2>3, SizeRange
  <2>6. db => sized \in {4, 8, 12}
    BY <2>1, <2>5, GoodSizes DEF SizeInv
  <2>7. Len(pfx) <= 1 /\ Size(pfx, isize) \in {4, 8, 12}
    BY <2>4, GoodSizes
  <2>8. sized = 0 <=> ~db
    BY <1>2, <2>6
  <2>9. sized \in {0, 1, 2, 4, 8, 12}
    BY <1>2, <2>6
  <2> QED
    BY <1>2, <1>3, <2>1, <2>7, <2>8, <2>9 DEF TypeOK, WordInv
<1>4. CASE row.f = "DATA"
  <2>1. DataInv
    BY <1>4 DEF IInv
  <2>2. ItemBits \div 8 \in {1, 2, 4, 8}
    <3>1. ItemBits \in Widths
      BY <1>2, <1>4, RowIs, ItemSizes DEF ItemBits
    <3> QED
      BY <3>1 DEF Widths
  <2>3. Len(pfx) = 0
    BY <2>1 DEF DataInv
  <2>4. isize \in {1, 2, 4, 8}
    BY <1>2, <2>1, <2>2 DEF DataInv
  <2>5. Size(pfx, isize) \in {1, 2, 4, 8}
    BY <2>3, <2>4 DEF Size
  <2>6. sized = 0 <=> ~db
    BY <1>2, <2>1, <2>2 DEF DataInv
  <2>7. sized \in {0, 1, 2, 4, 8, 12}
    BY <1>2, <2>1, <2>2 DEF DataInv
  <2>8. Len(pfx) <= 1
    BY <2>3
  <2> QED
    BY <1>2, <1>4, <2>1, <2>5, <2>6, <2>7, <2>8 DEF TypeOK, DataInv
<1> QED
  BY <1>3, <1>4

(* Types; an instruction is one, two or three words long.                  *)
THEOREM TypeCorrect == Spec => []TypeOK
  BY Inductive, TypesFollow, PTL

(* The last operand, when it is a number, is the only one.                 *)
LEMMA LastNumber ==
  ASSUME Finished, row.f # "STOREI", NEW k \in 1..Len(ops), ops[k].kind # "REG"
  PROVE  k = Len(ops) /\ EndsInNumber(ops, Len(ops))
<1>0. Len(ops) \in Nat /\ Len(row.ops) = Len(ops) /\ GoodRow(row) /\ Accepts(row.ops[k], ops[k])
      /\ ops[k] \in OperandType
  BY DEF Finished
<1>1. \A m \in 1..Len(row.ops) - 1 : row.ops[m] = Rg
  BY <1>0 DEF GoodRow, Shape
<1>2. row.ops[k] # Rg
  <2>1. ops[k].kind \in {"REG", "IMM", "REGIND", "DATA"}
    BY <1>0 DEF OperandType
  <2> QED
    BY <1>0, <2>1, Kinds DEF Accepts
<1>3. k = Len(ops)
  BY <1>0, <1>1, <1>2
<1> QED
  BY <1>0, <1>3 DEF EndsInNumber

LEMMA RelocTypesFollow == IInv => RelocTypeAsWritten
<1> SUFFICES ASSUME IInv, Done, row.f # "STOREI", NEW r \in relocs,
                    ops[r.op + 1].kind # "REGIND" \/ ops[r.op + 1].attr = "NONE"
             PROVE  r.type = IF ops[r.op + 1].kind = "REGIND" /\ ops[r.op + 1].reg = sdreg THEN "SD"
                             ELSE get_reloc_type(ops[r.op + 1].attr)
  BY DEF RelocTypeAsWritten
<1>1. CASE row.f # "DATA"
  <2>1. Finished
    BY <1>1, DoneFinished
  <2> DEFINE n == Len(ops)
  <2>2. relocs = Links(row, ops, n) /\ n \in Nat
    BY <2>1 DEF Finished
  <2>3. r = [op |-> n - 1, at |-> RelocPiece(row.f, ops[n].v), type |-> RelocType(ops[n])]
    BY <2>2 DEF Links
  <2>4. r.op + 1 = n /\ r.type = RelocType(ops[n])
    BY <2>2, <2>3
  <2> HIDE DEF n
  <2> QED
    BY <2>4 DEF RelocType
<1>2. CASE row.f = "DATA"
  <2>1. DataInv /\ db
    BY <1>2 DEF IInv, Done
  <2>2. r.op = 0 /\ r.type = "ABS"
    BY <2>1 DEF DataInv
  <2>3. ops[1].attr = "NONE" /\ ops[1].kind = "DATA"
    BY <2>1 DEF DataInv
  <2>4. r.op + 1 = 1
    BY <2>2
  <2>5. get_reloc_type("NONE") = "ABS"
    BY DEF get_reloc_type
  <2> QED
    BY <2>2, <2>3, <2>4, <2>5
<1> QED
  BY <1>1, <1>2

(* The type of a relocation is the one that was written.                   *)
THEOREM RelocTypesAsWritten == Spec => []RelocTypeAsWritten
  BY Inductive, RelocTypesFollow, PTL

-----------------------------------------------------------------------------
(* The bits of the instruction that the coprocessor reads.                 *)
LEMMA BytesAre ==
  ASSUME row.f # "DATA", GoodSize(pfx, isize), word \subseteq 0..63,
         pfx # <<>> => pfx[1] \in Value
  PROVE  /\ \A b \in 0..31 : b \in Bytes <=> b \in word
         /\ isize = 8 => Bytes = word
         /\ isize = 4 /\ pfx = <<>> => Bytes \subseteq 0..31
         /\ OpcodeBytes = isize
         /\ pfx # <<>> => \A b \in 0..63 : b + 32 \in Bytes <=> b \in pfx[1]
<1>1. isize \in {4, 8} /\ OpcodeBytes = isize /\ (pfx # <<>> => isize = 4)
  BY DEF GoodSize, OpcodeBytes
<1>2. CASE pfx = <<>>
  <2>1. Bytes = word \cap 0..8 * isize - 1
    BY <1>1, <1>2 DEF Bytes
  <2>2. CASE isize = 8
    <3>1. 0..8 * isize - 1 = 0..63
      BY <2>2
    <3>2. Bytes = word
      BY <2>1, <3>1
    <3> QED
      BY <1>1, <1>2, <2>2, <3>2
  <2>3. CASE isize = 4
    <3>1. 0..8 * isize - 1 = 0..31
      BY <2>3
    <3>2. Bytes = word \cap 0..31
      BY <2>1, <3>1
    <3>3. Bytes \subseteq 0..31 /\ \A b \in 0..31 : b \in Bytes <=> b \in word
      BY <3>2
    <3> QED
      BY <1>1, <1>2, <2>3, <3>3
  <2> QED
    BY <1>1, <2>2, <2>3
<1>3. CASE pfx # <<>>
  <2> DEFINE p == pfx[1]
             q == {c + 32 : c \in p}
  <2>0. 8 * OpcodeBytes = 32 /\ 8 * OpcodeBytes - 1 = 31
    BY <1>1, <1>3
  <2>a. Bytes = (word \cap 0..8 * OpcodeBytes - 1) \cup {b + 8 * OpcodeBytes : b \in p}
    BY <1>3 DEF Bytes
  <2>2. p \subseteq 0..63
    BY <1>3 DEF Value
  <2> HIDE DEF p
  <2>1. Bytes = (word \cap 0..31) \cup q
    BY <2>0, <2>a
  <2>3. \A b \in 0..31 : b \notin q
    BY <2>2
  <2>4. \A b \in 0..63 : b + 32 \in q <=> b \in p
    BY <2>2
  <2> HIDE DEF q
  <2>5. \A b \in 0..63 : b + 32 \notin 0..31
    OBVIOUS
  <2>6. \A b \in 0..31 : b \in Bytes <=> b \in word
    BY <2>1, <2>3
  <2>7. \A b \in 0..63 : b + 32 \in Bytes <=> b \in pfx[1]
    BY <2>1, <2>4, <2>5 DEF p
  <2>8. isize # 8
    BY <1>1, <1>3
  <2> QED
    BY <1>1, <1>3, <2>6, <2>7, <2>8
<1> QED
  BY <1>2, <1>3

(* The fields of the first word are those of word.                         *)
LEMMA FieldsOfCode ==
  ASSUME NEW w, NEW code, \A b \in 0..31 : b \in code <=> b \in w
  PROVE  /\ opcode(code) = w \cap 0..4
         /\ imm(code) = Extract(w, 17, 15)
         /\ Extract(code, 5, 4) = Extract(w, 5, 4)
<1>1. \A b \in 0..4 : b + 0 \in code <=> b \in w
  OBVIOUS
<1>2. opcode(code) = w \cap 0..4
  BY <1>1 DEF opcode, Extract
<1>3. \A b \in 0..14 : b + 17 \in code <=> b + 17 \in w
  OBVIOUS
<1>4. imm(code) = Extract(w, 17, 15)
  BY <1>3 DEF imm, Extract
<1>5. \A b \in 0..3 : b + 5 \in code <=> b + 5 \in w
  OBVIOUS
<1>6. Extract(code, 5, 4) = Extract(w, 5, 4)
  BY <1>5 DEF Extract
<1> QED
  BY <1>2, <1>4, <1>6

LEMMA OpcodeSets ==
  /\ \A c \in ArithmeticOps : c \subseteq 0..4 /\ c # OPC(6) /\ c # OPC(18)
  /\ OPC(1) \notin ArithmeticOps /\ OPC(18) # OPC(6)
<1>1. \A c \in ArithmeticOps : c \subseteq 0..4
  BY Opcodes DEF ArithmeticOps
<1>2. \A c \in ArithmeticOps : c # OPC(6)
  BY Opcodes DEF ArithmeticOps
<1>3. \A c \in ArithmeticOps : c # OPC(18)
  BY Opcodes DEF ArithmeticOps
<1>4. OPC(1) \notin ArithmeticOps
  BY Opcodes DEF ArithmeticOps
<1>5. OPC(18) # OPC(6)
  BY Opcodes
<1> QED
  BY <1>1, <1>2, <1>3, <1>4, <1>5

(* What is in the field of the immediate.                                  *)
LEMMA UpperImm ==
  ASSUME NEW w, NEW u, w \cap 17..63 = u \cap 17..63
  PROVE  Extract(w, 17, 15) = Extract(u, 17, 15)
<1>1. \A b \in 0..14 : b + 17 \in 17..63
  OBVIOUS
<1>2. \A b \in 0..14 : b + 17 \in w <=> b + 17 \in u
  BY <1>1
<1> QED
  BY <1>2 DEF Extract

LEMMA ImmOf ==
  /\ \A v : Extract(PutPiece(v, Imm15), 17, 15) = Extract(v, 0, 15)
  /\ Extract({31}, 17, 15) = {14}
  /\ \A v : Extract({17, 31} \cup PutPiece(v, <<0, 32, 32>>), 17, 15) = {0, 14}
  /\ Extract({}, 17, 15) = {}
  /\ Extract(17..31, 17, 15) = 0..14
<1>1. \A v : Extract(PutPiece(v, Imm15), 17, 15) = Extract(v, 0, 15)
  <2> SUFFICES ASSUME NEW v
               PROVE  Extract(PutPiece(v, Imm15), 17, 15) = Extract(v, 0, 15)
    OBVIOUS
  <2>1. \A b \in 0..14 : b + 17 \in PutPiece(v, Imm15) <=> b + 0 \in v
    BY DEF PutPiece, Imm15
  <2> QED
    BY <2>1 DEF Extract
<1>2. Extract({31}, 17, 15) = {14}
  BY DEF Extract
<1>3. \A v : Extract({17, 31} \cup PutPiece(v, <<0, 32, 32>>), 17, 15) = {0, 14}
  <2> SUFFICES ASSUME NEW v
               PROVE  Extract({17, 31} \cup PutPiece(v, <<0, 32, 32>>), 17, 15) = {0, 14}
    OBVIOUS
  <2>1. \A b \in 0..14 : b + 17 \notin PutPiece(v, <<0, 32, 32>>)
    BY DEF PutPiece
  <2>2. \A b \in 0..14 : b + 17 \in {17, 31} <=> b \in {0, 14}
    OBVIOUS
  <2>3. \A b \in 0..14 : b + 17 \in {17, 31} \cup PutPiece(v, <<0, 32, 32>>) <=> b \in {0, 14}
    BY <2>1, <2>2
  <2> QED
    BY <2>3 DEF Extract
<1>4. Extract({}, 17, 15) = {}
  BY DEF Extract
<1>5. Extract(17..31, 17, 15) = 0..14
  BY DEF Extract
<1> QED
  BY <1>1, <1>2, <1>3, <1>4, <1>5

(* The parts of the word that no register reaches.                         *)
LEMMA RegistersRange ==
  ASSUME Finished, row.f # "STOREI"
  PROVE  Registers(row, ops, Len(ops)) \subseteq 5..16
<1>1. Len(ops) \in Nat /\ GoodRow(row)
  BY DEF Finished
<1>2. \A k \in 0..Len(ops) - 1 : Put(ops[k + 1].reg, RegisterField(row, ops[k + 1], k)) \subseteq 5..16
  BY <1>1, RegisterFieldType, RegisterRange
<1> QED
  BY <1>2 DEF Registers

LEMMA FixedParts ==
  ASSUME Finished, row.f # "STOREI"
  PROVE  /\ word \cap 0..4 = row.fixed \cap 0..4
         /\ word \cap 17..63 = Upper(row, ops, Len(ops)) \cap 17..63
<1> DEFINE g == Registers(row, ops, Len(ops))
<1>1. g \subseteq 5..16
  BY RegistersRange
<1>2. /\ word \cap 0..16 = (row.fixed \cup g) \cap 0..16
      /\ word \cap 17..63 = Upper(row, ops, Len(ops)) \cap 17..63
  BY DEF Finished, IsWord
<1> HIDE DEF g
<1>3. g \cap 0..4 = {}
  BY <1>1
<1>4. \A s : (s \cap 0..16) \cap 0..4 = s \cap 0..4
  OBVIOUS
<1>5. word \cap 0..4 = (row.fixed \cup g) \cap 0..4
  BY <1>2, <1>4
<1> QED
  BY <1>2, <1>3, <1>5

(* What the appended constant is.                                          *)
LEMMA SizesOfFinished ==
  ASSUME IInv, Finished
  PROVE  GoodSize(pfx, isize) /\ word \subseteq 0..63
<1>1. OperandsInv /\ Len(ops) \in 0..Len(ops)
  BY DEF IInv, Finished
<1> QED
  BY <1>1, SizeRange DEF Finished

LEMMA ImmediateLast ==
  ASSUME Finished, row.f = "RI64"
  PROVE  /\ Len(ops) \in 1..Len(ops) /\ ops[Len(ops)].kind = "IMM" /\ ops[Len(ops)] \in OperandType
         /\ EndsInNumber(ops, Len(ops))
         /\ Number(row, ops[Len(ops)], Len(ops) - 1) = encode_immed_RI64(ops[Len(ops)].v, FALSE)
<1> DEFINE n == Len(ops)
<1>1. n \in Nat /\ Len(row.ops) = n /\ n > 0 /\ row.ops[n] = Im
  BY DEF Finished, GoodRow, Shape
<1>2. n \in 1..n
  BY <1>1
<1>3. ops[n] \in OperandType /\ Accepts(row.ops[n], ops[n])
  BY <1>2 DEF Finished
<1> HIDE DEF n
<1>4. ops[n].kind = "IMM"
  <2>1. ops[n].kind \in {"REG", "IMM", "REGIND", "DATA"}
    BY <1>3 DEF OperandType
  <2> QED
    BY <1>1, <1>3, <2>1, Kinds DEF Accepts
<1>5. EndsInNumber(ops, n)
  BY <1>1, <1>4 DEF EndsInNumber
<1>6. Number(row, ops[n], n - 1) = encode_immed_RI64(ops[n].v, FALSE)
  BY <1>4 DEF Number
<1> QED
  BY <1>2, <1>3, <1>4, <1>5, <1>6 DEF n

(* The three forms of an instruction of RI64.                              *)
LEMMA LongForms ==
  ASSUME Finished, row.f = "RI64"
  PROVE  LET v == ops[Len(ops)].v
             e == Number(row, ops[Len(ops)], Len(ops) - 1)
         IN  /\ v \in Value
             /\ word \cap 0..4 = row.fixed /\ row.fixed \in ArithmeticOps
             /\ ~is_nbit(v, 32) =>
                  pfx = <<v>> /\ isize = 4 /\ word \cap 17..63 = {31} /\ e.pieces = {<<0, 64, 32>>}
             /\ is_nbit(v, 32) /\ is_nbit(v, 14) =>
                  /\ pfx = <<>> /\ isize = 4 /\ word \cap 17..63 = PutPiece(v, Imm15)
                  /\ e.pieces = {Imm15}
             /\ is_nbit(v, 32) /\ ~is_nbit(v, 14) =>
                  /\ pfx = <<>> /\ isize = 8 /\ e.pieces = {<<0, 32, 32>>}
                  /\ word \cap 17..63 = {17, 31} \cup PutPiece(v, <<0, 32, 32>>)
<1> DEFINE n == Len(ops)
           v == ops[n].v
           e == Number(row, ops[n], n - 1)
<1>1. ops[n] \in OperandType /\ EndsInNumber(ops, n) /\ e = encode_immed_RI64(v, FALSE)
  BY ImmediateLast
<1>2. v \in Value
  BY <1>1 DEF OperandType
<1>3. pfx = e.pfx /\ isize = e.size
  BY <1>1 DEF Finished, Appends, Returns
<1>4. word \cap 0..4 = row.fixed \cap 0..4
  BY FixedParts
<1>5. row.fixed \in ArithmeticOps
  BY DEF Finished, GoodRow, Fixes
<1>6. row.fixed \subseteq 0..4
  BY <1>5, OpcodeSets
<1>7. word \cap 17..63 = ((row.fixed \ e.clear) \cup e.set) \cap 17..63
  BY <1>1, FixedParts DEF Upper
<1> HIDE DEF e, v, n
<1>8. (row.fixed \ e.clear) \cap 17..63 = {}
  BY <1>6
<1>9. word \cap 17..63 = e.set \cap 17..63
  BY <1>7, <1>8
<1>a. word \cap 0..4 = row.fixed
  BY <1>4, <1>6
<1>10. CASE ~is_nbit(v, 32)
  <2>1. e = Appended(v)
    BY <1>1, <1>10, RI64Cases
  <2>2. e.set = {31} /\ e.pfx = <<v>> /\ e.size = 4 /\ e.pieces = {<<0, 64, 32>>}
    BY <2>1, AppendedFields
  <2>3. word \cap 17..63 = {31}
    BY <1>9, <2>2
  <2> QED
    BY <1>2, <1>3, <1>5, <1>a, <1>10, <2>2, <2>3 DEF e, v, n
<1>11. CASE is_nbit(v, 32) /\ is_nbit(v, 14)
  <2>1. e = Effect(v, {Imm15})
    BY <1>1, <1>11, RI64Cases
  <2>2. e.set = PutPiece(v, Imm15) /\ e.pfx = <<>> /\ e.size = 4 /\ e.pieces = {Imm15}
    BY <2>1, EffectFields, PutOne
  <2>a. \A s : s \subseteq 17..31 => s \cap 17..63 = s
    BY From17
  <2>3. word \cap 17..63 = PutPiece(v, Imm15)
    BY <1>9, <2>2, <2>a, PieceRange
  <2> QED
    BY <1>2, <1>3, <1>5, <1>a, <1>11, <2>2, <2>3 DEF e, v, n
<1>12. CASE is_nbit(v, 32) /\ ~is_nbit(v, 14)
  <2>1. e = Long(v)
    BY <1>1, <1>12, RI64Cases
  <2>2. /\ e.set = {17, 31} \cup PutPiece(v, <<0, 32, 32>>) /\ e.pfx = <<>> /\ e.size = 8
        /\ e.pieces = {<<0, 32, 32>>}
    BY <2>1, LongFields
  <2>a. \A s : s \subseteq 32..63 => ({17, 31} \cup s) \cap 17..63 = {17, 31} \cup s
    <3> SUFFICES ASSUME NEW s, s \subseteq 32..63
                 PROVE  {17, 31} \cup s \subseteq 17..63
      OBVIOUS
    <3> QED
      OBVIOUS
  <2>3. word \cap 17..63 = {17, 31} \cup PutPiece(v, <<0, 32, 32>>)
    BY <1>9, <2>2, <2>a, PieceRange
  <2> QED
    BY <1>2, <1>3, <1>5, <1>a, <1>12, <2>2, <2>3 DEF e, v, n
<1> QED
  BY <1>10, <1>11, <1>12

(* The forms of STOREI.                                                    *)
LEMMA StoreForms ==
  ASSUME Finished, row.f = "STOREI"
  PROVE  LET v == ops[1].v
         IN  /\ v \in Value /\ Len(ops) = 2 /\ isize = 4
             /\ ops[1].kind = "IMM" /\ ops[2].kind \in {"IMM", "REGIND"}
             /\ word = Stored(v) \cup Second(ops[2])
             /\ is_nbit(v, 4) => pfx = <<>>
             /\ ~is_nbit(v, 4) => pfx = <<v>>
<1> DEFINE v == ops[1].v
<1>1. /\ Len(row.ops) = 2 /\ Len(ops) = 2 /\ GoodRow(row)
      /\ row.ops[1] = Im /\ row.ops[2] \in {Im, Ind}
  BY DEF Finished, GoodRow, Shape
<1>2. /\ ops[1] \in OperandType /\ Accepts(row.ops[1], ops[1])
      /\ ops[2] \in OperandType /\ Accepts(row.ops[2], ops[2])
  BY <1>1 DEF Finished
<1>3. /\ ops[1].kind \in {"REG", "IMM", "REGIND", "DATA"}
      /\ ops[2].kind \in {"REG", "IMM", "REGIND", "DATA"}
      /\ v \in Value
  BY <1>2 DEF OperandType
<1>4. ops[1].kind = "IMM" /\ ops[2].kind \in {"IMM", "REGIND"}
  BY <1>1, <1>2, <1>3, Kinds DEF Accepts
<1>5. isize = 4 /\ pfx = StoredConstant(v).pfx /\ word = StoredWord(ops, 2)
  BY <1>1 DEF Finished, Appends, Returns
<1>6. word = Stored(v) \cup Second(ops[2])
  BY <1>5 DEF StoredWord, Second
<1> HIDE DEF v
<1>7. is_nbit(v, 4) => StoredConstant(v).pfx = <<>>
  BY StoredFields, EffectFields
<1>8. ~is_nbit(v, 4) => StoredConstant(v).pfx = <<v>>
  BY StoredFields
<1> QED
  BY <1>1, <1>3, <1>4, <1>5, <1>6, <1>7, <1>8 DEF v

(* The other formats append nothing.                                       *)
LEMMA OtherNumber ==
  ASSUME NEW r, r.f # "RI64", NEW op, NEW k
  PROVE  \/ Number(r, op, k) = Effect(op.v, {Imm15})
         \/ Number(r, op, k) = Effect(op.v, {})
         \/ r.f = "WAIT" /\ Number(r, op, k) = Effect(op.v, {<<0, 8, 21>>, <<9, 3, 30>>})
<1>1. CASE op.kind = "REGIND"
  BY <1>1 DEF Number, encode_regind, encode_direct, Nowhere
<1>2. CASE op.kind # "REGIND" /\ r.f = "WAIT"
  BY <1>2 DEF Number, encode_immed_WAIT
<1>3. CASE op.kind # "REGIND" /\ r.f # "WAIT"
  BY <1>3 DEF Number
<1> QED
  BY <1>1, <1>2, <1>3

LEMMA OtherSizes ==
  ASSUME Finished, row.f \notin {"RI64", "STOREI"}
  PROVE  pfx = <<>> /\ isize = 4
<1> DEFINE n == Len(ops)
           e == Number(row, ops[n], n - 1)
<1>1. CASE EndsInNumber(ops, n)
  <2>1. pfx = e.pfx /\ isize = e.size
    BY <1>1 DEF Finished, Appends, Returns
  <2>2. \E p : e = Effect(ops[n].v, p)
    BY OtherNumber
  <2>3. e.pfx = <<>> /\ e.size = 4
    BY <2>2, EffectFields
  <2> QED
    BY <2>1, <2>3
<1>2. CASE ~EndsInNumber(ops, n)
  BY <1>2, NoneYet DEF Finished
<1> QED
  BY <1>1, <1>2

(* The record of the last operand.                                         *)
LEMMA RecordOf ==
  ASSUME Finished, NEW k \in 1..Len(ops)
  PROVE  Record(row, ops[k], k - 1) \in placed
<1>1. Len(ops) \in Nat /\ placed = Records(row, ops, Len(ops))
  BY DEF Finished
<1>2. k - 1 \in 0..Len(ops) - 1 /\ (k - 1) + 1 = k
  BY <1>1
<1> QED
  BY <1>1, <1>2 DEF Records

LEMMA RecordPieces ==
  ASSUME NEW r, r.f # "STOREI", NEW op, op.kind # "REG", NEW k
  PROVE  /\ Record(r, op, k).op = k /\ Record(r, op, k).kind = op.kind
         /\ Record(r, op, k).v = op.v /\ Record(r, op, k).pieces = Number(r, op, k).pieces
  BY DEF Record

(* Its number is in the field of the immediate, or nowhere.                *)
LEMMA ImmediateForms ==
  ASSUME Finished, row.f \notin {"RI64", "STOREI", "WAIT"}, EndsInNumber(ops, Len(ops))
  PROVE  LET op == ops[Len(ops)]
             e == Number(row, op, Len(ops) - 1)
         IN  /\ Len(ops) \in 1..Len(ops) /\ op.kind # "REG" /\ op \in OperandType
             /\ \/ e.pieces = {Imm15} /\ word \cap 17..63 = PutPiece(op.v, Imm15)
                \/ e.pieces = {} /\ word \cap 17..63 = {}
<1> DEFINE n == Len(ops)
           op == ops[n]
           e == Number(row, op, n - 1)
<1>1. n \in 1..n /\ op.kind # "REG"
  BY DEF EndsInNumber, Finished
<1>2. Accepts(row.ops[n], op) /\ op \in OperandType /\ Len(row.ops) = n
  BY <1>1 DEF Finished
<1>3. row.f # "R3"
  <2>1. op.kind \in {"REG", "IMM", "REGIND", "DATA"}
    BY <1>2 DEF OperandType
  <2>2. row.ops \in Seq(Takes)
    BY DEF Finished, GoodRow, Shape, Takes
  <2>3. row.ops[n] \in Takes
    BY <1>1, <1>2, <2>2
  <2>4. {"DATA"} \notin Takes
    BY Kinds DEF Takes, Rg, Im, Ind
  <2>5. row.ops[n] \in {Im, Ind}
    BY <1>1, <1>2, <2>1, <2>3, <2>4 DEF Accepts
  <2> QED
    BY <1>1, <1>2, <2>5 DEF Finished, GoodRow, Shape
<1>4. row.fixed \cap 17..63 = {}
  BY <1>3 DEF Finished, GoodRow, Fixes
<1>5. word \cap 17..63 = ((row.fixed \ e.clear) \cup e.set) \cap 17..63
  BY FixedParts DEF Upper
<1>6. e = Effect(op.v, {Imm15}) \/ e = Effect(op.v, {})
  BY OtherNumber
<1>7. CASE e = Effect(op.v, {Imm15})
  <2>1. e.clear = {} /\ e.set = PutPiece(op.v, Imm15) /\ e.pieces = {Imm15}
    BY <1>7, EffectFields, PutOne
  <2>2. \A s : s \subseteq 17..31 => s \cap 17..63 = s
    BY From17
  <2>3. PutPiece(op.v, Imm15) \cap 17..63 = PutPiece(op.v, Imm15)
    BY <2>2, PieceRange
  <2>4. word \cap 17..63 = PutPiece(op.v, Imm15)
    BY <1>4, <1>5, <2>1, <2>3
  <2> QED
    BY <1>1, <1>2, <2>1, <2>4
<1>8. CASE e = Effect(op.v, {})
  <2>1. e.clear = {} /\ e.set = {} /\ e.pieces = {}
    BY <1>8, EffectFields, PutNone
  <2>2. word \cap 17..63 = {}
    BY <1>4, <1>5, <2>1
  <2> QED
    BY <1>1, <1>2, <2>1, <2>2
<1> QED
  BY <1>6, <1>7, <1>8

(* No other instruction announces a longer constant.                       *)
LEMMA NotAnnounced ==
  ASSUME Finished, row.f \notin {"RI64", "STOREI"}, ~Misread, row.fixed \cap 0..4 \in ArithmeticOps
  PROVE  Extract(word, 17, 15) \notin {{14}, {0, 14}}
<1> DEFINE n == Len(ops)
           op == ops[n]
           e == Number(row, op, n - 1)
<1>1. row.f # "WAIT"
  BY OpcodeSets DEF Finished, GoodRow, Fixes
<1>2. CASE ~EndsInNumber(ops, n)
  <2>1. word \cap 17..63 = row.fixed \cap 17..63
    BY <1>2, FixedParts, NoneYet
  <2>2. /\ row.fixed \subseteq 0..31
        /\ row.fixed \cap 17..63 # {} => row.f = "R3" /\ row.fixed \cap 17..63 = 17..31
    BY <1>1 DEF Finished, GoodRow, Fixes
  <2>3. word \cap 17..63 = {} \cap 17..63 \/ word \cap 17..63 = (17..31) \cap 17..63
    BY <2>1, <2>2
  <2>4. Extract(word, 17, 15) = Extract({}, 17, 15) \/ Extract(word, 17, 15) = Extract(17..31, 17, 15)
    BY <2>3, UpperImm
  <2>5. {} \notin {{14}, {0, 14}} /\ 0..14 \notin {{14}, {0, 14}}
    <3>1. 1 \in 0..14 /\ 1 \notin {14} /\ 1 \notin {0, 14}
      OBVIOUS
    <3> QED
      BY <3>1
  <2> QED
    BY <2>4, <2>5, ImmOf
<1>3. CASE EndsInNumber(ops, n)
  <2>1. n \in 1..n /\ op.kind # "REG"
    BY <1>1, <1>3, ImmediateForms
  <2>2. CASE e.pieces = {Imm15} /\ word \cap 17..63 = PutPiece(op.v, Imm15)
    <3>1. word \cap 17..63 = PutPiece(op.v, Imm15) \cap 17..63
      BY <2>2
    <3>2. Extract(word, 17, 15) = Extract(op.v, 0, 15)
      BY <3>1, UpperImm, ImmOf
    <3> DEFINE p == Record(row, op, n - 1)
    <3>3. p \in placed
      BY <2>1, RecordOf
    <3>4. p.v = op.v /\ Imm15 \in p.pieces
      BY <2>1, <2>2, RecordPieces
    <3> HIDE DEF p, op
    <3>5. Extract(op.v, 0, 15) \notin {{14}, {0, 14}}
      BY <3>3, <3>4 DEF Misread
    <3> QED
      BY <3>2, <3>5
  <2>3. CASE word \cap 17..63 = {}
    <3>1. word \cap 17..63 = {} \cap 17..63
      BY <2>3
    <3>2. Extract(word, 17, 15) = {}
      BY <3>1, UpperImm, ImmOf
    <3> QED
      BY <3>2
  <2> QED
    BY <1>1, <1>3, <2>2, <2>3, ImmediateForms
<1> QED
  BY <1>2, <1>3

(* The constant that is appended is the number of an operand.              *)
LEMMA PrefixValue ==
  ASSUME Finished, pfx # <<>>
  PROVE  pfx[1] \in Value
<1>1. CASE row.f = "STOREI"
  <2>1. pfx = <<ops[1].v>> /\ ops[1].v \in Value
    BY <1>1, StoreForms
  <2> QED
    BY <2>1
<1>2. CASE row.f = "RI64"
  <2>1. pfx = <<ops[Len(ops)].v>> /\ ops[Len(ops)].v \in Value
    BY <1>2, LongForms
  <2> QED
    BY <2>1
<1>3. CASE row.f \notin {"RI64", "STOREI"}
  BY <1>3, OtherSizes
<1> QED
  BY <1>1, <1>2, <1>3

(* What the coprocessor reads in the first word.                           *)
LEMMA Reading ==
  ASSUME IInv, Finished
  PROVE  /\ \A b \in 0..31 : b \in Bytes <=> b \in word
         /\ opcode(Bytes) = word \cap 0..4
         /\ imm(Bytes) = Extract(word, 17, 15)
         /\ Extract(Bytes, 5, 4) = Extract(word, 5, 4)
         /\ isize = 8 => Bytes = word
         /\ isize = 4 /\ pfx = <<>> => Bytes \subseteq 0..31
         /\ OpcodeBytes = isize
         /\ pfx # <<>> => \A b \in 0..63 : b + 32 \in Bytes <=> b \in pfx[1]
<1>1. row.f # "DATA" /\ GoodSize(pfx, isize) /\ word \subseteq 0..63
  BY SizesOfFinished DEF Finished
<1>2. pfx # <<>> => pfx[1] \in Value
  BY PrefixValue
<1>3. \A b \in 0..31 : b \in Bytes <=> b \in word
  BY <1>1, <1>2, BytesAre
<1> QED
  BY <1>1, <1>2, <1>3, BytesAre, FieldsOfCode

(* A store of an immediate has the opcode of one of the two forms.         *)
LEMMA StoreOpcodes ==
  ASSUME IInv, Finished, row.f = "STOREI"
  PROVE  opcode(Bytes) \in {OPC(6), OPC(18)}
<1> DEFINE v == ops[1].v
<1>1. word = Stored(v) \cup Second(ops[2])
  BY StoreForms
<1>2. Second(ops[2]) \cap 0..4 = {}
  <2>1. \A s : s \subseteq 9..12 \/ s \subseteq 17..31 => s \cap 0..4 = {}
    OBVIOUS
  <2>2. \A x : PutPiece(x, RS1) \cap 0..4 = {} /\ PutPiece(x, Imm15) \cap 0..4 = {}
    BY <2>1, PieceRange
  <2> QED
    BY <2>2 DEF Second
<1> HIDE DEF v
<1>3. Stored(v) \cap 0..4 \in {OPC(6), OPC(18)}
  <2>1. OPC(18) \cap 0..4 = OPC(18) /\ (OPC(6) \cup {31}) \cap 0..4 = OPC(6)
    BY Opcodes
  <2>2. PutPiece(v, RD) \cap 0..4 = {}
    BY PieceRange, From5
  <2>3. CASE is_nbit(v, 4)
    BY <2>1, <2>2, <2>3 DEF Stored
  <2>4. CASE ~is_nbit(v, 4)
    BY <2>1, <2>4 DEF Stored
  <2> QED
    BY <2>3, <2>4
<1>4. opcode(Bytes) = word \cap 0..4
  BY Reading
<1> QED
  BY <1>1, <1>2, <1>3, <1>4

(* How the word announces its length.                                      *)
LEMMA Announces ==
  ASSUME IInv, Finished, ~Misread
  PROVE  /\ pfx # <<>> => Escaped64(Bytes)
         /\ pfx = <<>> /\ isize = 8 => ~Escaped64(Bytes) /\ Escaped32(Bytes)
         /\ pfx = <<>> /\ isize = 4 => ~Escaped64(Bytes) /\ ~Escaped32(Bytes)
<1>0. {14} # {0, 14}
  OBVIOUS
<1>1. CASE row.f = "STOREI"
  <2> DEFINE v == ops[1].v
  <2>1. /\ isize = 4 /\ word = Stored(v) \cup Second(ops[2])
        /\ is_nbit(v, 4) => pfx = <<>>
        /\ ~is_nbit(v, 4) => pfx = <<v>>
    BY <1>1, StoreForms
  <2> HIDE DEF v
  <2>2. Second(ops[2]) \cap 0..4 = {}
    <3>1. \A s : s \subseteq 9..12 \/ s \subseteq 17..31 => s \cap 0..4 = {}
      OBVIOUS
    <3>2. \A x : PutPiece(x, RS1) \cap 0..4 = {} /\ PutPiece(x, Imm15) \cap 0..4 = {}
      BY <3>1, PieceRange
    <3> QED
      BY <3>2 DEF Second
  <2>3. CASE is_nbit(v, 4)
    <3>1. Stored(v) = OPC(18) \cup PutPiece(v, RD)
      BY <2>3 DEF Stored
    <3>2. OPC(18) \cap 0..4 = OPC(18)
      BY Opcodes
    <3>3. PutPiece(v, RD) \cap 0..4 = {}
      BY PieceRange, From5
    <3>4. word \cap 0..4 = OPC(18)
      BY <2>1, <2>2, <3>1, <3>2, <3>3
    <3>5. opcode(Bytes) = OPC(18)
      BY <3>4, Reading
    <3>6. pfx = <<>>
      BY <2>1, <2>3
    <3> QED
      BY <2>1, <3>5, <3>6, OpcodeSets DEF Escaped64, Escaped32
  <2>4. CASE ~is_nbit(v, 4)
    <3>1. Stored(v) = OPC(6) \cup {31}
      BY <2>4 DEF Stored
    <3>2. (OPC(6) \cup {31}) \cap 0..4 = OPC(6)
      BY Opcodes
    <3>4. word \cap 0..4 = OPC(6)
      BY <2>1, <2>2, <3>1, <3>2
    <3>5. opcode(Bytes) = OPC(6)
      BY <3>4, Reading
    <3>6. pfx # <<>>
      BY <2>1, <2>4
    <3> QED
      BY <3>5, <3>6 DEF Escaped64
  <2> QED
    BY <2>3, <2>4
<1>2. CASE row.f = "RI64"
  <2> DEFINE v == ops[Len(ops)].v
             e == Number(row, ops[Len(ops)], Len(ops) - 1)
  <2>1. opcode(Bytes) = row.fixed /\ row.fixed \in ArithmeticOps /\ row.fixed # OPC(6)
    BY <1>2, LongForms, Reading, OpcodeSets
  <2>2. CASE ~is_nbit(v, 32)
    <3>1. pfx = <<v>> /\ isize = 4 /\ word \cap 17..63 = {31}
      BY <1>2, <2>2, LongForms
    <3>2. word \cap 17..63 = {31} \cap 17..63
      BY <3>1
    <3>3. imm(Bytes) = {14}
      BY <3>2, UpperImm, ImmOf, Reading
    <3>4. pfx # <<>>
      BY <3>1
    <3> QED
      BY <2>1, <3>3, <3>4 DEF Escaped64
  <2>3. CASE is_nbit(v, 32) /\ is_nbit(v, 14)
    <3>1. pfx = <<>> /\ isize = 4 /\ word \cap 17..63 = PutPiece(v, Imm15) /\ e.pieces = {Imm15}
      BY <1>2, <2>3, LongForms
    <3>2. word \cap 17..63 = PutPiece(v, Imm15) \cap 17..63
      BY <3>1
    <3>3. imm(Bytes) = Extract(v, 0, 15)
      BY <3>2, UpperImm, ImmOf, Reading
    <3>4. Extract(v, 0, 15) \notin {{14}, {0, 14}}
      <4> DEFINE p == Record(row, ops[Len(ops)], Len(ops) - 1)
      <4>1. p \in placed
        BY <1>2, ImmediateLast, RecordOf
      <4>2. p.v = v /\ Imm15 \in p.pieces
        BY <1>2, <3>1, ImmediateLast, RecordPieces
      <4>3. row.fixed \cap 0..4 = row.fixed
        BY <2>1, OpcodeSets
      <4> HIDE DEF p, v
      <4> QED
        BY <2>1, <4>1, <4>2, <4>3 DEF Misread
    <3> QED
      BY <2>1, <3>1, <3>3, <3>4 DEF Escaped64, Escaped32
  <2>4. CASE is_nbit(v, 32) /\ ~is_nbit(v, 14)
    <3>1. pfx = <<>> /\ isize = 8 /\ word \cap 17..63 = {17, 31} \cup PutPiece(v, <<0, 32, 32>>)
      BY <1>2, <2>4, LongForms
    <3>2. word \cap 17..63 = ({17, 31} \cup PutPiece(v, <<0, 32, 32>>)) \cap 17..63
      BY <3>1
    <3> DEFINE u == {17, 31} \cup PutPiece(v, <<0, 32, 32>>)
    <3>4. Extract(u, 17, 15) = {0, 14}
      BY ImmOf
    <3> HIDE DEF u
    <3>5. Extract(word, 17, 15) = Extract(u, 17, 15)
      BY <3>2, UpperImm DEF u
    <3>3. imm(Bytes) = {0, 14}
      BY <3>4, <3>5, Reading
    <3> QED
      BY <1>0, <2>1, <3>1, <3>3 DEF Escaped64, Escaped32
  <2> QED
    BY <2>2, <2>3, <2>4
<1>3. CASE row.f \notin {"RI64", "STOREI"}
  <2>1. pfx = <<>> /\ isize = 4
    BY <1>3, OtherSizes
  <2>2. opcode(Bytes) = row.fixed \cap 0..4
    BY <1>3, FixedParts, Reading
  <2>3. row.fixed \cap 0..4 # OPC(6)
    BY DEF Finished, GoodRow, Fixes
  <2>4. opcode(Bytes) \in ArithmeticOps => imm(Bytes) \notin {{14}, {0, 14}}
    BY <1>3, <2>2, NotAnnounced, Reading
  <2> QED
    BY <2>1, <2>2, <2>3, <2>4 DEF Escaped64, Escaped32
<1> QED
  BY <1>1, <1>2, <1>3

(* No multiplication has a longer constant.                                *)
LEMMA MultipliesOnce ==
  ASSUME IInv, Finished, ~Misread
  PROVE  MulAgain(Bytes) = 0
<1>1. CASE row.f = "RI64"
  <2>1. row.fixed # OPC(11)
    BY <1>1 DEF Finished, GoodRow, Fixes
  <2>2. opcode(Bytes) = row.fixed
    BY <1>1, LongForms, Reading
  <2> QED
    BY <2>1, <2>2 DEF MulAgain
<1>2. CASE row.f = "STOREI"
  <2>2. opcode(Bytes) = OPC(18) \/ opcode(Bytes) = OPC(6)
    BY <1>2, StoreOpcodes
  <2>3. OPC(18) # OPC(11) /\ OPC(6) # OPC(11)
    BY Opcodes
  <2> QED
    BY <2>2, <2>3 DEF MulAgain
<1>3. CASE row.f \notin {"RI64", "STOREI"}
  <2>1. opcode(Bytes) = row.fixed \cap 0..4
    BY <1>3, FixedParts, Reading
  <2>2. opcode(Bytes) \in ArithmeticOps => imm(Bytes) \notin {{14}, {0, 14}}
    BY <1>3, <2>1, NotAnnounced, Reading
  <2>3. OPC(11) \in ArithmeticOps
    BY DEF ArithmeticOps
  <2> QED
    BY <2>2, <2>3 DEF MulAgain
<1> QED
  BY <1>1, <1>2, <1>3

LEMMA StepFollows == IInv => ProcessorStaysInStep
<1> SUFFICES ASSUME IInv, Done, ~Misread, row.f # "DATA"
             PROVE  /\ sized = Size(pfx, isize)
                    /\ sized = OpcodeBytes + 8 * Len(pfx)
                    /\ sized = Consumed(Bytes)
  BY DEF ProcessorStaysInStep
<1>1. Finished
  BY DoneFinished
<1>2. sized = Size(pfx, isize) /\ GoodSize(pfx, isize)
  BY <1>1, SizesOfFinished DEF Finished
<1>3. OpcodeBytes = isize
  BY <1>1, Reading
<1>4. sized = Consumed(Bytes)
  <2>1. CASE pfx = <<>> /\ isize = 8
    <3>1. Len(pfx) = 0
      BY <2>1
    <3>2. Consumed(Bytes) = 8
      BY <1>1, MultipliesOnce, <2>1, Announces DEF Consumed
    <3> QED
      BY <1>2, <2>1, <3>1, <3>2 DEF Size
  <2>2. CASE pfx = <<>> /\ isize = 4
    <3>1. Len(pfx) = 0
      BY <2>2
    <3>2. Consumed(Bytes) = 4
      BY <1>1, MultipliesOnce, <2>2, Announces DEF Consumed
    <3> QED
      BY <1>2, <2>2, <3>1, <3>2 DEF Size
  <2>3. CASE pfx # <<>>
    <3>1. Len(pfx) = 1 /\ isize = 4
      BY <1>2, <2>3 DEF GoodSize
    <3>2. Consumed(Bytes) = 12
      BY <1>1, MultipliesOnce, <2>3, Announces DEF Consumed
    <3> QED
      BY <1>2, <3>1, <3>2 DEF Size
  <2> QED
    BY <1>2, <2>1, <2>2, <2>3 DEF GoodSize
<1> QED
  BY <1>2, <1>3, <1>4 DEF Size

(* A constant is never executed.                                           *)
THEOREM StaysInStep == Spec => []ProcessorStaysInStep
  BY Inductive, StepFollows, PTL

-----------------------------------------------------------------------------
(* What the coprocessor computes with.                                     *)
LEMMA PlacedIs ==
  ASSUME Finished, NEW p \in placed
  PROVE  \E k \in 1..Len(ops) : p = Record(row, ops[k], k - 1)
<1>1. Len(ops) \in Nat /\ placed = Records(row, ops, Len(ops))
  BY DEF Finished
<1>2. PICK j \in 0..Len(ops) - 1 : p = Record(row, ops[j + 1], j)
  BY <1>1 DEF Records
<1>3. j + 1 \in 1..Len(ops) /\ (j + 1) - 1 = j
  BY <1>1
<1> QED
  BY <1>2, <1>3

LEMMA RecordKind ==
  ASSUME NEW r, NEW op, NEW k
  PROVE  /\ Record(r, op, k).op = k
         /\ Record(r, op, k).kind = op.kind
         /\ op.kind = "REG" => Record(r, op, k).v = op.reg /\ Record(r, op, k).pieces = encode_reg(r, k)
         /\ op.kind # "REG" => Record(r, op, k).v = op.v
  BY DEF Record

(* The constant behind an instruction.                                     *)
LEMMA AppendedReads ==
  ASSUME IInv, Finished, NEW v \in Value, pfx = <<v>>
  PROVE  Extract(Bytes, 32, 64) = v
<1>1. pfx # <<>> /\ pfx[1] = v
  OBVIOUS
<1>2. \A b \in 0..63 : b + 32 \in Bytes <=> b \in v
  BY <1>1, Reading
<1>3. v \subseteq 0..63
  BY DEF Value
<1>4. Extract(Bytes, 32, 64) = {b \in 0..63 : b + 32 \in Bytes}
  BY DEF Extract
<1> QED
  BY <1>2, <1>3, <1>4

(* A field of a number that fits is the number again.                      *)
LEMMA FieldExtends ==
  ASSUME NEW v \in Value, NEW n \in 1..64, FitsSigned(v, n)
  PROVE  SignExtended(Extract(v, 0, n), n) = v
<1>1. v = (v \cap Low(n)) \cup (IF n - 1 \in v THEN n - 1 .. 63 ELSE {})
  BY SignedRangeIsExact DEF Value
<1>2. Extract(v, 0, n) = v \cap Low(n)
  <2>1. \A b \in 0..n - 1 : b + 0 = b
    OBVIOUS
  <2> QED
    BY <2>1 DEF Extract, Low
<1>3. n - 1 \in v \cap Low(n) <=> n - 1 \in v
  BY DEF Low
<1>4. n - 1 \in v => (v \cap Low(n)) \cup n - 1 .. 63 = (v \cap Low(n)) \cup n .. 63
  BY DEF Low
<1>5. SignExtended(v \cap Low(n), n) = v
  <2>1. CASE n - 1 \in v
    <3>1. SignExtended(v \cap Low(n), n) = (v \cap Low(n)) \cup n .. 63
      BY <1>3, <2>1 DEF SignExtended
    <3> QED
      BY <1>1, <1>4, <2>1, <3>1
  <2>2. CASE n - 1 \notin v
    <3>1. SignExtended(v \cap Low(n), n) = (v \cap Low(n)) \cup {}
      BY <1>3, <2>2 DEF SignExtended
    <3>2. v = (v \cap Low(n)) \cup {}
      BY <1>1, <2>2
    <3> QED
      BY <3>1, <3>2
  <2> QED
    BY <2>1, <2>2
<1> QED
  BY <1>2, <1>5

LEMMA LongConstant ==
  ASSUME IInv, Finished, row.f = "RI64", ~Misread, ~SignLost(ops[Len(ops)].v)
  PROVE  Constant(Bytes) = ops[Len(ops)].v
<1> DEFINE v == ops[Len(ops)].v
<1>1. /\ v \in Value /\ word \cap 0..4 = row.fixed /\ row.fixed \in ArithmeticOps
      /\ ~is_nbit(v, 32) => pfx = <<v>>
      /\ is_nbit(v, 32) /\ is_nbit(v, 14) =>
           pfx = <<>> /\ isize = 4 /\ word \cap 17..63 = PutPiece(v, Imm15)
      /\ is_nbit(v, 32) /\ ~is_nbit(v, 14) =>
           /\ pfx = <<>> /\ isize = 8
           /\ word \cap 17..63 = {17, 31} \cup PutPiece(v, <<0, 32, 32>>)
  BY LongForms
<1>2. is_nbit(v, 32) => FitsSigned(v, 32)
  BY DEF SignLost
<1> HIDE DEF v
<1>3. CASE ~is_nbit(v, 32)
  <2>0. pfx = <<v>>
    BY <1>1, <1>3
  <2>1. pfx = <<v>> /\ pfx # <<>>
    BY <2>0
  <2>2. Extract(Bytes, 32, 64) = v
    BY <1>1, <2>1, AppendedReads
  <2>3. Escaped64(Bytes)
    BY <2>1, Announces
  <2> QED
    BY <2>2, <2>3 DEF Constant, v
<1>4. CASE is_nbit(v, 32) /\ is_nbit(v, 14)
  <2>1. ~Escaped64(Bytes) /\ ~Escaped32(Bytes)
    BY <1>1, <1>4, Announces
  <2>2. opcode(Bytes) # OPC(18)
    BY <1>1, Reading, OpcodeSets
  <2>3. imm(Bytes) = Extract(v, 0, 15)
    <3>1. word \cap 17..63 = PutPiece(v, Imm15) \cap 17..63
      BY <1>1, <1>4
    <3> QED
      BY <3>1, UpperImm, ImmOf, Reading
  <2>4. FitsSigned(v, 15) /\ 15 \in 1..64
    BY <1>4 DEF is_nbit
  <2>5. SignExtended(Extract(v, 0, 15), 15) = v
    BY <1>1, <2>4, FieldExtends
  <2> QED
    BY <2>1, <2>2, <2>3, <2>5 DEF Constant, v
<1>5. CASE is_nbit(v, 32) /\ ~is_nbit(v, 14)
  <2>1. ~Escaped64(Bytes) /\ Escaped32(Bytes)
    BY <1>1, <1>5, Announces
  <2>2. Bytes = word
    BY <1>1, <1>5, Reading
  <2>3. Extract(Bytes, 32, 32) = Extract(v, 0, 32)
    <3> DEFINE u == PutPiece(v, <<0, 32, 32>>)
    <3>1. word \cap 17..63 = {17, 31} \cup u
      BY <1>1, <1>5
    <3>2. \A b \in 0..31 : b + 32 \in u <=> b + 0 \in v
      BY DEF PutPiece
    <3> HIDE DEF u
    <3>3. \A b \in 0..31 : b + 32 \in 17..63 /\ b + 32 \notin {17, 31}
      OBVIOUS
    <3>4. \A b \in 0..31 : b + 32 \in word <=> b + 0 \in v
      BY <3>1, <3>2, <3>3
    <3>5. Extract(word, 32, 32) = {b \in 0..31 : b + 32 \in word}
      BY DEF Extract
    <3>6. Extract(v, 0, 32) = {b \in 0..31 : b + 0 \in v}
      BY DEF Extract
    <3> QED
      BY <2>2, <3>4, <3>5, <3>6
  <2>4. SignExtended(Extract(v, 0, 32), 32) = v
    BY <1>1, <1>2, <1>5, FieldExtends
  <2> QED
    BY <2>1, <2>3, <2>4 DEF Constant, v
<1> QED
  BY <1>3, <1>4, <1>5

(* The stored constant of four bits, and of 64.                            *)
LEMMA StoredReads ==
  ASSUME Finished, row.f = "STOREI", is_nbit(ops[1].v, 4)
  PROVE  Extract(word, 5, 4) = Extract(ops[1].v, 0, 4)
<1> DEFINE v == ops[1].v
           s == Second(ops[2])
<1>1. word = Stored(v) \cup s
  BY StoreForms
<1>2. Stored(v) = OPC(18) \cup PutPiece(v, RD) /\ OPC(18) = {1, 4}
  BY StoredBits DEF Stored
<1>3. \A b \in s : b \notin 5..8
  <2>1. \A t : t \subseteq 9..12 \/ t \subseteq 17..31 => \A b \in t : b \notin 5..8
    OBVIOUS
  <2>2. \A x : (\A b \in PutPiece(x, RS1) : b \notin 5..8) /\ (\A b \in PutPiece(x, Imm15) : b \notin 5..8)
    BY <2>1, PieceRange
  <2> QED
    BY <2>2 DEF Second
<1>4. \A b \in 0..3 : b + 5 \in PutPiece(v, RD) <=> b + 0 \in v
  BY DEF PutPiece, RD
<1> HIDE DEF v, s
<1>5. \A b \in 0..3 : b + 5 \in 5..8 /\ b + 5 \notin {1, 4}
  OBVIOUS
<1>6. \A b \in 0..3 : b + 5 \in word <=> b + 0 \in v
  BY <1>1, <1>2, <1>3, <1>4, <1>5
<1>7. Extract(word, 5, 4) = Extract(v, 0, 4)
  BY <1>6 DEF Extract
<1> QED
  BY <1>7 DEF v

LEMMA StoredOpcode ==
  ASSUME Finished, row.f = "STOREI", is_nbit(ops[1].v, 4)
  PROVE  word \cap 0..4 = OPC(18)
<1> DEFINE v == ops[1].v
           s == Second(ops[2])
<1>1. word = Stored(v) \cup s
  BY StoreForms
<1>2. Stored(v) = OPC(18) \cup PutPiece(v, RD) /\ OPC(18) = {1, 4}
  BY StoredBits DEF Stored
<1>3. s \cap 0..4 = {}
  <2>1. \A t : t \subseteq 9..12 \/ t \subseteq 17..31 => t \cap 0..4 = {}
    OBVIOUS
  <2>2. \A x : PutPiece(x, RS1) \cap 0..4 = {} /\ PutPiece(x, Imm15) \cap 0..4 = {}
    BY <2>1, PieceRange
  <2> QED
    BY <2>2 DEF Second
<1>4. PutPiece(v, RD) \cap 0..4 = {}
  BY PieceRange, From5
<1> HIDE DEF v, s
<1> QED
  BY <1>1, <1>2, <1>3, <1>4

LEMMA StoreConstant ==
  ASSUME IInv, Finished, row.f = "STOREI", ~Misread, ~SignLost(ops[1].v)
  PROVE  Constant(Bytes) = ops[1].v
<1> DEFINE v == ops[1].v
<1>1. v \in Value /\ isize = 4 /\ (is_nbit(v, 4) => pfx = <<>>) /\ (~is_nbit(v, 4) => pfx = <<v>>)
  BY StoreForms
<1>2. is_nbit(v, 4) => ~Negative(v)
  BY DEF SignLost
<1>3. is_nbit(v, 4) => Extract(word, 5, 4) = Extract(v, 0, 4) /\ word \cap 0..4 = OPC(18)
  BY StoredReads, StoredOpcode
<1> HIDE DEF v
<1>4. CASE is_nbit(v, 4)
  <2>1. ~Escaped64(Bytes) /\ ~Escaped32(Bytes)
    BY <1>1, <1>4, Announces
  <2>2. opcode(Bytes) = OPC(18)
    BY <1>3, <1>4, Reading
  <2>3. Constant(Bytes) = Extract(v, 0, 4)
    BY <1>3, <1>4, <2>1, <2>2, Reading DEF Constant
  <2>4. v \subseteq 0..3
    BY <1>2, <1>4 DEF is_nbit, FitsSigned
  <2>5. Extract(v, 0, 4) = v
    <3>1. Extract(v, 0, 4) = {b \in 0..3 : b + 0 \in v}
      BY DEF Extract
    <3>2. \A b \in 0..3 : b + 0 = b
      OBVIOUS
    <3> QED
      BY <2>4, <3>1, <3>2
  <2> QED
    BY <2>3, <2>5 DEF v
<1>5. CASE ~is_nbit(v, 4)
  <2>0. pfx = <<v>>
    BY <1>1, <1>5
  <2>1. pfx = <<v>> /\ pfx # <<>>
    BY <2>0
  <2>2. Extract(Bytes, 32, 64) = v
    BY <1>1, <2>1, AppendedReads
  <2>3. Escaped64(Bytes)
    BY <2>1, Announces
  <2> QED
    BY <2>2, <2>3 DEF Constant, v
<1> QED
  BY <1>4, <1>5

LEMMA ConstantFollows == IInv => HardwareFindsConstant
<1> SUFFICES ASSUME IInv, Done, row.f \in {"RI64", "STOREI"}, ~Misread, NEW p \in placed,
                    p.kind = "IMM", row.f = "STOREI" => p.op = 0, ~SignLost(p.v)
             PROVE  Constant(Bytes) = p.v
  BY DEF HardwareFindsConstant
<1>1. Finished
  BY DoneFinished
<1>2. PICK k \in 1..Len(ops) : p = Record(row, ops[k], k - 1)
  BY <1>1, PlacedIs
<1>3. p.op = k - 1 /\ ops[k].kind = "IMM" /\ p.v = ops[k].v
  BY <1>2, RecordKind
<1>4. CASE row.f = "RI64"
  <2>1. k = Len(ops)
    BY <1>1, <1>3, <1>4, LastNumber
  <2> QED
    BY <1>1, <1>3, <1>4, <2>1, LongConstant
<1>5. CASE row.f = "STOREI"
  <2>1. k = 1
    BY <1>1, <1>3, <1>5 DEF Finished
  <2> QED
    BY <1>1, <1>3, <1>5, <2>1, StoreConstant
<1> QED
  BY <1>4, <1>5

(* The coprocessor computes with the number in the source.                 *)
THEOREM FindsConstant == Spec => []HardwareFindsConstant
  BY Inductive, ConstantFollows, PTL

-----------------------------------------------------------------------------
(* What the linker puts into the instruction.                              *)
LEMMA OneLink ==
  ASSUME NEW x, NEW a, NEW t, relocs = {[op |-> x, at |-> a, type |-> t]}, NEW v
  PROVE  Linked(v) = (Bytes \ (a[3]..a[3] + a[2] - 1)) \cup PutPiece(v, a)
<1>1. {r.at : r \in relocs} = {a}
  OBVIOUS
<1>2. Span({a}) = a[3]..a[3] + a[2] - 1
  BY DEF Span
<1>3. Put(v, {a}) = PutPiece(v, a)
  BY PutOne
<1> QED
  BY <1>1, <1>2, <1>3 DEF Linked

(* The bits of a piece of the code are those of a number.                  *)
Holds(code, v, p) == \A b \in SpanOf(p) : b \in code <=> b \in PutPiece(v, p)

(* A number that is there already is put there again.                      *)
LEMMA PutAgain ==
  ASSUME NEW code, NEW v, NEW p, Holds(code, v, p)
  PROVE  (code \ (p[3]..p[3] + p[2] - 1)) \cup PutPiece(v, p) = code
<1>1. PutPiece(v, p) \subseteq SpanOf(p)
  BY DEF PutPiece, SpanOf
<1>2. (code \ SpanOf(p)) \cup PutPiece(v, p) = code
  BY <1>1 DEF Holds
<1> QED
  BY <1>2 DEF SpanOf

LEMMA Spans ==
  /\ SpanOf(RD) = 5..8 /\ SpanOf(RS1) = 9..12 /\ SpanOf(RS2) = 13..16 /\ SpanOf(Imm15) = 17..31
  /\ SpanOf(<<0, 32, 32>>) = 32..63 /\ SpanOf(<<0, 64, 32>>) = 32..95
<1>1. SpanOf(RD) = 5..8
  BY DEF SpanOf, RD
<1>2. SpanOf(RS1) = 9..12
  BY DEF SpanOf, RS1
<1>3. SpanOf(RS2) = 13..16
  BY DEF SpanOf, RS2
<1>4. SpanOf(Imm15) = 17..31
  BY DEF SpanOf, Imm15
<1>5. SpanOf(<<0, 32, 32>>) = 32..63
  BY DEF SpanOf
<1>6. SpanOf(<<0, 64, 32>>) = 32..95
  BY DEF SpanOf
<1> QED
  BY <1>1, <1>2, <1>3, <1>4, <1>5, <1>6

(* An immediate in the first word, and a constant behind it.               *)
LEMMA ImmediateHeld ==
  ASSUME IInv, Finished, NEW v, word \cap 17..63 = PutPiece(v, Imm15)
  PROVE  Holds(Bytes, v, Imm15)
<1> DEFINE p == PutPiece(v, Imm15)
<1>1. \A b \in 17..31 : b \in 0..31 /\ b \in 17..63
  OBVIOUS
<1>2. \A b \in 0..31 : b \in Bytes <=> b \in word
  BY Reading
<1>3. word \cap 17..63 = p
  OBVIOUS
<1> HIDE DEF p
<1>4. \A b \in 17..31 : b \in Bytes <=> b \in p
  BY <1>1, <1>2, <1>3
<1> QED
  BY <1>4, Spans DEF Holds, p

LEMMA AppendedHeld ==
  ASSUME IInv, Finished, NEW v, pfx = <<v>>
  PROVE  Holds(Bytes, v, <<0, 64, 32>>)
<1> DEFINE p == PutPiece(v, <<0, 64, 32>>)
<1>1. \A b \in 0..63 : b + 32 \in Bytes <=> b \in v
  <2>1. pfx # <<>> /\ pfx[1] = v
    OBVIOUS
  <2> QED
    BY <2>1, Reading
<1>2. p = {b \in 32..95 : b - 32 + 0 \in v}
  BY DEF PutPiece
<1> HIDE DEF p
<1>3. \A b \in 32..95 : b - 32 \in 0..63 /\ (b - 32) + 32 = b /\ b - 32 + 0 = b - 32
  OBVIOUS
<1>4. \A b \in 32..95 : b \in Bytes <=> b \in p
  BY <1>1, <1>2, <1>3
<1> QED
  BY <1>4, Spans DEF Holds, p

(* The number of RI64 is where its relocation is.                          *)
LEMMA LongHolds ==
  ASSUME IInv, Finished, row.f = "RI64"
  PROVE  LET v == ops[Len(ops)].v
             a == RelocPiece("RI64", v)
         IN  /\ Number(row, ops[Len(ops)], Len(ops) - 1).pieces = {a}
             /\ a \in {Imm15, <<0, 32, 32>>, <<0, 64, 32>>}
             /\ Holds(Bytes, v, a)
<1> DEFINE n == Len(ops)
           v == ops[n].v
           a == RelocPiece("RI64", v)
           e == Number(row, ops[n], n - 1)
<1>1. /\ ~is_nbit(v, 32) => pfx = <<v>> /\ e.pieces = {<<0, 64, 32>>}
      /\ is_nbit(v, 32) /\ is_nbit(v, 14) =>
           word \cap 17..63 = PutPiece(v, Imm15) /\ e.pieces = {Imm15}
      /\ is_nbit(v, 32) /\ ~is_nbit(v, 14) =>
           /\ isize = 8 /\ e.pieces = {<<0, 32, 32>>}
           /\ word \cap 17..63 = {17, 31} \cup PutPiece(v, <<0, 32, 32>>)
  BY LongForms
<1>2. is_nbit(v, 14) => is_nbit(v, 32)
  <2>1. \A s : 14..63 \subseteq s => 32..63 \subseteq s
    OBVIOUS
  <2>2. \A s : s \subseteq 0..13 => s \subseteq 0..31
    OBVIOUS
  <2>3. \A s : FitsSigned(s, 15) => FitsSigned(s, 33)
    <3>1. 15 - 1 = 14 /\ 15 - 2 = 13 /\ 33 - 1 = 32 /\ 33 - 2 = 31
      OBVIOUS
    <3> QED
      BY <2>1, <2>2, <3>1 DEF FitsSigned
  <2>4. 14 + 1 = 15 /\ 32 + 1 = 33
    OBVIOUS
  <2> QED
    BY <2>3, <2>4 DEF is_nbit
<1> HIDE DEF v, e, n
<1>3. CASE is_nbit(v, 14)
  <2>1. a = Imm15
    BY <1>3 DEF RelocPiece
  <2>2. Holds(Bytes, v, Imm15)
    BY <1>1, <1>2, <1>3, ImmediateHeld
  <2> QED
    BY <1>1, <1>2, <1>3, <2>1, <2>2 DEF v, e, n
<1>4. CASE is_nbit(v, 32) /\ ~is_nbit(v, 14)
  <2>1. a = <<0, 32, 32>>
    BY <1>4 DEF RelocPiece
  <2> DEFINE p == PutPiece(v, <<0, 32, 32>>)
  <2>2. word \cap 17..63 = {17, 31} \cup p /\ Bytes = word
    BY <1>1, <1>4, Reading
  <2> HIDE DEF p
  <2>3. \A b \in 32..63 : b \notin {17, 31} /\ b \in 17..63
    OBVIOUS
  <2>4. \A b \in 32..63 : b \in Bytes <=> b \in p
    BY <2>2, <2>3
  <2>5. Holds(Bytes, v, <<0, 32, 32>>)
    BY <2>4, Spans DEF Holds, p
  <2> QED
    BY <1>1, <1>4, <2>1, <2>5 DEF v, e, n
<1>5. CASE ~is_nbit(v, 32)
  <2>1. a = <<0, 64, 32>>
    BY <1>2, <1>5 DEF RelocPiece
  <2>2. Holds(Bytes, v, <<0, 64, 32>>)
    BY <1>1, <1>5, AppendedHeld
  <2> QED
    BY <1>1, <1>5, <2>1, <2>2 DEF v, e, n
<1> QED
  BY <1>3, <1>4, <1>5, <1>2

LEMMA LongLinked ==
  ASSUME IInv, Finished, row.f = "RI64", ops[Len(ops)].form # "num"
  PROVE  Linked(ops[Len(ops)].v) = Bytes
<1> DEFINE n == Len(ops)
           v == ops[n].v
           a == RelocPiece("RI64", v)
<1>1. relocs = {[op |-> n - 1, at |-> a, type |-> RelocType(ops[n])]}
  BY ImmediateLast DEF Finished, Links
<1>2. Linked(v) = (Bytes \ (a[3]..a[3] + a[2] - 1)) \cup PutPiece(v, a)
  BY <1>1, OneLink
<1>3. Holds(Bytes, v, a)
  BY LongHolds
<1> HIDE DEF v, a
<1>4. Linked(v) = Bytes
  BY <1>2, <1>3, PutAgain
<1> QED
  BY <1>4 DEF v

(* A jump: the linker puts the address without its last two bits.          *)
LEMMA JumpReads ==
  ASSUME NEW v, v \subseteq 2..15, NEW code, NEW p, p = PutPiece(v, <<2, 15, 17>>)
  PROVE  JumpTarget((code \ 17..31) \cup p) = v
<1> DEFINE c == (code \ 17..31) \cup p
           m == imm(c)
<1>1. \A b \in 17..31 : b \in p <=> b - 17 + 2 \in v
  BY DEF PutPiece
<1>2. \A b \in 17..31 : b \in c <=> b - 17 + 2 \in v
  BY <1>1
<1> HIDE DEF c
<1>3. m = {b \in 0..14 : b + 17 \in c}
  BY DEF imm, Extract
<1>4. \A b \in 0..14 : b + 17 \in 17..31 /\ (b + 17) - 17 + 2 = b + 2
  OBVIOUS
<1>5. \A b : b \in m <=> b \in 0..14 /\ b + 2 \in v
  BY <1>2, <1>3, <1>4
<1>6. 14 \notin m
  BY <1>5
<1> HIDE DEF m
<1>7. SignExtended(m, 15) = m
  BY <1>6 DEF SignExtended
<1>8. Shl(m, 2) = v
  <2>1. \A b \in 2..63 : b - 2 \in m <=> b \in v
    BY <1>5
  <2>2. \A b \in v : b \in 2..63
    OBVIOUS
  <2>3. Shl(m, 2) = {b \in 2..63 : b - 2 \in m}
    BY DEF Shl
  <2> QED
    BY <2>1, <2>2, <2>3
<1>9. JumpTarget(c) = v
  BY <1>7, <1>8 DEF JumpTarget, m
<1> QED
  BY <1>9 DEF c

LEMMA DataReads ==
  ASSUME IInv, Done, row.f = "DATA"
  PROVE  /\ ItemBits \in Widths /\ Bytes = word /\ word \subseteq 0..ItemBits - 1
         /\ Len(ops) = 1 /\ ops[1] \in OperandType
         /\ ops[1].form # "flt" => word = ops[1].v \cap 0..ItemBits - 1
<1>1. DataInv /\ OperandsInv /\ db
  BY DEF IInv, Done
<1>2. ItemBits \in Widths
  BY <1>1, RowIs, ItemSizes DEF ItemBits, OperandsInv
<1>3. Len(ops) = 1
  <2>1. row.ops = <<{"DATA"}>>
    BY <1>1, RowIs DEF OperandsInv, GoodDataRow
  <2> QED
    BY <1>1, <2>1 DEF OperandsInv
<1>4. ops[1] \in OperandType
  BY <1>1, <1>3 DEF OperandsInv
<1>5. ops[1].v \in Value
  BY <1>4 DEF OperandType
<1>6. /\ word \subseteq 0..ItemBits - 1
      /\ ops[1].form # "flt" => word = ops[1].v \cap 0..ItemBits - 1
  <2>1. word \in QuplsData(ops[1].form, ops[1].v, ItemBits)
    BY <1>1 DEF DataInv
  <2> QED
    BY <1>2, <1>5, <2>1, ItemWord
<1>7. 8 * (ItemBits \div 8) = ItemBits
  BY <1>2 DEF Widths
<1>8. pfx = <<>> /\ OpcodeBytes = ItemBits \div 8
  BY <1>1 DEF DataInv, OpcodeBytes
<1>9. Bytes = word \cap 0..ItemBits - 1
  BY <1>7, <1>8 DEF Bytes
<1> QED
  BY <1>2, <1>3, <1>4, <1>6, <1>9

LEMMA LinksFollow == IInv => LinkedOperandArrives
<1> SUFFICES ASSUME IInv, Done, NEW k \in DOMAIN ops,
                    ops[k].kind \in {"IMM", "DATA"}, ops[k].form \notin {"num", "flt"}
             PROVE  LET v == ops[k].v
                    IN  /\ row.f = "RI64" /\ ~Misread /\ ~SignLost(v) => Constant(Linked(v)) = v
                        /\ row.f = "DIRECT" /\ row.flag \in {"JUMP", "BRANCH"} /\ v \subseteq 2..15
                             => JumpTarget(Linked(v)) = v
                        /\ row.f = "DATA" => Linked(v) = v \cap 0..ItemBits-1
  BY DEF LinkedOperandArrives
<1> DEFINE v == ops[k].v
<1>1. k \in 1..Len(ops)
  BY DEF IInv, OperandsInv
<1>2. ASSUME row.f # "DATA", row.f # "STOREI"
      PROVE  Finished /\ k = Len(ops) /\ EndsInNumber(ops, Len(ops))
  BY <1>1, <1>2, DoneFinished, LastNumber
<1>3. ASSUME row.f = "RI64", ~Misread, ~SignLost(v)
      PROVE  Constant(Linked(v)) = v
  BY <1>2, <1>3, LongLinked, LongConstant
<1>4. ASSUME row.f = "DIRECT", v \subseteq 2..15
      PROVE  JumpTarget(Linked(v)) = v
  <2>1. Finished /\ k = Len(ops) /\ EndsInNumber(ops, Len(ops))
    BY <1>2, <1>4
  <2> DEFINE a == <<2, 15, 17>>
             p == PutPiece(v, a)
  <2>2. RelocPiece(row.f, v) = a
    BY <1>4 DEF RelocPiece
  <2>3. relocs = {[op |-> k - 1, at |-> a, type |-> RelocType(ops[k])]}
    BY <1>4, <2>1, <2>2 DEF Finished, Links
  <2>4. Linked(v) = (Bytes \ (a[3]..a[3] + a[2] - 1)) \cup p
    BY <2>3, OneLink
  <2>5. a[3]..a[3] + a[2] - 1 = 17..31
    OBVIOUS
  <2>6. Linked(v) = (Bytes \ 17..31) \cup p
    BY <2>4, <2>5
  <2> QED
    BY <1>4, <2>6, JumpReads
<1>5. ASSUME row.f = "DATA"
      PROVE  Linked(v) = v \cap 0..ItemBits - 1
  <2>1. /\ ItemBits \in Widths /\ Bytes = word /\ word \subseteq 0..ItemBits - 1 /\ Len(ops) = 1
    BY <1>5, DataReads
  <2>2. k = 1 /\ DataInv /\ db
    BY <1>1, <1>5, <2>1 DEF IInv, Done
  <2> DEFINE a == <<0, ItemBits, 0>>
             n == ItemBits
  <2>3. QuplsDataRelocs(ops[1].form, row.flag) = {a}
    BY <2>2 DEF QuplsDataRelocs, ItemBits
  <2>4. relocs = {[op |-> 0, at |-> a, type |-> "ABS"]}
    BY <2>2, <2>3 DEF DataInv
  <2>5. Linked(v) = (Bytes \ (a[3]..a[3] + a[2] - 1)) \cup PutPiece(v, a)
    BY <2>4, OneLink
  <2>6. n \in Nat
    BY <2>1 DEF Widths
  <2>7. Bytes \subseteq 0..n - 1
    BY <2>1
  <2> HIDE DEF n
  <2>8. 0..0 + n - 1 = 0..n - 1 /\ \A b \in 0..n - 1 : b - 0 + 0 = b
    BY <2>6
  <2>9. PutPiece(v, <<0, n, 0>>) = {b \in 0..0 + n - 1 : b - 0 + 0 \in v}
    BY DEF PutPiece
  <2>10. PutPiece(v, <<0, n, 0>>) = v \cap 0..n - 1
    BY <2>8, <2>9
  <2>11. Bytes \ (0..0 + n - 1) = {}
    BY <2>7, <2>8
  <2>12. Linked(v) = {} \cup (v \cap 0..n - 1)
    BY <2>5, <2>10, <2>11 DEF n
  <2> QED
    BY <2>12 DEF n
<1> QED
  BY <1>3, <1>4, <1>5

(* What the linker has put in is what the program meant.                   *)
THEOREM LinkedArrives == Spec => []LinkedOperandArrives
  BY Inductive, LinksFollow, PTL

-----------------------------------------------------------------------------
(* What can be read back.                                                  *)
LEMMA ReadPiece ==
  ASSUME NEW w, NEW v, NEW n \in Nat, NEW at \in Nat, NEW p, p = <<0, n, at>>, Holds(w, v, p)
  PROVE  Get(w, {p}) = v \cap Carried({p})
<1>1. Get(w, {p}) = {b \in 0..0 + n - 1 : b - 0 + at \in w}
  BY DEF Get
<1>2. Carried({p}) = 0..0 + n - 1
  BY DEF Carried
<1>3. \A c \in at..at + n - 1 : c \in w <=> c - at + 0 \in v
  BY DEF Holds, SpanOf, PutPiece
<1>4. \A b \in 0..0 + n - 1 : b - 0 + at \in at..at + n - 1 /\ (b - 0 + at) - at + 0 = b
  OBVIOUS
<1>5. \A b \in 0..0 + n - 1 : b - 0 + at \in w <=> b \in v
  BY <1>3, <1>4
<1> QED
  BY <1>1, <1>2, <1>5

ReadFields == {RD, RS1, RS2, Imm15, <<0, 32, 32>>, <<0, 64, 32>>}

LEMMA ReadField ==
  ASSUME NEW w, NEW v, NEW p \in ReadFields, Holds(w, v, p)
  PROVE  Get(w, {p}) = v \cap Carried({p})
<1>1. \E n \in Nat, at \in Nat : p = <<0, n, at>>
  <2>1. CASE p = RD
    BY <2>1 DEF RD
  <2>2. CASE p = RS1
    BY <2>2 DEF RS1
  <2>3. CASE p = RS2
    BY <2>3 DEF RS2
  <2>4. CASE p = Imm15
    BY <2>4 DEF Imm15
  <2>5. CASE p = <<0, 32, 32>>
    BY <2>5
  <2>6. CASE p = <<0, 64, 32>>
    BY <2>6
  <2> QED
    BY <2>1, <2>2, <2>3, <2>4, <2>5, <2>6 DEF ReadFields
<1> QED
  BY <1>1, ReadPiece

LEMMA ReadNone == \A w, v : Get(w, {}) = v \cap Carried({})
  BY DEF Get, Carried

(* Operands go into different fields.                                      *)
LEMMA FieldsDiffer == RD # RS1 /\ RD # RS2 /\ RS1 # RS2
<1>1. RD[3] = 5 /\ RS1[3] = 9 /\ RS2[3] = 13
  BY DEF RD, RS1, RS2
<1> QED
  BY <1>1

LEMMA NthApart ==
  ASSUME NEW k \in Nat, NEW m \in Nat, k # m, NEW a, NEW b, a # b
  PROVE  /\ Nth(<<a>>, k) \cap Nth(<<a>>, m) = {}
         /\ Nth(<<a, b>>, k) \cap Nth(<<a, b>>, m) = {}
<1>1. Nth(<<a>>, k) = (IF k = 0 THEN {a} ELSE {}) /\ Nth(<<a>>, m) = (IF m = 0 THEN {a} ELSE {})
  BY Nth1, Zenon
<1>2. /\ Nth(<<a, b>>, k) = (IF k = 0 THEN {a} ELSE IF k = 1 THEN {b} ELSE {})
      /\ Nth(<<a, b>>, m) = (IF m = 0 THEN {a} ELSE IF m = 1 THEN {b} ELSE {})
  BY Nth2, Zenon
<1>3. Nth(<<a>>, k) \cap Nth(<<a>>, m) = {}
  BY <1>1
<1>4. Nth(<<a, b>>, k) \cap Nth(<<a, b>>, m) = {}
  BY <1>2
<1> QED
  BY <1>3, <1>4

LEMMA NthApart3 ==
  ASSUME NEW k \in Nat, NEW m \in Nat, k # m
  PROVE  Nth(<<RD, RS1, RS2>>, k) \cap Nth(<<RD, RS1, RS2>>, m) = {}
<1>1. /\ Nth(<<RD, RS1, RS2>>, k) =
           (IF k = 0 THEN {RD} ELSE IF k = 1 THEN {RS1} ELSE IF k = 2 THEN {RS2} ELSE {})
      /\ Nth(<<RD, RS1, RS2>>, m) =
           (IF m = 0 THEN {RD} ELSE IF m = 1 THEN {RS1} ELSE IF m = 2 THEN {RS2} ELSE {})
  BY Nth3, Zenon
<1> QED
  BY <1>1, FieldsDiffer

LEMMA EncodedApart ==
  ASSUME NEW r, r.f \in {"RI64", "R3", "RI", "DIRECT", "BITS16"}, NEW k \in Nat, NEW m \in Nat,
         k # m
  PROVE  encode_reg(r, k) \cap encode_reg(r, m) = {}
<1>1. CASE r.f \in {"R3", "RI", "RI64"}
  <2>1. encode_reg(r, k) = Nth(<<RD, RS1, RS2>>, k) /\ encode_reg(r, m) = Nth(<<RD, RS1, RS2>>, m)
    BY <1>1, FieldTable
  <2> QED
    BY <2>1, NthApart3
<1>2. CASE r.f = "DIRECT"
  <2>1. CASE r.flag = "STORE"
    <3>1. encode_reg(r, k) = Nth(<<RS2, RS1>>, k) /\ encode_reg(r, m) = Nth(<<RS2, RS1>>, m)
      BY <1>2, <2>1, FieldTable
    <3> QED
      BY <3>1, NthApart, FieldsDiffer
  <2>2. CASE r.flag = "BRANCH"
    <3>1. encode_reg(r, k) = Nth(<<RS1, RS2>>, k) /\ encode_reg(r, m) = Nth(<<RS1, RS2>>, m)
      BY <1>2, <2>2, FieldTable
    <3> QED
      BY <3>1, NthApart, FieldsDiffer
  <2>3. CASE r.flag = "JUMP"
    <3>1. encode_reg(r, k) = Nth(<<RS1>>, k) /\ encode_reg(r, m) = Nth(<<RS1>>, m)
      BY <1>2, <2>3, FieldTable
    <3> QED
      BY <3>1, NthApart, FieldsDiffer
  <2>4. CASE r.flag \notin {"STORE", "BRANCH", "JUMP"}
    <3>1. encode_reg(r, k) = Nth(<<RD>>, k) /\ encode_reg(r, m) = Nth(<<RD>>, m)
      BY <1>2, <2>4, FieldTable
    <3> QED
      BY <3>1, NthApart, FieldsDiffer
  <2> QED
    BY <2>1, <2>2, <2>3, <2>4
<1>3. CASE r.f = "BITS16"
  BY <1>3, FieldTable
<1> QED
  BY <1>1, <1>2, <1>3

(* An indirect operand comes first or behind one register.                 *)
LEMMA IndirectApart ==
  ASSUME Finished, row.f = "REGIND", Len(ops) = 2
  PROVE  RegisterField(row, ops[1], 0) \cap RegisterField(row, ops[2], 1) = {}
<1>1. Len(row.ops) = 2 /\ GoodRow(row)
  BY DEF Finished
<1>2. row.ops[1] = Rg /\ row.flag # "JUMP"
  BY <1>1 DEF GoodRow, Shape
<1>3. /\ ops[1] \in OperandType /\ Accepts(row.ops[1], ops[1])
      /\ ops[2] \in OperandType
  BY <1>1 DEF Finished
<1>4. ops[1].kind = "REG"
  <2>1. ops[1].kind \in {"REG", "IMM", "REGIND", "DATA"}
    BY <1>3 DEF OperandType
  <2> QED
    BY <1>2, <1>3, <2>1, Kinds DEF Accepts
<1>5. RegisterField(row, ops[1], 0) \subseteq {RD, RS2}
  <2>1. RegisterField(row, ops[1], 0) = encode_reg(row, 0)
    BY <1>4 DEF RegisterField
  <2>2. CASE row.flag = "STORE"
    <3>1. encode_reg(row, 0) = Nth(<<RS2, RS1, RS2>>, 0)
      BY <2>2, FieldTable
    <3>2. \A a, b, c : Nth(<<a, b, c>>, 0) = {a}
      BY DEF Nth
    <3>3. Nth(<<RS2, RS1, RS2>>, 0) = {RS2}
      BY <3>2, Zenon
    <3> QED
      BY <2>1, <3>1, <3>3
  <2>3. CASE row.flag # "STORE"
    <3>1. encode_reg(row, 0) = Nth(<<RD, RS1, RS2>>, 0)
      BY <1>2, <2>3, FieldTable
    <3>2. \A a, b, c : Nth(<<a, b, c>>, 0) = {a}
      BY DEF Nth
    <3>3. Nth(<<RD, RS1, RS2>>, 0) = {RD}
      BY <3>2, Zenon
    <3> QED
      BY <2>1, <3>1, <3>3
  <2> QED
    BY <2>2, <2>3
<1>6. RegisterField(row, ops[2], 1) \subseteq {RS1}
  <2>1. \A a, b, c : Nth(<<a, b, c>>, 1) = {b}
    BY DEF Nth
  <2>2. encode_reg(row, 1) = {RS1}
    <3>1. encode_reg(row, 1) = Nth(<<RS2, RS1, RS2>>, 1) \/ encode_reg(row, 1) = Nth(<<RD, RS1, RS2>>, 1)
      BY <1>2, FieldTable
    <3>2. Nth(<<RS2, RS1, RS2>>, 1) = {RS1} /\ Nth(<<RD, RS1, RS2>>, 1) = {RS1}
      BY <2>1, Zenon
    <3> QED
      BY <3>1, <3>2
  <2>3. BaseField(row, 1) = {RS1}
    BY DEF BaseField
  <2> QED
    BY <2>2, <2>3 DEF RegisterField
<1> QED
  BY <1>5, <1>6, FieldsDiffer

LEMMA OperandsApart ==
  ASSUME Finished, row.f \notin {"STOREI", "WAIT"}, NEW k \in 0..Len(ops) - 1,
         NEW m \in 0..Len(ops) - 1,
         k # m
  PROVE  RegisterField(row, ops[k + 1], k) \cap RegisterField(row, ops[m + 1], m) = {}
<1>1. Len(ops) \in Nat /\ GoodRow(row) /\ Len(row.ops) = Len(ops) /\ k \in Nat /\ m \in Nat
  BY DEF Finished
<1>2. CASE row.f = "REGIND"
  <2>1. Len(ops) <= 2
    BY <1>1, <1>2 DEF GoodRow, Shape
  <2>2. Len(ops) = 2 /\ ((k = 0 /\ m = 1) \/ (k = 1 /\ m = 0))
    <3> DEFINE n == Len(ops)
    <3>1. n \in Nat /\ k \in 0..n - 1 /\ m \in 0..n - 1 /\ k # m /\ n <= 2
      BY <1>1, <2>1
    <3> HIDE DEF n
    <3>2. n = 2
      BY <3>1
    <3>3. (k = 0 /\ m = 1) \/ (k = 1 /\ m = 0)
      BY <3>1, <3>2
    <3> QED
      BY <3>2, <3>3 DEF n
  <2>3. 0 + 1 = 1 /\ 1 + 1 = 2
    OBVIOUS
  <2>4. RegisterField(row, ops[0 + 1], 0) \cap RegisterField(row, ops[1 + 1], 1) = {}
    BY <1>2, <2>2, <2>3, IndirectApart
  <2> QED
    BY <2>2, <2>4
<1>3. CASE row.f # "REGIND"
  <2>1. row.f \in {"RI64", "R3", "RI", "DIRECT", "BITS16"}
    BY <1>1, <1>3 DEF GoodRow, Shape
  <2>2. ASSUME NEW j \in 0..Len(ops) - 1
        PROVE  RegisterField(row, ops[j + 1], j) \subseteq encode_reg(row, j)
    <3>1. j + 1 \in 1..Len(ops)
      BY <1>1
    <3>2. ops[j + 1] \in OperandType /\ Accepts(row.ops[j + 1], ops[j + 1])
      BY <3>1 DEF Finished
    <3>3. ops[j + 1].kind # "REGIND"
      BY <1>1, <2>1, <3>1, <3>2 DEF Accepts, GoodRow, Shape
    <3> QED
      BY <3>3 DEF RegisterField
  <2>3. encode_reg(row, k) \cap encode_reg(row, m) = {}
    BY <1>1, <2>1, EncodedApart
  <2> QED
    BY <2>2, <2>3
<1> QED
  BY <1>2, <1>3

(* The row fixes no bit of the field of a register.                        *)
LEMMA FieldNotFixed ==
  ASSUME Finished, row.f \notin {"STOREI", "WAIT"}, ~BitMap, NEW k \in 1..Len(ops),
         ops[k].kind = "REG",
         NEW p \in encode_reg(row, k - 1)
  PROVE  SpanOf(p) \cap row.fixed = {} /\ p \in {RD, RS1, RS2}
<1>1. Len(ops) \in Nat /\ GoodRow(row) /\ Len(row.ops) = Len(ops) /\ k - 1 \in Nat
  BY DEF Finished
<1>2. p \in {RD, RS1, RS2}
  <2>1. encode_reg(row, k - 1) \in FieldSets
    BY <1>1, EncodeReg
  <2> QED
    BY <2>1 DEF FieldSets
<1>3. /\ row.fixed \cap 9..16 = {}
      /\ row.fixed \cap 5..8 # {} =>
           row.fixed \cap 0..4 = OPC(7) \/ row.flag \in {"JUMP", "BRANCH"}
             \/ (Len(row.ops) = 1 /\ row.ops[1] = Im)
  BY <1>1 DEF GoodRow, Fixes
<1>4. CASE p = RS1
  <2>1. \A s : s \cap 9..16 = {} => 9..12 \cap s = {}
    OBVIOUS
  <2> QED
    BY <1>2, <1>3, <1>4, <2>1, Spans
<1>5. CASE p = RS2
  <2>1. \A s : s \cap 9..16 = {} => 13..16 \cap s = {}
    OBVIOUS
  <2> QED
    BY <1>2, <1>3, <1>5, <2>1, Spans
<1>6. CASE p = RD
  <2>1. row.fixed \cap 0..4 # OPC(7)
    BY DEF BitMap
  <2>2. ~(Len(row.ops) = 1 /\ row.ops[1] = Im)
    <3>1. Accepts(row.ops[k], ops[k])
      BY DEF Finished
    <3>2. row.ops[k] # Im
      BY <3>1, Kinds DEF Accepts
    <3>3. Len(row.ops) = 1 => k = 1
      BY <1>1
    <3> QED
      BY <3>2, <3>3
  <2>3. row.flag \notin {"JUMP", "BRANCH"}
    <3>1. ASSUME row.f = "DIRECT", row.flag = "BRANCH"
          PROVE  FALSE
      <4>1. encode_reg(row, k - 1) = Nth(<<RS1, RS2>>, k - 1)
        BY <3>1, FieldTable
      <4>2. Nth(<<RS1, RS2>>, k - 1) = IF k - 1 = 0 THEN {RS1} ELSE IF k - 1 = 1 THEN {RS2} ELSE {}
        BY <1>1, Nth2, Zenon
      <4> QED
        BY <1>6, <4>1, <4>2, FieldsDiffer
    <3>2. ASSUME row.f = "DIRECT", row.flag = "JUMP"
          PROVE  FALSE
      <4>1. encode_reg(row, k - 1) = Nth(<<RS1>>, k - 1)
        BY <3>2, FieldTable
      <4>2. Nth(<<RS1>>, k - 1) = IF k - 1 = 0 THEN {RS1} ELSE {}
        BY <1>1, Nth1, Zenon
      <4> QED
        BY <1>6, <4>1, <4>2, FieldsDiffer
    <3>3. ASSUME row.f = "REGIND", row.flag = "JUMP"
          PROVE  FALSE
      <4>1. Len(row.ops) = 1 /\ row.ops[1] = Ind
        BY <1>1, <3>3 DEF GoodRow, Shape
      <4>2. k = 1 /\ Accepts(Ind, ops[k])
        BY <1>1, <4>1 DEF Finished
      <4> QED
        BY <4>2, Kinds DEF Accepts
    <3>4. row.flag \in {"JUMP", "BRANCH"} => row.f \in {"DIRECT", "REGIND"}
      BY <1>1 DEF GoodRow, Shape
    <3>5. row.flag = "BRANCH" => row.f = "DIRECT"
      BY <1>1 DEF GoodRow, Shape
    <3> QED
      BY <3>1, <3>2, <3>3, <3>4, <3>5
  <2>4. row.fixed \cap 5..8 = {}
    BY <1>3, <2>1, <2>2, <2>3
  <2> QED
    BY <1>2, <1>6, <2>4, Spans
<1> QED
  BY <1>2, <1>4, <1>5, <1>6

(* A register is in its field, and nothing else is.                        *)
LEMMA FieldSpansApart ==
  ASSUME NEW p \in {RD, RS1, RS2}, NEW q \in {RD, RS1, RS2}, p # q, NEW v
  PROVE  \A b \in SpanOf(p) : b \in 0..16 /\ b \notin PutPiece(v, q)
<1>1. PutPiece(v, q) \subseteq SpanOf(q)
  BY DEF PutPiece, SpanOf
<1>2. \A b \in SpanOf(p) : b \in 0..16 /\ b \notin SpanOf(q)
  <2>1. \A b \in 5..8 : b \in 0..16 /\ b \notin 9..12 /\ b \notin 13..16
    OBVIOUS
  <2>2. \A b \in 9..12 : b \in 0..16 /\ b \notin 5..8 /\ b \notin 13..16
    OBVIOUS
  <2>3. \A b \in 13..16 : b \in 0..16 /\ b \notin 5..8 /\ b \notin 9..12
    OBVIOUS
  <2>4. CASE p = RD
    BY <2>1, <2>4, Spans
  <2>5. CASE p = RS1
    BY <2>2, <2>5, Spans
  <2>6. CASE p = RS2
    BY <2>3, <2>6, Spans
  <2> QED
    BY <2>4, <2>5, <2>6
<1> QED
  BY <1>1, <1>2

LEMMA RegisterHeld ==
  ASSUME IInv, Finished, row.f \notin {"STOREI", "WAIT"}, ~BitMap, NEW k \in 1..Len(ops),
         ops[k].kind = "REG", NEW p \in encode_reg(row, k - 1)
  PROVE  Holds(Bytes, ops[k].reg, p)
<1> DEFINE g == Registers(row, ops, Len(ops))
           put == PutPiece(ops[k].reg, p)
<1>1. Len(ops) \in Nat /\ k - 1 \in 0..Len(ops) - 1 /\ (k - 1) + 1 = k /\ GoodRow(row)
  BY DEF Finished
<1>2. SpanOf(p) \cap row.fixed = {} /\ p \in {RD, RS1, RS2}
  BY FieldNotFixed
<1>3. RegisterField(row, ops[k], k - 1) = encode_reg(row, k - 1)
  BY DEF RegisterField
<1>4. encode_reg(row, k - 1) = {p}
  <2>1. encode_reg(row, k - 1) \in FieldSets
    BY <1>1, EncodeReg
  <2> QED
    BY <2>1 DEF FieldSets
<1>5. put \subseteq g
  <2>1. Put(ops[k].reg, {p}) = put
    BY PutOne
  <2>2. Put(ops[(k - 1) + 1].reg, RegisterField(row, ops[(k - 1) + 1], k - 1)) = put
    BY <1>1, <1>3, <1>4, <2>1
  <2> HIDE DEF put
  <2> QED
    BY <1>1, <2>2 DEF Registers
<1>6. ASSUME NEW b \in SpanOf(p), b \in g
      PROVE  b \in put
  <2>1. PICK m \in 0..Len(ops) - 1 : b \in Put(ops[m + 1].reg, RegisterField(row, ops[m + 1], m))
    BY <1>6 DEF Registers
  <2>2. PICK q \in RegisterField(row, ops[m + 1], m) : b \in PutPiece(ops[m + 1].reg, q)
    BY <2>1 DEF Put
  <2>3. q \in {RD, RS1, RS2}
    <3>1. RegisterField(row, ops[m + 1], m) \in FieldSets
      BY <1>1, RegisterFieldType
    <3> QED
      BY <2>2, <3>1 DEF FieldSets
  <2>4. q = p
    BY <1>2, <2>2, <2>3, FieldSpansApart
  <2>5. m = k - 1
    <3>1. p \in RegisterField(row, ops[(k - 1) + 1], k - 1)
      BY <1>1, <1>3
    <3>2. p \in RegisterField(row, ops[m + 1], m)
      BY <2>2, <2>4
    <3> QED
      BY <1>1, <3>1, <3>2, OperandsApart
  <2> QED
    BY <1>1, <2>2, <2>4, <2>5
<1>7. \A b \in SpanOf(p) : b \in 0..16 /\ b \in 0..31
  <2>1. \A b : b \in 5..8 \/ b \in 9..12 \/ b \in 13..16 => b \in 0..16 /\ b \in 0..31
    OBVIOUS
  <2> QED
    BY <1>2, <2>1, Spans
<1>8. word \cap 0..16 = (row.fixed \cup g) \cap 0..16
  BY DEF Finished, IsWord
<1>9. \A b \in 0..31 : b \in Bytes <=> b \in word
  BY Reading
<1> HIDE DEF g, put
<1>10. \A b \in SpanOf(p) : b \in Bytes <=> b \in put
  BY <1>2, <1>5, <1>6, <1>7, <1>8, <1>9
<1> QED
  BY <1>10 DEF Holds, put

(* What is read back of a register, ...                                    *)
LEMMA RegisterRead ==
  ASSUME IInv, Finished, row.f \notin {"STOREI", "WAIT"}, ~BitMap, NEW k \in 1..Len(ops),
         ops[k].kind = "REG"
  PROVE  /\ Get(Bytes, encode_reg(row, k - 1)) = ops[k].reg \cap Carried(encode_reg(row, k - 1))
         /\ Span(encode_reg(row, k - 1)) \cap row.fixed = {}
<1>1. k - 1 \in Nat /\ GoodRow(row)
  BY DEF Finished
<1>2. CASE encode_reg(row, k - 1) = {}
  <2>1. Span({}) = {}
    BY DEF Span
  <2> QED
    BY <1>2, <2>1, ReadNone
<1>3. ASSUME NEW p, encode_reg(row, k - 1) = {p}
      PROVE  /\ Get(Bytes, {p}) = ops[k].reg \cap Carried({p})
             /\ Span({p}) \cap row.fixed = {}
  <2>1. p \in encode_reg(row, k - 1)
    BY <1>3
  <2>2. SpanOf(p) \cap row.fixed = {} /\ p \in {RD, RS1, RS2}
    BY <2>1, FieldNotFixed
  <2>3. Holds(Bytes, ops[k].reg, p)
    BY <2>1, RegisterHeld
  <2>4. Span({p}) = SpanOf(p)
    BY DEF Span, SpanOf
  <2>5. Get(Bytes, {p}) = ops[k].reg \cap Carried({p})
    <3>1. p \in ReadFields
      BY <2>2 DEF ReadFields
    <3> QED
      BY <2>3, <3>1, ReadField
  <2> QED
    BY <2>2, <2>4, <2>5
<1>4. encode_reg(row, k - 1) \in FieldSets
  BY <1>1, EncodeReg
<1> QED
  BY <1>2, <1>3, <1>4 DEF FieldSets

(* ... of a number behind registers, ...                                   *)
LEMMA NumberRead ==
  ASSUME IInv, Finished, row.f \notin {"STOREI", "WAIT"}, NEW k \in 1..Len(ops), ops[k].kind # "REG"
  PROVE  LET s == Number(row, ops[k], k - 1).pieces IN Get(Bytes, s) = ops[k].v \cap Carried(s)
<1>1. k = Len(ops) /\ EndsInNumber(ops, Len(ops))
  BY LastNumber
<1> DEFINE n == Len(ops)
           v == ops[n].v
           s == Number(row, ops[n], n - 1).pieces
<1>2. CASE row.f = "RI64"
  <2> DEFINE a == RelocPiece("RI64", v)
  <2>1. s = {a} /\ a \in {Imm15, <<0, 32, 32>>, <<0, 64, 32>>} /\ Holds(Bytes, v, a)
    BY <1>2, LongHolds
  <2> HIDE DEF a, s, v
  <2>2. a \in ReadFields
    BY <2>1 DEF ReadFields
  <2>3. Get(Bytes, {a}) = v \cap Carried({a})
    BY <2>1, <2>2, ReadField
  <2>4. Get(Bytes, s) = v \cap Carried(s)
    BY <2>1, <2>3
  <2> QED
    BY <1>1, <2>4 DEF s, v
<1>3. CASE row.f # "RI64"
  <2>1. \/ s = {Imm15} /\ word \cap 17..63 = PutPiece(v, Imm15)
        \/ s = {} /\ word \cap 17..63 = {}
    BY <1>1, <1>3, ImmediateForms
  <2> HIDE DEF s, v
  <2>2. CASE s = {}
    <3>1. Get(Bytes, s) = v \cap Carried(s)
      BY <2>2, ReadNone
    <3> QED
      BY <1>1, <3>1 DEF s, v
  <2>3. CASE s = {Imm15} /\ word \cap 17..63 = PutPiece(v, Imm15)
    <3>1. Holds(Bytes, v, Imm15)
      BY <2>3, ImmediateHeld
    <3>2. Imm15 \in ReadFields
      BY DEF ReadFields
    <3>3. Get(Bytes, {Imm15}) = v \cap Carried({Imm15})
      BY <3>1, <3>2, ReadField
    <3>4. Get(Bytes, s) = v \cap Carried(s)
      BY <2>3, <3>3
    <3> QED
      BY <1>1, <3>4 DEF s, v
  <2> QED
    BY <2>1, <2>2, <2>3
<1> QED
  BY <1>2, <1>3

(* ... of the constant that STOREI stores, ...                             *)
LEMMA StoredHeld ==
  ASSUME IInv, Finished, row.f = "STOREI", is_nbit(ops[1].v, 4)
  PROVE  Holds(Bytes, ops[1].v, RD)
<1> DEFINE v == ops[1].v
           s == Second(ops[2])
           q == PutPiece(v, RD)
<1>1. word = Stored(v) \cup s
  BY StoreForms
<1>2. Stored(v) = OPC(18) \cup q /\ OPC(18) = {1, 4}
  BY StoredBits DEF Stored
<1>3. \A b \in s : b \notin 5..8
  <2>1. \A t : t \subseteq 9..12 \/ t \subseteq 17..31 => \A b \in t : b \notin 5..8
    OBVIOUS
  <2>2. \A x : (\A b \in PutPiece(x, RS1) : b \notin 5..8) /\ (\A b \in PutPiece(x, Imm15) : b \notin 5..8)
    BY <2>1, PieceRange
  <2> QED
    BY <2>2 DEF Second
<1>4. \A b \in 5..8 : b \in 0..31 /\ b \notin {1, 4}
  OBVIOUS
<1>5. \A b \in 0..31 : b \in Bytes <=> b \in word
  BY Reading
<1> HIDE DEF s, q, v
<1>6. \A b \in 5..8 : b \in Bytes <=> b \in q
  BY <1>1, <1>2, <1>3, <1>4, <1>5
<1> QED
  BY <1>6, Spans DEF Holds, q, v

LEMMA StoredRead ==
  ASSUME IInv, Finished, row.f = "STOREI"
  PROVE  LET s == StoredConstant(ops[1].v).pieces IN Get(Bytes, s) = ops[1].v \cap Carried(s)
<1> DEFINE v == ops[1].v
           s == StoredConstant(v).pieces
<1>1. CASE is_nbit(v, 4)
  <2>1. Holds(Bytes, v, RD)
    BY <1>1, StoredHeld
  <2>2. s = {RD}
    BY <1>1 DEF StoredConstant, Effect
  <2> HIDE DEF s, v
  <2>3. RD \in ReadFields
    BY DEF ReadFields
  <2>4. Get(Bytes, {RD}) = v \cap Carried({RD})
    BY <2>1, <2>3, ReadField
  <2>5. Get(Bytes, s) = v \cap Carried(s)
    BY <2>2, <2>4
  <2> QED
    BY <2>5 DEF s, v
<1>2. CASE ~is_nbit(v, 4)
  <2> DEFINE a == <<0, 64, 32>>
  <2>1. pfx = <<v>>
    BY <1>2, StoreForms
  <2>2. Holds(Bytes, v, a)
    BY <2>1, AppendedHeld
  <2>3. s = {a}
    BY <1>2 DEF StoredConstant, encode_immed_RI64, Appended
  <2> HIDE DEF s, v
  <2>4. a \in ReadFields
    BY DEF ReadFields
  <2> HIDE DEF a
  <2>5. Get(Bytes, {a}) = v \cap Carried({a})
    BY <2>2, <2>4, ReadField
  <2>6. Get(Bytes, s) = v \cap Carried(s)
    BY <2>3, <2>5
  <2> QED
    BY <2>6 DEF s, v
<1> QED
  BY <1>1, <1>2

(* ... of where it stores it, ...                                          *)
LEMMA SecondRead ==
  ASSUME IInv, Finished, row.f = "STOREI", pfx = <<>>
  PROVE  LET s == Number(row, ops[2], 1).pieces IN Get(Bytes, s) = ops[2].v \cap Carried(s)
<1> DEFINE o == ops[2]
           v == o.v
           c == ops[1].v
           q == PutPiece(v, Imm15)
           s == Number(row, o, 1).pieces
<1>1. word = Stored(c) \cup Second(o) /\ o.kind \in {"IMM", "REGIND"}
  BY StoreForms
<1>2. is_nbit(c, 4)
  BY StoreForms
<1>3. \A b \in 17..31 : b \notin Stored(c)
  <2>1. Stored(c) = OPC(18) \cup PutPiece(c, RD) /\ OPC(18) = {1, 4}
    BY <1>2, StoredBits DEF Stored
  <2>2. \A t : t \subseteq 5..8 => \A b \in 17..31 : b \notin t /\ b \notin {1, 4}
    OBVIOUS
  <2>3. PutPiece(c, RD) \subseteq 5..8
    BY PieceRange
  <2>4. \A b \in 17..31 : b \notin PutPiece(c, RD) /\ b \notin {1, 4}
    BY <2>2, <2>3
  <2> QED
    BY <2>1, <2>4
<1>4. CASE o.kind = "REGIND" /\ v = {}
  <2>1. s = {}
    BY <1>4 DEF Number, encode_regind, Nowhere, Effect
  <2> HIDE DEF s, v
  <2>2. Get(Bytes, s) = v \cap Carried(s)
    BY <2>1, ReadNone
  <2> QED
    BY <2>2 DEF s, v
<1>5. CASE ~(o.kind = "REGIND" /\ v = {})
  <2>1. s = {Imm15}
    BY <1>1, <1>5 DEF Number, encode_regind, encode_direct, Effect
  <2>2. Second(o) = q \/ Second(o) = PutPiece(o.reg, RS1) \cup q
    BY <1>1, <1>5 DEF Second
  <2>3. \A b \in 17..31 : b \notin PutPiece(o.reg, RS1)
    <3>1. \A t : t \subseteq 9..12 => \A b \in 17..31 : b \notin t
      OBVIOUS
    <3> QED
      BY <3>1, PieceRange
  <2>4. \A b \in 17..31 : b \in 0..31
    OBVIOUS
  <2>5. \A b \in 0..31 : b \in Bytes <=> b \in word
    BY Reading
  <2> HIDE DEF s, q, c
  <2>6. \A b \in 17..31 : b \in Bytes <=> b \in q
    BY <1>1, <1>3, <2>2, <2>3, <2>4, <2>5
  <2>7. Holds(Bytes, v, Imm15)
    BY <2>6, Spans DEF Holds, q
  <2>8. Imm15 \in ReadFields
    BY DEF ReadFields
  <2> HIDE DEF v
  <2>9. Get(Bytes, {Imm15}) = v \cap Carried({Imm15})
    BY <2>7, <2>8, ReadField
  <2>10. Get(Bytes, s) = v \cap Carried(s)
    BY <2>1, <2>9
  <2> QED
    BY <2>10 DEF s, v
<1> QED
  BY <1>4, <1>5

(* ... and of a data item.                                                 *)
LEMMA ItemRead ==
  ASSUME IInv, Done, row.f = "DATA", NEW p \in placed
  PROVE  /\ p.op = 0 /\ p.kind = "DATA"
         /\ ops[1].form # "flt" => Get(Bytes, p.pieces) = p.v \cap Carried(p.pieces)
<1> DEFINE a == <<0, ItemBits, 0>>
           v == ops[1].v
<1>1. p = [op |-> 0, kind |-> "DATA", v |-> v, pieces |-> {a}]
  BY DEF IInv, DataInv, Done
<1>2. p.op = 0 /\ p.kind = "DATA" /\ p.v = v /\ p.pieces = {a}
  BY <1>1
<1>3. ASSUME ops[1].form # "flt"
      PROVE  Get(Bytes, {a}) = v \cap Carried({a})
  <2>1. ItemBits \in Widths /\ Bytes = v \cap 0..ItemBits - 1
    BY <1>3, DataReads
  <2>2. ItemBits \in Nat
    BY <2>1 DEF Widths
  <2> DEFINE m == ItemBits
             w == Bytes
  <2>3. Get(w, {<<0, m, 0>>}) = {b \in 0..0 + m - 1 : b - 0 + 0 \in w}
    BY DEF Get
  <2>4. Carried({<<0, m, 0>>}) = 0..0 + m - 1
    BY DEF Carried
  <2>5. w = v \cap 0..m - 1 /\ m \in Nat
    BY <2>1, <2>2
  <2> HIDE DEF m, w, v
  <2>6. \A b \in 0..0 + m - 1 : b - 0 + 0 = b
    BY <2>5
  <2>7. 0 + m - 1 = m - 1
    BY <2>5
  <2>8. Get(w, {<<0, m, 0>>}) = v \cap Carried({<<0, m, 0>>})
    BY <2>3, <2>4, <2>5, <2>6, <2>7
  <2> QED
    BY <2>8 DEF m, w
<1> HIDE DEF a, v
<1> QED
  BY <1>2, <1>3

LEMMA ReadBackFollows == IInv => OperandsReadBack
<1> SUFFICES ASSUME IInv, Done, row.f # "WAIT", ~BitMap, NEW p \in placed
             PROVE  /\ \/ StoresWide /\ p.op = 1
                       \/ ops[p.op + 1].form = "flt"
                       \/ Get(Bytes, p.pieces) = p.v \cap Carried(p.pieces)
                    /\ p.kind = "REG" => Span(p.pieces) \cap row.fixed = {}
  BY DEF OperandsReadBack
<1>1. CASE row.f = "DATA"
  <2>1. /\ p.op = 0 /\ p.kind = "DATA"
        /\ ops[1].form # "flt" => Get(Bytes, p.pieces) = p.v \cap Carried(p.pieces)
    BY <1>1, ItemRead
  <2>2. ops[p.op + 1] = ops[1] /\ p.kind # "REG"
    BY <2>1
  <2> QED
    BY <2>1, <2>2
<1>2. CASE row.f # "DATA"
  <2>1. Finished
    BY <1>2, DoneFinished
  <2>2. PICK k \in 1..Len(ops) : p = Record(row, ops[k], k - 1)
    BY <2>1, PlacedIs
  <2>3. /\ p.op = k - 1 /\ p.kind = ops[k].kind
        /\ ops[k].kind = "REG" => p.v = ops[k].reg /\ p.pieces = encode_reg(row, k - 1)
        /\ ops[k].kind # "REG" => p.v = ops[k].v
    BY <2>2, RecordKind
  <2>4. CASE row.f # "STOREI"
    <3>1. CASE ops[k].kind = "REG"
      <4>1. /\ Get(Bytes, encode_reg(row, k - 1)) = ops[k].reg \cap Carried(encode_reg(row, k - 1))
            /\ Span(encode_reg(row, k - 1)) \cap row.fixed = {}
        BY <2>1, <2>4, <3>1, RegisterRead
      <4> QED
        BY <2>3, <3>1, <4>1
    <3>2. CASE ops[k].kind # "REG"
      <4> DEFINE s == Number(row, ops[k], k - 1).pieces
      <4>1. p.pieces = s
        BY <2>2, <2>4, <3>2, RecordPieces
      <4>2. Get(Bytes, s) = ops[k].v \cap Carried(s)
        BY <2>1, <2>4, <3>2, NumberRead
      <4> HIDE DEF s
      <4> QED
        BY <2>3, <3>2, <4>1, <4>2
    <3> QED
      BY <3>1, <3>2
  <2>5. CASE row.f = "STOREI"
    <3>1. Len(ops) = 2 /\ ops[1].kind = "IMM" /\ ops[2].kind \in {"IMM", "REGIND"}
      BY <2>1, <2>5, StoreForms
    <3>2. k = 1 \/ k = 2
      BY <3>1
    <3>3. p.kind # "REG" /\ p.v = ops[k].v
      BY <2>3, <3>1, <3>2
    <3>4. CASE k = 1
      <4> DEFINE s == StoredConstant(ops[1].v).pieces
      <4>1. p = Record(row, ops[1], 0)
        BY <2>2, <3>4
      <4>2. p.pieces = s
        BY <2>5, <3>1, <4>1 DEF Record
      <4>3. Get(Bytes, s) = ops[1].v \cap Carried(s)
        BY <2>1, <2>5, StoredRead
      <4> HIDE DEF s
      <4> QED
        BY <3>3, <3>4, <4>2, <4>3
    <3>5. CASE k = 2 /\ pfx = <<>>
      <4> DEFINE s == Number(row, ops[2], 1).pieces
      <4>1. p = Record(row, ops[2], 1)
        BY <2>2, <3>5
      <4>2. p.pieces = s
        BY <2>5, <3>1, <4>1 DEF Record
      <4>3. Get(Bytes, s) = ops[2].v \cap Carried(s)
        BY <2>1, <2>5, <3>5, SecondRead
      <4> HIDE DEF s
      <4> QED
        BY <3>3, <3>5, <4>2, <4>3
    <3>6. CASE k = 2 /\ pfx # <<>>
      <4>1. p.op = 1
        BY <2>3, <3>6
      <4>2. StoresWide
        BY <2>5, <3>6 DEF StoresWide
      <4> QED
        BY <3>3, <4>1, <4>2
    <3> QED
      BY <3>2, <3>4, <3>5, <3>6
  <2> QED
    BY <2>4, <2>5
<1> QED
  BY <1>1, <1>2

(* Every operand can be read back from the bytes of the instruction, and   *)
(* no register touches a bit that the row fixes.                           *)
THEOREM ReadBack == Spec => []OperandsReadBack
  BY Inductive, ReadBackFollows, PTL
=============================================================================
