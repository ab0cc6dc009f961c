---------------------------- MODULE Qupls4Encode ----------------------------
(***************************************************************************)
(* encode_qupls_instruction of the Qupls4 assembler back end               *)
(* (src/software/vasm/cpus/Qupls4/cpu.c), called once to size an           *)
(* instruction and once to emit it: the operands are put one after the     *)
(* other into the instruction word, and what does not fit into postfixes.  *)
(***************************************************************************)
EXTENDS Qupls4Rows, Qupls4Fields, Qupls4Constants, DataItems

CONSTANTS
    Sources,        \* the source operands that are tried
    Pcs             \* the places of the instruction

ASSUME SourcesAssumption ==
    \A s \in Sources :
        /\ s.t \in {"reg", "vm", "lk", "pred", "imm", "mem", "ind"}
        /\ s.t \in {"imm", "mem", "ind"} => s.v \subseteq 0..63

VARIABLES
    row,        \* the row of mnemonics[]
    pc,         \* where the instruction goes
    ops,        \* the parsed operands
    db,         \* FALSE while sizing, TRUE while emitting
    i,          \* the operand encoded next, from 0
    word,       \* the bits that operands have set in the opcode
    post,       \* the postfixes pfx1 .. pfx4 that are valid
    isize,      \* the size the encoder will return
    ipfx,       \* the size of pfxb
    sized,      \* the size that the sizing call arrived at
    placed,     \* history: what each operand of the emitting call put where
    relocs      \* history: the relocations left for it

vars == <<row, pc, ops, db, i, word, post, isize, ipfx, sized, placed, relocs>>

(* The number below 128 with these bits                                    *)
Number(bits) == CHOOSE n \in 0..127 : BitsOf(n) = bits

(* The length a row starts from; a PADI fills the 64-byte block *)
StartSize(r, at) == IF r.f = "PADI" THEN 64 - Number(at \cap 0..5) ELSE r.len

(* The rows and, taken the same way, one row for each data directive       *)
data_items ==
    {[f |-> "DATA", fixed |-> {}, tags |-> {qupls_data_operand(d)}, len |-> d.bits \div 8,
      ops |-> <<{"DATA"}>>] : d \in Directives}

AnyRow == mnemonics \cup data_items

Init ==
    /\ row \in AnyRow
    /\ pc \in Pcs
    /\ ops = <<>>
    /\ db = FALSE
    /\ i = 0
    /\ word = {}
    /\ post = <<>>
    /\ isize = StartSize(row, pc)
    /\ ipfx = 0
    /\ sized = 0
    /\ placed = {}
    /\ relocs = {}

(***************************************************************************)
(* The operands: parsed before the sizing call, the same in both calls     *)
(***************************************************************************)
More == i < Len(row.ops)
Taken == row.ops[i + 1]

ParsedData ==
    {DataOperand(s, row.tags \cap {"F32", "F64"} # {}) : s \in {x \in Sources : x.t = "imm"}}

Parsed ==
    IF Taken = {"NEXTREG"} THEN {NextRegister}
    ELSE IF Taken = {"DATA"} THEN ParsedData
    ELSE {op \in {parse_operand(s) : s \in Sources} : op.kind \in Taken}

Given == IF db THEN {ops[i + 1]} ELSE Parsed

Value(op) == IF db THEN EmittedValue(row.f, i, op, pc) ELSE SizingValue(row.f, i, op, pc)
Constant(op) == ~db \/ IsConstant(row.f, i, op)

(* A mutant: every postfix is taken *)
NoLimit(valid, new) == valid \o new

(* encode_cpfx: a fifth postfix is dropped *)
encode_cpfx(valid, new) ==
    LET all == valid \o new
    IN  SubSeq(all, 1, IF Len(all) < 4 THEN Len(all) ELSE 4)

Held(op, e, pieces) ==
    [op |-> i, kind |-> op.kind, form |-> op.form, v |-> e.v, pieces |-> pieces, all |-> e.all]

(* The common part of the handlers: the value e.v goes through pieces, the *)
(* bits of others besides, and the postfixes of e are appended.            *)
Encoded(op, e, pieces, others) ==
    /\ word' = IF e.all THEN {0} ELSE (word \ e.clear) \cup e.set \cup Put(e.v, pieces) \cup others
    /\ post' = encode_cpfx(post, [k \in DOMAIN e.post |-> [op |-> i, v |-> e.v, pfx |-> e.post[k]]])
    /\ placed' = IF db THEN placed \cup {Held(op, e, pieces)} ELSE placed

Advance(op) ==
    /\ \E sd \in BaseIsSdreg(op) :
          relocs' = IF db THEN fix_reloctype(op, relocs \cup make_reloc(row.f, i, op, row.len, sd))
                    ELSE relocs
    /\ ops' = IF db THEN ops ELSE Append(ops, op)
    /\ i' = i + 1
    /\ UNCHANGED <<row, pc, db, sized>>

(***************************************************************************)
(* One handler per kind of operand, in the order of the code               *)
(***************************************************************************)
EncodeRegister ==
    /\ More
    /\ \E op \in Given :
        /\ op.kind \in {"REG", "VREG"}
        /\ LET e == encode_reg(row.f, op.reg, i, isize) IN Encoded(op, e, e.pieces, {})
        /\ UNCHANGED <<isize, ipfx>>
        /\ Advance(op)

EncodeImmediate ==
    /\ More
    /\ \E op \in Given :
        /\ op.kind = "IMM" /\ ~is_branch(row.f)
        /\ LET e == IF Constant(op) THEN ConstantImmediate(row, Value(op), i)
                                    ELSE LabelImmediate(row, Value(op), i)
           IN  /\ Encoded(op, e, e.pieces, {})
               /\ isize' = e.size
        /\ UNCHANGED ipfx
        /\ Advance(op)

(* encode_branch.  The size of a far jump counts pfxb, whose size          *)
(* eval_instruction adds again.                                            *)
FarJump(e) == IF row.f \in {"J2", "J4"} THEN e.size - 6 ELSE 0

EncodeBranch ==
    /\ More
    /\ \E op \in Given :
        /\ op.kind = "IMM" /\ is_branch(row.f)
        /\ LET e == encode_branch(row, Value(op), i)
           IN  /\ Encoded(op, e, e.pieces, {})
               /\ isize' = e.size
               /\ ipfx' = IF FarJump(e) = 0 THEN ipfx ELSE FarJump(e)
        /\ Advance(op)

EncodeIndirectTarget ==
    /\ More
    /\ \E op \in Given :
        /\ op.kind = "REGIND" /\ row.f \in {"J2", "J4", "JL2"}
        /\ LET t == IndirectTarget(row.f)
           IN  Encoded(op, Effect(Value(op), {t.disp}, 6), {t.disp}, PutPiece(op.reg, t.base))
        /\ isize' = 6
        /\ UNCHANGED ipfx
        /\ Advance(op)

EncodePredicate ==
    /\ More
    /\ \E op \in Given :
        /\ op.kind = "PREDSTR"
        /\ LET e == encode_pred(Value(op)) IN Encoded(op, e, e.pieces, {})
        /\ isize' = 6
        /\ UNCHANGED ipfx
        /\ Advance(op)

EncodeIndirect ==
    /\ More
    /\ \E op \in Given :
        /\ op.kind = "REGIND" /\ row.f \notin {"J2", "J4", "JL2"}
        /\ LET m == encode_regind(row, Value(op), i)
           IN  /\ Encoded(op, m.effect, m.effect.pieces, PutPiece(op.reg, m.base))
               /\ isize' = m.effect.size
        /\ UNCHANGED ipfx
        /\ Advance(op)

EncodeIndexed ==
    /\ More
    /\ \E op \in Given :
        /\ op.kind \in {"SCNDX", "IND_SCNDX"}
        /\ LET m == encode_scndx(row, op, Value(op), i)
           IN  /\ Encoded(op, m.effect, m.effect.pieces,
                          PutPiece(op.reg, m.base) \cup PutPiece(op.ndx, m.index)
                             \cup PutPiece(ScaleBits(op.scale), m.scale))
               /\ isize' = m.effect.size
        /\ UNCHANGED ipfx
        /\ Advance(op)

(* Link registers and vector masks reach no encoder; encode_branch sets    *)
(* the size before it declines.                                            *)
SkipOperand ==
    /\ More
    /\ \E op \in Given :
        /\ op.kind \in {"LK", "VMREG"}
        /\ isize' = CASE row.f \in {"B2", "BL2"} -> row.len
                      [] row.f \in {"J3", "JL3"} -> 8
                      [] OTHER -> 6
        /\ UNCHANGED <<word, post, ipfx, placed>>
        /\ Advance(op)

(* eval_instruction: the size of the data block is computed by the sizing  *)
(* call, then everything starts again for the bytes.                       *)
instruction_size == isize + 6 * Len(post) + ipfx

StartEmitting ==
    /\ ~More /\ ~db
    /\ sized' = instruction_size
    /\ db' = TRUE
    /\ i' = 0
    /\ word' = {}
    /\ post' = <<>>
    /\ isize' = StartSize(row, pc)
    /\ ipfx' = 0
    /\ UNCHANGED <<row, pc, ops, placed, relocs>>

(* eval_data: a data item is written at once                               *)
EvalData ==
    /\ More
    /\ row.f = "DATA"
    /\ \E op \in Given :
        /\ word' \in QuplsData(op.form, op.v, 8 * row.len)
        /\ placed' = {[op |-> 0, kind |-> "DATA", form |-> op.form, v |-> op.v,
                       pieces |-> {<<0, 8 * row.len, 0>>}, all |-> FALSE]}
        /\ relocs' = {[op |-> 0, v |-> op.v, at |-> r, type |-> "ABS"] :
                          r \in UNION {QuplsDataRelocs(op.form, type) : type \in row.tags}}
        /\ ops' = <<op>>
    /\ db' = TRUE
    /\ i' = 1
    /\ isize' = row.len
    /\ sized' = row.len
    /\ UNCHANGED <<row, pc, post, ipfx>>

Next ==
    \/ EncodeRegister
    \/ EncodeImmediate
    \/ EncodeBranch
    \/ EncodeIndirectTarget
    \/ EncodePredicate
    \/ EncodeIndirect
    \/ EncodeIndexed
    \/ SkipOperand
    \/ StartEmitting
    \/ EvalData

Spec == Init /\ [][Next]_vars

(***************************************************************************)
(* Properties                                                              *)
(***************************************************************************)
Done == db /\ ~More

(* The bytes written: 48 bits of the opcode and 48 of each postfix         *)
Opcode == word \cap 0..(IF row.f = "DATA" THEN 63 ELSE 47)
Postfixes == [k \in DOMAIN post |-> PostfixWord(post[k].v, post[k].pfx) \cap 0..47]
Bytes == Opcode \cup UNION {{48 * k + b : b \in Postfixes[k]} : k \in DOMAIN post}

(* Types; an instruction has at most four postfixes.                       *)
TypeOK ==
    /\ row \in AnyRow
    /\ pc \in Pcs
    /\ db \in BOOLEAN
    /\ i \in 0..Len(row.ops)
    /\ Len(ops) = (IF db THEN Len(row.ops) ELSE i)
    /\ word \subseteq 0..63
    /\ Len(post) <= 4
    /\ isize \in 0..64
    /\ ipfx \in {0, 3, 6, 9}
    /\ sized \in 0..97

(* Formats with a field that reaches past the six bytes written            *)
CutFormats ==
    {"RTDR", "JL2", "JL4", "J2", "B2", "BL2", "RIS", "RISM", "RISH", "R5", "R6", "R7"}
(* Formats and rows that give two operands, or an operand and the          *)
(* predicate that goes with the first register, the same bits              *)
SharedFormats == {"SI", "INT", "ENTER", "LEAVE", "R3RI", "JSCNDX", "RII", "RIV"}
SharedRows ==
    \/ row.fixed \cap {"FUNC3", "IPR", "LSSIZE", "IM2"} # {}
    \/ row.f = "PRED" /\ Len(row.ops) = 3
    \/ row.f = "SCNDX" /\ row.ops[1] = {"IMM"}
(* A label where the format has no place for one                           *)
LabelMisplaced ==
    \E p \in placed :
        /\ p.kind = "IMM" /\ p.form # "num"
        /\ row.f \notin DOMAIN LabelPieces \cup {"DATA", "RI", "DIRECT", "B", "BI", "BZ", "J4"}

(* In every other row the fields are apart from each other and from those  *)
(* the row fixes: the operands or-ed into the opcode one after the other   *)
(* can all be read back from the bytes.  A floating point item is not written. *)
OperandsReadBack ==
    Done /\ row.f \notin CutFormats \cup SharedFormats /\ ~SharedRows /\ ~LabelMisplaced =>
        \A p \in placed :
            /\ p.form = "flt" \/ Get(Opcode, p.pieces) = p.v \cap Carried(p.pieces)
            /\ Span(p.pieces) \cap FixedBits(row) = {}

(* The constant of an instruction is cut at the widths at which the        *)
(* processor's decoder puts it together again: from its field and what     *)
(* the loop over the postfixes leaves, the case of the decoder makes the   *)
(* number that was written in the source.  The constant has n bits in the  *)
(* instruction and 39 in the postfix.  Left out are the numbers that need  *)
(* a second postfix, whose bit 6 keeps the decoder from seeing it, and     *)
(* those that take one bit more than the field, sign included: is_nbit     *)
(* lets them pass.                                                         *)
InstructionConstant ==
    [RI |-> <<2, 25, 21, 61>>, RIA |-> <<1, 7, 14, 60>>, RIB |-> <<2, 7, 21, 61>>]
OneTooWide(v, n) == is_nbit(v, n) /\ ~FitsSigned(v, n)

DecodedConstant(c) ==
    Decoded(Extract(Opcode, c[3], c[2]), c[2], Postfixes, Which(BitsOf(c[4])))

WholeConstant(p, c) ==
    LET n == c[2]
    IN  /\ p.op = c[1] /\ p.kind = "IMM" /\ ~LabelMisplaced
        /\ ~OneTooWide(p.v, n) /\ ~OneTooWide(p.v, n + 39) /\ is_nbit(p.v, n + 39)

PostfixesHoldConstant ==
    Done /\ row.f \in DOMAIN InstructionConstant =>
        LET c == InstructionConstant[row.f]
            d == DecodedConstant(c)
        IN  \A p \in placed :
                WholeConstant(p, c) => Immediate(Extract(Opcode, c[3], c[2]), c[2], d.has, d.c) = p.v

(* "Large constants are supported by embedding them in the instruction     *)
(* stream using constant postfixes following the instruction": the         *)
(* decoder hands the number on.                                            *)
LargeConstantsArrive ==
    Done /\ row.f \in DOMAIN InstructionConstant =>
        LET c == InstructionConstant[row.f]
        IN  \A p \in placed : WholeConstant(p, c) => DecodedConstant(c).imm = p.v

(* The bytes written are as many as the sizing call counted, for the rows  *)
(* of length six and numbers: postfixes depend on the displacement, which  *)
(* the two calls compute in different places.  BI halves it in one of      *)
(* them, J2 and J4 count a postfix they do not write.                      *)
SizesAgree ==
    Done /\ row.len = 6 /\ row.f \notin {"BI", "J2", "J4"}
    /\ (\A k \in DOMAIN ops : ops[k].form = "num")
        => sized = 6 + 6 * Len(post)

(* The relocations of an operand name the bits that it was put into, so    *)
(* that the linker replaces the whole of it and nothing else.  The other   *)
(* formats have them elsewhere.                                            *)
RelocsPatchTheField ==
    Done /\ row.f \in {"RI", "J4", "DATA"} /\ "NEGIMM" \notin row.tags =>
        \A r \in relocs :
            /\ Get(Bytes, {r.at}) = r.v \cap Carried({r.at})
            /\ \A p \in placed : p.op = r.op =>
                  Carried(p.pieces) \subseteq Carried({q.at : q \in relocs})

(* The type of a relocation is the one that was written: that of the       *)
(* operand's attribute, or that of the small data area when it goes        *)
(* through the base register of it, and not through any other.  The        *)
(* targets of branches have a type of their own, and the immediate that a  *)
(* store writes takes the type of its address.                             *)
RelocTypeAsWritten ==
    Done /\ ~is_branch(row.f) =>
        \A r \in relocs :
            LET op == ops[r.op + 1]
            IN  row.f # "REGIND" \/ op.kind = "REGIND" =>
                r.type = IF op.kind = "REGIND" /\ op.reg = sdreg THEN "SD"
                         ELSE Attributed(op.attr, {"GOT", "PLT", "SD"})

(* "Calculate the size of the current instruction; must be identical to    *)
(* the data created by eval_instruction": a conditional branch to a label  *)
(* writes as many bytes as the data block was made for.                    *)
LabelBranchSizeIdentical ==
    Done /\ row.f \in {"B", "BZ"} /\ row.len = 6 => sized = 6 + 6 * Len(post)
=============================================================================
