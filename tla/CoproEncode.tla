---------------------------- MODULE CoproEncode ----------------------------
(***************************************************************************)
(* encode_qupls_instruction and eval_instruction of the assembler back end *)
(* for the graphics coprocessor (src/software/vasm/cpus/Qupls4_copro), and *)
(* the reading of what they write by the coprocessor                       *)
(* (src/rtl/cpu_v4/copro/Qupls4_copro2.sv and Qupls4_copro_next_ip.sv).    *)
(***************************************************************************)
EXTENDS CoproOperands, DataItems

CONSTANT Sources    \* the source operands that are tried

ASSUME SourcesAssumption ==
    \A s \in Sources :
        /\ s.t \in {"reg", "imm", "mem"}
        /\ s.t \in {"imm", "mem"} => s.v \subseteq 0..63

VARIABLES
    row,        \* the row of mnemonics[]
    ops,        \* the parsed operands
    db,         \* FALSE while sizing, TRUE while emitting
    i,          \* the operand encoded next, from 0
    word,       \* insn.opcode
    pfx,        \* insn.pfx1 when insn.pfx1v
    isize,      \* the size the encoder will return
    sized,      \* the size that the sizing call arrived at
    placed,     \* history: what each operand of the emitting call put where
    relocs      \* history: the relocations left for it

vars == <<row, ops, db, i, word, pfx, isize, sized, placed, relocs>>

(* The rows and, taken the same way, one row for each data directive       *)
data_items ==
    {[f |-> "DATA", fixed |-> {}, flag |-> qupls_data_operand(d), ops |-> <<{"DATA"}>>] :
        d \in Directives}

Init ==
    /\ row \in mnemonics \cup data_items
    /\ ops = <<>>
    /\ db = FALSE
    /\ i = 0
    /\ word = row.fixed
    /\ pfx = <<>>
    /\ isize = 4
    /\ sized = 0
    /\ placed = {}
    /\ relocs = {}

(* The operands are parsed before the sizing call, and the same in both    *)
More == i < Len(row.ops)
Taken == row.ops[i + 1]

ParsedData ==
    {DataOperand(s, row.flag \in {"F32", "F64"}) : s \in {x \in Sources : x.t = "imm"}}

Parsed ==
    IF Taken = {"NEXTREG"} THEN {NextRegister}
    ELSE IF Taken = {"DATA"} THEN ParsedData
    ELSE {op \in {parse_operand(s) : s \in Sources} : op.kind \in Taken}

Given == IF db THEN {ops[i + 1]} ELSE Parsed

(* The effect e of an operand's value v, and the bits of its register      *)
Encoded(op, v, e, reg) ==
    /\ word' = (word \ e.clear) \cup e.set \cup reg
    /\ pfx' = IF e.pfx = <<>> THEN pfx ELSE e.pfx
    /\ isize' = e.size
    /\ placed' = IF db THEN placed \cup {[op |-> i, kind |-> op.kind, v |-> v, pieces |-> e.pieces]}
                 ELSE placed

Advance(op) ==
    /\ \E sd \in BaseIsSdreg(op) :
          relocs' = IF db THEN fix_reloctype(op, relocs \cup make_reloc(row.f, i, op, sd)) ELSE relocs
    /\ ops' = IF db THEN ops ELSE Append(ops, op)
    /\ i' = i + 1
    /\ UNCHANGED <<row, db, sized>>

EncodeRegister ==
    /\ More
    /\ \E op \in Given :
        /\ op.kind = "REG"
        /\ Encoded(op, op.reg, [Effect(op.reg, encode_reg(row, i)) EXCEPT !.size = isize], {})
        /\ Advance(op)

EncodeImmediate ==
    /\ More
    /\ \E op \in Given :
        /\ op.kind = "IMM"
        /\ \E e \in encode_immed(row, op.v, i) : Encoded(op, op.v, e, {})
        /\ Advance(op)

EncodeIndirect ==
    /\ More
    /\ \E op \in Given :
        /\ op.kind = "REGIND"
        /\ Encoded(op, op.v, encode_regind(op.v, i), Put(op.reg, BaseField(row, i)))
        /\ Advance(op)

(* The end of the sizing call; eval_instruction then starts again          *)
Size(appended, size) == size + 8 * Len(appended)

StartEmitting ==
    /\ ~More /\ ~db
    /\ sized' = Size(pfx, isize)
    /\ db' = TRUE
    /\ i' = 0
    /\ word' = row.fixed
    /\ pfx' = <<>>
    /\ isize' = 4
    /\ UNCHANGED <<row, ops, placed, relocs>>

(* eval_data: a data item is written at once                               *)
ItemBits == RelocBits[row.flag]

EvalData ==
    /\ More
    /\ row.f = "DATA"
    /\ \E op \in Given :
        /\ word' \in QuplsData(op.form, op.v, ItemBits)
        /\ placed' = {[op |-> 0, kind |-> "DATA", v |-> op.v, pieces |-> {<<0, ItemBits, 0>>}]}
        /\ relocs' = {[op |-> 0, at |-> r, type |-> "ABS"] : r \in QuplsDataRelocs(op.form, row.flag)}
        /\ ops' = <<op>>
    /\ db' = TRUE
    /\ i' = 1
    /\ isize' = ItemBits \div 8
    /\ sized' = ItemBits \div 8
    /\ UNCHANGED <<row, pfx>>

Next == EncodeRegister \/ EncodeImmediate \/ EncodeIndirect \/ StartEmitting \/ EvalData

Spec == Init /\ [][Next]_vars

(* The bytes written, as bits: one word or two of the opcode, and the      *)
(* appended constant                                                       *)
OpcodeBytes == IF row.f = "DATA" \/ isize = 8 THEN isize ELSE 4
Bytes ==
    (word \cap 0..8 * OpcodeBytes - 1)
        \cup (IF pfx = <<>> THEN {} ELSE {b + 8 * OpcodeBytes : b \in pfx[1]})

(***************************************************************************)
(* The coprocessor's reading of them                                       *)
(***************************************************************************)
imm(code) == Extract(code, 17, 15)
opcode(code) == Extract(code, 0, 5)
SignExtended(v, n) == v \cup (IF n - 1 \in v THEN n..63 ELSE {})

ArithmeticOps == {OPC(22), OPC(24), OPC(25), OPC(26), OPC(11)}
Escaped64(code) ==
    \/ opcode(code) = OPC(6)
    \/ opcode(code) \in ArithmeticOps /\ imm(code) = {14}
Escaped32(code) == opcode(code) \in ArithmeticOps /\ imm(code) = {0, 14}

(* A multiplication with a longer constant goes back to st_odd64a until    *)
(* mulcnt, which is one after st_execute, is more than six.                *)
MulAgain(code) == IF opcode(code) = OPC(11) /\ imm(code) \in {{14}, {0, 14}} THEN 6 ELSE 0

(* How many bytes next_ip has gone forward when the instruction is done:   *)
(* four in st_ifetch, four in st_odd64, four in st_odd64b each time        *)
Consumed(code) ==
    (IF Escaped64(code) THEN 12 ELSE IF Escaped32(code) THEN 8 ELSE 4) + 4 * MulAgain(code)

(* The constant it computes with                                           *)
Constant(code) ==
    IF Escaped64(code) THEN Extract(code, 32, 64)
    ELSE IF Escaped32(code) THEN SignExtended(Extract(code, 32, 32), 32)
    ELSE IF opcode(code) = OPC(18) THEN Extract(code, 5, 4)
    ELSE SignExtended(imm(code), 15)

(* Where it goes on after JCC, and after JMP and CALL with r0 as base      *)
JumpTarget(code) ==
    Shl(IF opcode(code) = OPC(4) THEN imm(code) ELSE SignExtended(imm(code), 15), 2)

(***************************************************************************)
(* Properties                                                              *)
(***************************************************************************)
Done == db /\ ~More

(* Types; an instruction is one, two or three words long.                  *)
TypeOK ==
    /\ row \in mnemonics \cup data_items
    /\ db \in BOOLEAN
    /\ i \in 0..Len(row.ops)
    /\ Len(ops) = (IF db THEN Len(row.ops) ELSE i)
    /\ word \subseteq 0..63
    /\ Len(pfx) <= 1
    /\ Size(pfx, isize) \in (IF row.f = "DATA" THEN {1, 2, 4, 8} ELSE {4, 8, 12})
    /\ sized = 0 <=> ~db
    /\ sized \in {0, 1, 2, 4, 8, 12}

StoresWide == row.f = "STOREI" /\ pfx # <<>>

(* The registers and values or-ed into the instruction one after the other *)
(* can be read back from its bytes, and no operand touches the bits that   *)
(* the row fixes.  WAIT drops two bits of its address, the flag of a wide  *)
(* stored constant lands in the displacement, and the register of a bit    *)
(* map instruction in the field that says which of them it is.  A floating *)
(* point item is not written.                                              *)
BitMap == row.fixed \cap 0..4 = OPC(7)

OperandsReadBack ==
    Done /\ row.f # "WAIT" /\ ~BitMap =>
        \A p \in placed :
            /\ \/ StoresWide /\ p.op = 1
               \/ ops[p.op + 1].form = "flt"
               \/ Get(Bytes, p.pieces) = p.v \cap Carried(p.pieces)
            /\ p.kind = "REG" => Span(p.pieces) \cap row.fixed = {}

(* A number in the instruction that reads as the announcement of a longer  *)
(* constant: -16384 and -16383, or a wider number cut to one of them.      *)
Misread ==
    /\ row.fixed \cap 0..4 \in ArithmeticOps
    /\ \E p \in placed : Imm15 \in p.pieces /\ Extract(p.v, 0, 15) \in {{14}, {0, 14}}

(* Every instruction has as many bytes as its data block was made for, and *)
(* the coprocessor goes forward by as many: a constant is never executed.  *)
ProcessorStaysInStep ==
    Done /\ ~Misread /\ row.f # "DATA" =>
                        /\ sized = Size(pfx, isize)
                        /\ sized = OpcodeBytes + 8 * Len(pfx)
                        /\ sized = Consumed(Bytes)

(* The coprocessor computes with the number in the source.  is_nbit does   *)
(* not count the sign, so that 2^31..2^32-1 goes into 32 signed bits, and  *)
(* STOREI extends its four bits with zeros.                                *)
SignLost(v) ==
    IF row.f = "STOREI" THEN Negative(v) /\ is_nbit(v, 4)
    ELSE is_nbit(v, 32) /\ ~FitsSigned(v, 32)

HardwareFindsConstant ==
    Done /\ row.f \in {"RI64", "STOREI"} /\ ~Misread =>
        \A p \in placed :
            p.kind = "IMM" /\ (row.f = "STOREI" => p.op = 0) /\ ~SignLost(p.v)
                => Constant(Bytes) = p.v

(* After the linker has replaced the bits that the relocations name, the   *)
(* coprocessor finds the value of the symbol in an RI64 instruction, and a *)
(* jump or conditional jump goes to it.  A data item holds as much of it   *)
(* as fits.                                                                *)
Linked(v) == (Bytes \ Span({r.at : r \in relocs})) \cup Put(v, {r.at : r \in relocs})

LinkedOperandArrives ==
    Done =>
        \A k \in DOMAIN ops :
            LET v == ops[k].v
            IN  ops[k].kind \in {"IMM", "DATA"} /\ ops[k].form \notin {"num", "flt"} =>
                /\ row.f = "RI64" /\ ~Misread /\ ~SignLost(v) => Constant(Linked(v)) = v
                /\ row.f = "DIRECT" /\ row.flag \in {"JUMP", "BRANCH"} /\ v \subseteq 2..15
                    => JumpTarget(Linked(v)) = v
                /\ row.f = "DATA" => Linked(v) = v \cap 0..ItemBits-1

(* The type of a relocation is the one that was written: that of the       *)
(* operand's attribute, or that of the small data area when it goes        *)
(* through the base register of it, and not through any other.  STOREI is  *)
(* left out, where that register changes the type of the immediate too,    *)
(* and so is a memory operand with an attribute of its own.                *)
RelocTypeAsWritten ==
    Done /\ row.f # "STOREI" =>
        \A r \in relocs :
            LET op == ops[r.op + 1]
            IN  op.kind # "REGIND" \/ op.attr = "NONE" =>
                    r.type = IF op.kind = "REGIND" /\ op.reg = sdreg THEN "SD" ELSE get_reloc_type(op.attr)
=============================================================================
