---------------------------- MODULE StarkEncode ----------------------------
(***************************************************************************)
(* eval_operands of the Stark assembler back end                           *)
(* (src/software/vasm/cpus/Stark/cpu.c): the operands of one instruction   *)
(* inserted one after the other into the opcode word and into the constant *)
(* pool of the line.                                                       *)
(***************************************************************************)
EXTENDS StarkOperands, DataItems, SequencesExt

CONSTANTS
    Sources,        \* the source operands that are tried
    OptBranch,      \* the option -opt-branch
    BigEndian       \* the option -big, which is the default

ASSUME SourcesAssumption ==
    \A s \in Sources :
        /\ s.t \in {"reg", "list", "expr", "mem"}
        /\ s.t \in {"expr", "mem"} => s.v \subseteq 0..63
ASSUME OptBranchAssumption == OptBranch \in BOOLEAN
ASSUME BigEndianAssumption == BigEndian \in BOOLEAN

VARIABLES
    row,        \* the operand types of the mnemonic
    i,          \* the operand evaluated next
    word,       \* the bits the operands have set in the instruction
    pool,       \* the sizes of the constants pooled for the instruction
    clr,        \* the number of operands marked OPM_CLR
    isize,      \* words of the instruction
    placed,     \* history: the number each operand put into which pieces
    relocs,     \* history: the relocations left for the operands
    errors      \* history: the operands an error was reported for

vars == <<row, i, word, pool, clr, isize, placed, relocs, errors>>

(* A data directive has one operand type and no mnemonic                   *)
data_items == {<<ppc_data_operand(d)>> : d \in Directives}
IsData == row \in data_items

Init ==
    /\ row \in (Rows \ {<<>>}) \cup data_items
    /\ i = 1
    /\ word = {}
    /\ pool = <<>>
    /\ clr = 0
    /\ isize = 1
    /\ placed = {}
    /\ relocs = {}
    /\ errors = {}

Total(sizes) == FoldLeft(+, 0, sizes)

(* The effect of a sequence of insertions <<type, value, part>>            *)
Insertion(t, v, used) ==
    LET r == InsertCode(powerpc_operands[t], v, Total(used), Len(used))
    IN  [r EXCEPT !.error = @ \/ RangeError(powerpc_operands[t], r.rest, FALSE)]

Hold(part, t, v, r) ==
    [op |-> i, part |-> part, type |-> t, v |-> v, held |-> r.held, pieces |-> r.pieces,
     size |-> r.size, whole |-> r.whole]

Bits(r) == Put(r.held, r.pieces) \cup r.flags
SizeOf(r) == IF r.size = 0 THEN <<>> ELSE <<r.size>>

Mark(p) == clr' = clr + (IF p.clr THEN 1 ELSE 0)

(* The relocations of operand i, and whether they are in error             *)
Type(s, t, p) == GetRelocType(t, Attr(s, p.clr))
Relocs(s, t, p) ==
    {[op |-> i, v |-> p.v, line |-> r.line, at |-> r.at, type |-> r.type] :
        r \in MakeReloc(s, t, Type(s, t, p), p.clr)}
RelocError(s, t, p) ==
    TwoAttrs(s, p.clr) \/ Type(s, t, p) = "error" \/ IllegalReloc(s, t, Type(s, t, p), p.clr)

Errors(wrong) == errors' = IF wrong THEN errors \cup {i} ELSE errors

(* "B<cc>" out of range, replaced by "B<!cc> $+8 ; B" with -opt-branch     *)
TooFar(s, t, p) == OptBranch /\ t = "BD" /\ Type(s, t, p) = "PC" /\ ~FitsSigned(p.v, 13)

(* Registers, immediates and branch targets                                *)
EvalOperand(s) ==
    /\ ~IsData /\ i <= Len(row)
    /\ LET t == row[i]
           p == ParseOperand(s, t)
       IN  /\ "PARENS" \notin powerpc_operands[t].flags
           /\ p.match
           /\ ~TooFar(s, t, p)
           /\ LET r == Insertion(t, p.v, pool)
              IN  /\ word' = (IF r.whole THEN {2} ELSE word \cup Bits(r))
                  /\ pool' = pool \o SizeOf(r)
                  /\ placed' = placed \cup {Hold("self", t, p.v, r)}
                  /\ Errors(r.error \/ RelocError(s, t, p))
           /\ relocs' = relocs \cup Relocs(s, t, p)
           /\ Mark(p)
           /\ i' = i + 1
           /\ UNCHANGED <<row, isize>>

(* The second word starts from the opcode of B and takes the target as LI, *)
(* four bytes nearer.                                                      *)
EvalFarBranch(s) ==
    /\ ~IsData /\ i <= Len(row)
    /\ LET t == row[i]
           p == ParseOperand(s, t)
       IN  /\ p.match
           /\ TooFar(s, t, p)
           /\ LET v == Neg(Neg(p.v) \cup {2})     \* val - 4 for val with bit 2 clear
                  r == Insertion("LI", v, pool)
              IN  /\ {0, 1, 2} \cap Neg(p.v) = {}
                  /\ word' = Bits(r)
                  /\ placed' = {Hold("self", "LI", v, r)}
                  /\ Errors(r.error \/ RelocError(s, t, p))
           /\ relocs' = relocs \cup Relocs(s, t, p)
           /\ Mark(p)
           /\ isize' = 2
           /\ i' = i + 1
           /\ UNCHANGED <<row, pool>>

(* d[Rn] and d[Rm+Rn*s]: the displacement, then the base register, then an *)
(* index register other than r0.  The scale is parsed and not encoded.     *)
EvalMemory(s) ==
    /\ ~IsData /\ i <= Len(row)
    /\ LET t == row[i]
           p == ParseOperand(s, t)
           base == IF t = "DBRS" THEN "BRS" ELSE "RA"
       IN  /\ "PARENS" \in powerpc_operands[t].flags
           /\ p.match
           /\ LET d == Insertion(t, p.v, pool)
                  b == Insertion(base, p.base, pool \o SizeOf(d))
                  x == Insertion("RB", p.ndx, pool \o SizeOf(d))
              IN  /\ word' = word \cup Bits(d) \cup Bits(b) \cup Bits(x)
                  /\ pool' = pool \o SizeOf(d)
                  /\ placed' = placed
                        \cup {Hold("disp", t, p.v, d), Hold("base", base, p.base, b)}
                        \cup (IF p.ndx = {} THEN {} ELSE {Hold("ndx", "RB", p.ndx, x)})
                  /\ Errors(d.error \/ b.error \/ x.error \/ RelocError(s, t, p))
                  /\ LET all == relocs \cup Relocs(s, t, p)
                     IN  relocs' = IF Attr(s, p.clr) = "NONE" THEN fix_reloctype(all, p.base) ELSE all
           /\ Mark(p)
           /\ i' = i + 1
           /\ UNCHANGED <<row, isize>>

(* eval_data.  parse_operand looks a data operand up in powerpc_operands,  *)
(* behind its end: the value may be marked OPM_CLR by either test.         *)
StrayMark(s) ==
    CASE s.form = "num" -> {~FitsUnsigned(s.v, 14), ~FitsSigned(s.v, 14)}
      [] s.form \in {"sym", "ext"} -> BOOLEAN
      [] OTHER -> {FALSE}

EvalData(s) ==
    /\ IsData /\ i = 1
    /\ s.t = "expr"
    /\ LET form == IF row[1] \in {"F32", "F64"} /\ s.form = "num" THEN "flt" ELSE s.form
           at == StarkDataPieces(form, BigEndian, RelocBits[row[1]])
       IN  /\ word' = Put(s.v, at)
           /\ placed' = {Hold("self", row[1], s.v, InField(s.v, at))}
    /\ clr' \in {IF m THEN 1 ELSE 0 : m \in StrayMark(s)}
    /\ i' = 2
    /\ UNCHANGED <<row, pool, isize, relocs, errors>>

Next == \E s \in Sources : EvalOperand(s) \/ EvalFarBranch(s) \/ EvalMemory(s) \/ EvalData(s)

Spec == Init /\ [][Next]_vars

Done == i > Len(row)

(***************************************************************************)
(* Properties                                                              *)
(***************************************************************************)
(* Types; an instruction never brings more than two constants.             *)
TypeOK ==
    /\ row \in Rows \cup data_items
    /\ i \in 1..Len(row) + 1
    /\ word \subseteq 0..(IF IsData THEN 63 ELSE 31)
    /\ pool \in {<<>>} \cup [{1} -> 1..2] \cup [{1, 2} -> 1..2]
    /\ clr \in 0..Len(row)
    /\ isize \in 1..2
    /\ errors \subseteq 1..Len(row)

(* Rows whose operands are given the same bits: the two SH6 of ext, D over *)
(* RB and RC in cmpswap, the immediate and the address of a store          *)
(* immediate, MD over the second register of movemd and xchg, the place of *)
(* the immediate of atom under its count.                                  *)
SharedRows ==
    { <<"RS","RA","SH6","SH6">>, <<"RS","RB","RC","D">>, <<"SI","D">>, <<"SI","SI">>,
      <<"SI","SCNDX">>, <<"UI","M12">>, <<"RS","RA","UI9","EXFMT">>,
      <<"MOVRD","MOVRS","MD">>, <<"MVRD","MVRS","MD">> }

(* In every other row the fields of the operands are apart: whatever was   *)
(* inserted before and after it, each operand can be read back from the    *)
(* word.  (insert_ui gives up the word itself for a small constant.)       *)
OperandsReadBack ==
    Done /\ errors = {} /\ row \notin SharedRows /\ (\A p \in placed : ~p.whole) =>
        \A p \in placed : Get(word, p.pieces) = p.held \cap Carried(p.pieces)

SignExtend(c, top) == IF top \in c THEN c \cup top..63 ELSE c
Kept(p) ==
    LET c == p.v \cap Carried(p.pieces)
    IN  \/ p.v = c
        \/ \E top \in Carried(p.pieces) :
               /\ \A b \in Carried(p.pieces) : b <= top
               /\ p.v = SignExtend(c, top)

(* Register fields keep the low five or three bits of a register number,   *)
(* which tells registers of one class apart.                               *)
IsRegisterField(t) == powerpc_operands[t].flags \cap {"GPR", "FPR", "CR", "BR", "REGLIST"} # {}

(* Numbers that are cut off and not reported: insert_bd drops two bits of a *)
(* target that is no multiple of four (insert_li reports it), the fields   *)
(* of insert_mvrd and insert_mvrs are one bit short of the numbers the     *)
(* functions accept, and CSRNO has 12 bits and is checked against 14.      *)
CutSilently(t, v) ==
    \/ t = "BD" /\ v \cap {0, 1} # {}
    \/ t \in {"MVRD", "MVRS"} /\ 7 \in v
    \/ t = "CSRNO" /\ ~FitsUnsigned(v, 12)

(* These apart, no number is cut off silently: one that is neither kept    *)
(* whole in its field nor pooled was reported as an error.  A data item    *)
(* takes the low bits of its value and leaves it to the core to complain.  *)
LossIsReported ==
    ~IsData => \A p \in placed :
        \/ p.size > 0 \/ p.op \in errors \/ p.whole
        \/ IsRegisterField(p.type) \/ CutSilently(p.type, p.v)
        \/ p.type = "NSI" /\ Kept([p EXCEPT !.v = Neg(p.v)])
        \/ p.type # "NSI" /\ Kept(p)

(* The relocations of a conditional branch to another file name bits of    *)
(* the address where the branch has them.  Left out are the ones that are  *)
(* replaced by two branches, whose relocations stay with the first.        *)
RelocsPatchTheField ==
    Done /\ errors = {} /\ isize = 1 =>
        \A r \in relocs, p \in placed :
            p.op = r.op /\ p.type = "BD" /\ p.size = 0
                => Get(word, {r.at}) = r.v \cap Carried({r.at})
=============================================================================
