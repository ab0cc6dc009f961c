---------------------------- MODULE QuplsRelocs ----------------------------
(***************************************************************************)
(* What the Qupls4 back end and the one for the graphics coprocessor have  *)
(* in common about the type of a relocation: the attributes of operands,   *)
(* and the base register of the small data area.                           *)
(***************************************************************************)
EXTENDS Integers, Sequences, AsmBits
LOCAL INSTANCE SequencesExt

CONSTANT SdDirectives   \* the numbers given by .sdreg, in the order of the file

ASSUME SdDirectivesAssumption == SdDirectives \in Seq(Int)

(* The attribute a word stands for: three mean the small data area         *)
Attribute(word) ==
    CASE word = "got" -> "GOT"
      [] word = "plt" -> "PLT"
      [] word \in {"sdax", "sdarx", "sdarel"} -> "SD"
      [] word = "sectoff" -> "SECOFF"
      [] word = "local" -> "LOCALPC"
      [] word = "globdat" -> "GLOBDAT"
      [] OTHER -> "NONE"

(* A number that is no register is reported and changes nothing            *)
read_sdreg(def, n) == IF n \in 0..63 THEN n ELSE def

(* Directives take effect while the file is parsed, before any instruction *)
(* is emitted: the last one holds for all of them.                         *)
sdreg == BitsOf(FoldLeft(read_sdreg, 29, SdDirectives))

(* make_reloc compares op->basereg, which parse_operand leaves as it was   *)
(* allocated in an immediate operand.                                      *)
BaseIsSdreg(op) == IF op.kind = "IMM" THEN BOOLEAN ELSE {op.reg = sdreg}

(* A mutant: an operand through any base register                          *)
FixedForAny(op, relocs) ==
    IF op.kind = "REGIND" /\ op.attr = "NONE" THEN {[r EXCEPT !.type = "SD"] : r \in relocs} ELSE relocs

(* After an operand through the base register of the small data area, all  *)
(* the relocations of the instruction so far are of that type.             *)
fix_reloctype(op, relocs) ==
    IF op.kind = "REGIND" /\ op.attr = "NONE" /\ op.reg = sdreg
    THEN {[r EXCEPT !.type = "SD"] : r \in relocs} ELSE relocs
=============================================================================
