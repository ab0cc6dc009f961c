------------------------ MODULE Qupls4EncodeProofs ------------------------
(***************************************************************************)
(* Proofs about Qupls4Encode, for every set of source operands and every   *)
(* place of the instruction.                                               *)
(*   - the rows of mnemonics[]: every row has one of a few shapes, and     *)
(*     which bits it fixes follows from its format;                        *)
(*   - the operands, and the steps: one operand is encoded or skipped,     *)
(*     between the operands the second call starts;                        *)
(*   - for each property what it needs of the state: the types of the      *)
(*     relocations, the opcode number, the bits of the word and the        *)
(*     number of postfixes;                                                *)
(*   - the inductive invariant, and the properties as theorems.            *)
(***************************************************************************)
EXTENDS Qupls4Encode, BaseLemmas, TLAPS


(* The rows.  What a row takes: the kinds of operand that one of its slots *)
(* lets through.  No operand is parsed to a vector register or to a number *)
(* of seven bits, and an omitted register is register 0.                   *)
Kinds == {"REG", "VMREG", "LK", "PREDSTR", "IMM", "REGIND", "SCNDX", "IND_SCNDX"}
Admits(t) == IF t = Nx THEN {"REG"} ELSE t \cap Kinds

Takes == {Rg, Im, RgIm, Vr, VrRg, VrRgIm, Ind, Scn, ISc, Lk, Ps, Vs, Vm, Nx}
R == {"REG"}
I == {"IMM"}
RI == {"REG", "IMM"}

(* The slots of the rows of a format                                       *)
ShapeOf(f) ==
  CASE f \in {"PADI", "RTS", "VMASK"} -> <<>>
    [] f \in {"R1", "MV"} -> <<R, R>>
    [] f \in {"R2", "R4", "SH"} -> <<R, R, R, R>>
    [] f = "R2S" -> <<R, R, R>>
    [] f \in {"R5", "R6", "R7"} -> <<R, R, R, R, R, R, R>>
    [] f \in {"ATOM", "B2", "BITS16", "BITS40", "J4", "PFX", "SYNC"} -> <<I>>
    [] f \in {"INT", "REP"} -> <<I, I>>
    [] f = "R3" -> <<R, R, RI, RI, {"VMREG"}>>
    [] f = "R3RR" -> <<R, R, RI, R>>
    [] f \in {"RI", "RIB", "RIL"} -> <<R, R, I>>
    [] f \in {"RIA", "RIV"} -> <<R, I, R>>
    [] f \in {"R3RI", "SI"} -> <<R, R, RI, I>>
    [] f \in {"BFR3II", "RII"} -> <<R, R, I, I>>
    [] f \in {"BI", "RIS"} -> <<R, I, I>>
    [] f \in {"BZ", "RISH", "RISM"} -> <<R, I>>
    [] f = "B" -> <<RI, RI, I>>
    [] f = "BL2" -> <<{"REG", "LK"}, I>>
    [] f = "J2" -> <<{"IMM", "REGIND", "REG"}>>
    [] f = "JL2" -> <<{"LK"}, {"IMM", "REGIND"}>>
    [] f = "JL4" -> <<{"LK"}, I>>
    [] f = "JSCNDX" -> <<{"LK"}, {"IND_SCNDX"}>>
    [] f = "REGIND" -> <<RI, {"REGIND"}>>
    [] f = "SCNDX" -> <<RI, {"SCNDX"}>>
    [] f = "DIRECT" -> <<RI, I>>
    [] f = "PRED" -> <<R, {"REG", "PREDSTR"}, {"PREDSTR"}>>
    [] f = "REX" -> <<I, R>>
    [] f \in {"ENTER", "LEAVE"} -> <<RI, RI, R, I>>
    [] f = "RTDR" -> <<R, RI, RI, R>>

Formats ==
  {"PADI", "RTS", "VMASK", "R1", "MV", "R2", "R4", "SH", "R2S", "R5", "R6", "R7", "ATOM", "B2",
   "BITS16", "BITS40", "J4", "PFX", "SYNC", "INT", "REP", "R3", "R3RR", "RI", "RIB", "RIL",
   "RIA", "RIV", "R3RI", "SI", "BFR3II", "RII", "BI", "RIS", "BZ", "RISH", "RISM", "B", "BL2",
   "J2", "JL2", "JL4", "JSCNDX", "REGIND", "SCNDX", "DIRECT", "PRED", "REX", "ENTER", "LEAVE",
   "RTDR"}

May(f, k) == IF k \in DOMAIN ShapeOf(f) THEN ShapeOf(f)[k] ELSE {}

Slots(f, o) == o \in Seq(Takes) /\ \A k \in 1..Len(o) : Admits(o[k]) \subseteq May(f, k)

(* A number stands in the third slot of R3RR only when it is the last; a   *)
(* predicate ends its row; a store writes a number or a register.          *)
Extra(f, o) ==
  /\ f = "R3RR" => Len(o) \in {1, 3} \/ (Len(o) = 4 /\ Admits(o[3]) \subseteq R)
  /\ f = "PRED" => Len(o) = 3 \/ (Len(o) = 2 /\ Admits(o[2]) \subseteq {"PREDSTR"})
  /\ f = "SCNDX" => Len(o) = 2 /\ (o[1] = Im \/ Admits(o[1]) \subseteq R)

(* The fields that rows fix, by where they lie: behind the registers, over *)
(* the third and over the fourth                                           *)
Behind == {"FUNC5", "OP3", "OP4", "MS3", "FMT3", "R2FUNC", "R3FUNC", "BFFUNC", "SHFUNC"}
OverThird == {"R1FUNC", "FLT1", "RB", "BFMB"}
OverFourth == {"RS3", "NRB", "BFME"}
OfRegisters == {"R1", "R2", "R2S", "R3", "R4", "MV", "SH", "RIA", "RIB"}
Bare == {"R3RR", "BITS16", "BITS40", "PFX", "SYNC", "RIV", "REX"}

Fixes(f, fixed, tags, n) ==
  /\ f \in OfRegisters /\ "IM2" \notin fixed =>
       /\ fixed \subseteq Behind \cup OverThird \cup OverFourth
       /\ fixed \cap OverThird # {} => n <= 2
       /\ fixed \cap OverFourth # {} => n <= 3
  /\ f \in Bare => fixed = {}
  /\ f = "RI" => fixed \subseteq {"FUNC3", "IPR"}
  /\ f \in {"BFR3II", "RII"} => "FUNC3" \in fixed
  /\ f \in {"DIRECT", "REGIND"} => fixed \subseteq {"LSSIZE"}
  /\ f = "SCNDX" => fixed \subseteq {"LSFUNC", "LSSIZE", "S"}
  /\ f = "B" => fixed \subseteq {"CM", "COND", "BFN", "INCDEC"}
  /\ f = "BI" => fixed \subseteq {"BFN"}
  /\ f = "BZ" => fixed \subseteq {"BFN", "BRMS", "COND"}
  /\ f = "ATOM" => fixed \subseteq {"FMT2"}
  /\ f = "J4" => fixed \subseteq {"RD"}
  /\ f = "PRED" /\ n = 2 => fixed \subseteq {"COND", "R2FUNC"}
  /\ "BZ" \in tags <=> f = "BZ"
  /\ "INTI" \in tags => f = "RI"

Lengths == {0, 2, 3, 4, 6, 8, 64}

GoodRow(r) ==
  /\ r.f \in Formats
  /\ r.len \in Lengths
  /\ r.f = "PADI" => r.len = 0
  /\ Slots(r.f, r.ops)
  /\ Extra(r.f, r.ops)
  /\ Fixes(r.f, r.fixed, r.tags, Len(r.ops))

LEMMA AdmittedKinds ==
  /\ Admits(Rg) = {"REG"} /\ Admits(Im) = {"IMM"} /\ Admits(RgIm) = {"REG", "IMM"}
  /\ Admits(Vr) = {} /\ Admits(VrRg) = {"REG"} /\ Admits(VrRgIm) = {"REG"}
  /\ Admits(Ind) = {"REGIND"} /\ Admits(Scn) = {"SCNDX"} /\ Admits(ISc) = {"IND_SCNDX"}
  /\ Admits(Lk) = {"LK"} /\ Admits(Ps) = {"PREDSTR"} /\ Admits(Vs) = {} /\ Admits(Vm) = {"VMREG"}
  /\ Admits(Nx) = {"REG"}
<1>0. /\ Rg # Nx /\ Im # Nx /\ RgIm # Nx /\ Vr # Nx /\ VrRg # Nx /\ VrRgIm # Nx /\ Ind # Nx
      /\ Scn # Nx /\ ISc # Nx /\ Lk # Nx /\ Ps # Nx /\ Vs # Nx /\ Vm # Nx
  BY DEF Rg, Im, RgIm, Vr, VrRg, VrRgIm, Ind, Scn, ISc, Lk, Ps, Vs, Vm, Nx
<1>1. Admits(Rg) = {"REG"} /\ Admits(Im) = {"IMM"} /\ Admits(RgIm) = {"REG", "IMM"}
  BY <1>0 DEF Admits, Kinds, Rg, Im, RgIm
<1>2. Admits(Vr) = {} /\ Admits(VrRg) = {"REG"} /\ Admits(VrRgIm) = {"REG"}
  BY <1>0 DEF Admits, Kinds, Vr, VrRg, VrRgIm
<1>3. Admits(Ind) = {"REGIND"} /\ Admits(Scn) = {"SCNDX"} /\ Admits(ISc) = {"IND_SCNDX"}
  BY <1>0 DEF Admits, Kinds, Ind, Scn, ISc
<1>4. Admits(Lk) = {"LK"} /\ Admits(Ps) = {"PREDSTR"} /\ Admits(Vs) = {} /\ Admits(Vm) = {"VMREG"}
  BY <1>0 DEF Admits, Kinds, Lk, Ps, Vs, Vm
<1>5. Admits(Nx) = {"REG"}
  BY DEF Admits
<1> QED
  BY <1>1, <1>2, <1>3, <1>4, <1>5

LEMMA AllTakes ==
  /\ Rg \in Takes /\ Im \in Takes /\ RgIm \in Takes /\ Vr \in Takes /\ VrRg \in Takes
  /\ VrRgIm \in Takes /\ Ind \in Takes /\ Scn \in Takes /\ ISc \in Takes /\ Lk \in Takes
  /\ Ps \in Takes /\ Vs \in Takes /\ Vm \in Takes /\ Nx \in Takes
  BY DEF Takes

(* The slots of a row with so many operands                                *)
LEMMA NoSlots == \A f : Slots(f, <<>>)
  BY DEF Slots

LEMMA OneSlot ==
  ASSUME NEW f, NEW a \in Takes,
         Admits(a) \subseteq May(f, 1)
  PROVE  Slots(f, <<a>>)
<1> DEFINE o == <<a>>
<1>1. o \in Seq(Takes) /\ Len(o) = 1 /\ o[1] = a
  OBVIOUS
<1> HIDE DEF o
<1>2. \A k \in 1..Len(o) : k = 1
  BY <1>1
<1>3. Slots(f, o)
  BY <1>1, <1>2 DEF Slots
<1> QED
  BY <1>3 DEF o

LEMMA TwoSlots ==
  ASSUME NEW f, NEW a \in Takes, NEW b \in Takes,
         Admits(a) \subseteq May(f, 1), Admits(b) \subseteq May(f, 2)
  PROVE  Slots(f, <<a, b>>)
<1> DEFINE o == <<a, b>>
<1>1. o \in Seq(Takes) /\ Len(o) = 2 /\ o[1] = a /\ o[2] = b
  OBVIOUS
<1> HIDE DEF o
<1>2. \A k \in 1..Len(o) : k = 1 \/ k = 2
  BY <1>1
<1>3. Slots(f, o)
  BY <1>1, <1>2 DEF Slots
<1> QED
  BY <1>3 DEF o

LEMMA ThreeSlots ==
  ASSUME NEW f, NEW a \in Takes, NEW b \in Takes, NEW c \in Takes,
         Admits(a) \subseteq May(f, 1), Admits(b) \subseteq May(f, 2),
         Admits(c) \subseteq May(f, 3)
  PROVE  Slots(f, <<a, b, c>>)
<1> DEFINE o == <<a, b, c>>
<1>1. o \in Seq(Takes) /\ Len(o) = 3 /\ o[1] = a /\ o[2] = b /\ o[3] = c
  OBVIOUS
<1> HIDE DEF o
<1>2. \A k \in 1..Len(o) : k = 1 \/ k = 2 \/ k = 3
  BY <1>1
<1>3. Slots(f, o)
  BY <1>1, <1>2 DEF Slots
<1> QED
  BY <1>3 DEF o

LEMMA FourSlots ==
  ASSUME NEW f, NEW a \in Takes, NEW b \in Takes, NEW c \in Takes, NEW d \in Takes,
         Admits(a) \subseteq May(f, 1), Admits(b) \subseteq May(f, 2),
         Admits(c) \subseteq May(f, 3), Admits(d) \subseteq May(f, 4)
  PROVE  Slots(f, <<a, b, c, d>>)
<1> DEFINE o == <<a, b, c, d>>
<1>1. o \in Seq(Takes) /\ Len(o) = 4 /\ o[1] = a /\ o[2] = b /\ o[3] = c /\ o[4] = d
  OBVIOUS
<1> HIDE DEF o
<1>2. \A k \in 1..Len(o) : k = 1 \/ k = 2 \/ k = 3 \/ k = 4
  BY <1>1
<1>3. Slots(f, o)
  BY <1>1, <1>2 DEF Slots
<1> QED
  BY <1>3 DEF o

LEMMA FiveSlots ==
  ASSUME NEW f, NEW a \in Takes, NEW b \in Takes, NEW c \in Takes, NEW d \in Takes, NEW e \in Takes,
         Admits(a) \subseteq May(f, 1), Admits(b) \subseteq May(f, 2),
         Admits(c) \subseteq May(f, 3), Admits(d) \subseteq May(f, 4),
         Admits(e) \subseteq May(f, 5)
  PROVE  Slots(f, <<a, b, c, d, e>>)
<1> DEFINE o == <<a, b, c, d, e>>
<1>1. o \in Seq(Takes) /\ Len(o) = 5 /\ o[1] = a /\ o[2] = b /\ o[3] = c /\ o[4] = d /\ o[5] = e
  OBVIOUS
<1> HIDE DEF o
<1>2. \A k \in 1..Len(o) : k = 1 \/ k = 2 \/ k = 3 \/ k = 4 \/ k = 5
  BY <1>1
<1>3. Slots(f, o)
  BY <1>1, <1>2 DEF Slots
<1> QED
  BY <1>3 DEF o

LEMMA SixSlots ==
  ASSUME NEW f, NEW a \in Takes, NEW b \in Takes, NEW c \in Takes, NEW d \in Takes, NEW e \in Takes, NEW g \in Takes,
         Admits(a) \subseteq May(f, 1), Admits(b) \subseteq May(f, 2),
         Admits(c) \subseteq May(f, 3), Admits(d) \subseteq May(f, 4),
         Admits(e) \subseteq May(f, 5), Admits(g) \subseteq May(f, 6)
  PROVE  Slots(f, <<a, b, c, d, e, g>>)
<1> DEFINE o == <<a, b, c, d, e, g>>
<1>1. o \in Seq(Takes) /\ Len(o) = 6 /\ o[1] = a /\ o[2] = b /\ o[3] = c /\ o[4] = d /\ o[5] = e /\ o[6] = g
  OBVIOUS
<1> HIDE DEF o
<1>2. \A k \in 1..Len(o) : k = 1 \/ k = 2 \/ k = 3 \/ k = 4 \/ k = 5 \/ k = 6
  BY <1>1
<1>3. Slots(f, o)
  BY <1>1, <1>2 DEF Slots
<1> QED
  BY <1>3 DEF o

LEMMA SevenSlots ==
  ASSUME NEW f, NEW a \in Takes, NEW b \in Takes, NEW c \in Takes, NEW d \in Takes, NEW e \in Takes, NEW g \in Takes, NEW h \in Takes,
         Admits(a) \subseteq May(f, 1), Admits(b) \subseteq May(f, 2),
         Admits(c) \subseteq May(f, 3), Admits(d) \subseteq May(f, 4),
         Admits(e) \subseteq May(f, 5), Admits(g) \subseteq May(f, 6),
         Admits(h) \subseteq May(f, 7)
  PROVE  Slots(f, <<a, b, c, d, e, g, h>>)
<1> DEFINE o == <<a, b, c, d, e, g, h>>
<1>1. o \in Seq(Takes) /\ Len(o) = 7 /\ o[1] = a /\ o[2] = b /\ o[3] = c /\ o[4] = d /\ o[5] = e /\ o[6] = g /\ o[7] = h
  OBVIOUS
<1> HIDE DEF o
<1>2. \A k \in 1..Len(o) : k = 1 \/ k = 2 \/ k = 3 \/ k = 4 \/ k = 5 \/ k = 6 \/ k = 7
  BY <1>1
<1>3. Slots(f, o)
  BY <1>1, <1>2 DEF Slots
<1> QED
  BY <1>3 DEF o

(* What the slots of a format may have                                     *)
LEMMA MayHave ==
  ASSUME NEW f
  PROVE  /\ \A a : ShapeOf(f) = <<a>> => May(f, 1) = a
         /\ \A a, b : ShapeOf(f) = <<a, b>> => May(f, 1) = a /\ May(f, 2) = b
         /\ \A a, b, c : ShapeOf(f) = <<a, b, c>> => May(f, 1) = a /\ May(f, 2) = b /\ May(f, 3) = c
         /\ \A a, b, c, d : ShapeOf(f) = <<a, b, c, d>> =>
               May(f, 1) = a /\ May(f, 2) = b /\ May(f, 3) = c /\ May(f, 4) = d
         /\ \A a, b, c, d, e : ShapeOf(f) = <<a, b, c, d, e>> =>
               May(f, 1) = a /\ May(f, 2) = b /\ May(f, 3) = c /\ May(f, 4) = d /\ May(f, 5) = e
         /\ \A a, b, c, d, e, g, h : ShapeOf(f) = <<a, b, c, d, e, g, h>> =>
               May(f, 1) = a /\ May(f, 2) = b /\ May(f, 3) = c /\ May(f, 4) = d /\ May(f, 5) = e
               /\ May(f, 6) = g /\ May(f, 7) = h
<1>1. \A a : ShapeOf(f) = <<a>> => May(f, 1) = a
  BY DEF May
<1>2. \A a, b : ShapeOf(f) = <<a, b>> => May(f, 1) = a /\ May(f, 2) = b
  BY DEF May
<1>3. \A a, b, c : ShapeOf(f) = <<a, b, c>> => May(f, 1) = a /\ May(f, 2) = b /\ May(f, 3) = c
  BY DEF May
<1>4. \A a, b, c, d : ShapeOf(f) = <<a, b, c, d>> =>
        May(f, 1) = a /\ May(f, 2) = b /\ May(f, 3) = c /\ May(f, 4) = d
  BY DEF May
<1>5. \A a, b, c, d, e : ShapeOf(f) = <<a, b, c, d, e>> =>
        May(f, 1) = a /\ May(f, 2) = b /\ May(f, 3) = c /\ May(f, 4) = d /\ May(f, 5) = e
  BY DEF May
<1>6. \A a, b, c, d, e, g, h : ShapeOf(f) = <<a, b, c, d, e, g, h>> =>
        May(f, 1) = a /\ May(f, 2) = b /\ May(f, 3) = c /\ May(f, 4) = d /\ May(f, 5) = e
        /\ May(f, 6) = g /\ May(f, 7) = h
  BY DEF May
<1> QED
  BY <1>1, <1>2, <1>3, <1>4, <1>5, <1>6

(* The shapes, and what their slots may have                               *)
LEMMA SlotsR1 ==
  ASSUME NEW f \in {"R1", "MV"}
  PROVE  May(f, 1) = R /\ May(f, 2) = R
<1>1. ShapeOf(f) = <<R, R>>
  BY DEF ShapeOf
<1> QED
  BY <1>1, MayHave

LEMMA SlotsR2 ==
  ASSUME NEW f \in {"R2", "R4", "SH"}
  PROVE  May(f, 1) = R /\ May(f, 2) = R /\ May(f, 3) = R /\ May(f, 4) = R
<1>1. ShapeOf(f) = <<R, R, R, R>>
  BY DEF ShapeOf
<1> QED
  BY <1>1, MayHave

LEMMA SlotsR2S ==
  ASSUME NEW f \in {"R2S"}
  PROVE  May(f, 1) = R /\ May(f, 2) = R /\ May(f, 3) = R
<1>1. ShapeOf(f) = <<R, R, R>>
  BY DEF ShapeOf
<1> QED
  BY <1>1, MayHave

LEMMA SlotsR5 ==
  ASSUME NEW f \in {"R5", "R6", "R7"}
  PROVE  May(f, 1) = R /\ May(f, 2) = R /\ May(f, 3) = R /\ May(f, 4) = R /\ May(f, 5) = R /\
         May(f, 6) = R /\ May(f, 7) = R
<1>1. ShapeOf(f) = <<R, R, R, R, R, R, R>>
  BY DEF ShapeOf
<1> QED
  BY <1>1, MayHave

LEMMA SlotsATOM ==
  ASSUME NEW f \in {"ATOM", "B2", "BITS16", "BITS40", "J4", "PFX", "SYNC"}
  PROVE  May(f, 1) = I
<1>1. ShapeOf(f) = <<I>>
  BY DEF ShapeOf
<1> QED
  BY <1>1, MayHave

LEMMA SlotsINT ==
  ASSUME NEW f \in {"INT", "REP"}
  PROVE  May(f, 1) = I /\ May(f, 2) = I
<1>1. ShapeOf(f) = <<I, I>>
  BY DEF ShapeOf
<1> QED
  BY <1>1, MayHave

LEMMA SlotsR3 ==
  ASSUME NEW f \in {"R3"}
  PROVE  May(f, 1) = R /\ May(f, 2) = R /\ May(f, 3) = RI /\ May(f, 4) = RI /\
         May(f, 5) = {"VMREG"}
<1>1. ShapeOf(f) = <<R, R, RI, RI, {"VMREG"}>>
  BY DEF ShapeOf
<1> QED
  BY <1>1, MayHave

LEMMA SlotsR3RR ==
  ASSUME NEW f \in {"R3RR"}
  PROVE  May(f, 1) = R /\ May(f, 2) = R /\ May(f, 3) = RI /\ May(f, 4) = R
<1>1. ShapeOf(f) = <<R, R, RI, R>>
  BY DEF ShapeOf
<1> QED
  BY <1>1, MayHave

LEMMA SlotsRI ==
  ASSUME NEW f \in {"RI", "RIB", "RIL"}
  PROVE  May(f, 1) = R /\ May(f, 2) = R /\ May(f, 3) = I
<1>1. ShapeOf(f) = <<R, R, I>>
  BY DEF ShapeOf
<1> QED
  BY <1>1, MayHave

LEMMA SlotsRIA ==
  ASSUME NEW f \in {"RIA", "RIV"}
  PROVE  May(f, 1) = R /\ May(f, 2) = I /\ May(f, 3) = R
<1>1. ShapeOf(f) = <<R, I, R>>
  BY DEF ShapeOf
<1> QED
  BY <1>1, MayHave

LEMMA SlotsR3RI ==
  ASSUME NEW f \in {"R3RI", "SI"}
  PROVE  May(f, 1) = R /\ May(f, 2) = R /\ May(f, 3) = RI /\ May(f, 4) = I
<1>1. ShapeOf(f) = <<R, R, RI, I>>
  BY DEF ShapeOf
<1> QED
  BY <1>1, MayHave

LEMMA SlotsBFR3II ==
  ASSUME NEW f \in {"BFR3II", "RII"}
  PROVE  May(f, 1) = R /\ May(f, 2) = R /\ May(f, 3) = I /\ May(f, 4) = I
<1>1. ShapeOf(f) = <<R, R, I, I>>
  BY DEF ShapeOf
<1> QED
  BY <1>1, MayHave

LEMMA SlotsBI ==
  ASSUME NEW f \in {"BI", "RIS"}
  PROVE  May(f, 1) = R /\ May(f, 2) = I /\ May(f, 3) = I
<1>1. ShapeOf(f) = <<R, I, I>>
  BY DEF ShapeOf
<1> QED
  BY <1>1, MayHave

LEMMA SlotsBZ ==
  ASSUME NEW f \in {"BZ", "RISH", "RISM"}
  PROVE  May(f, 1) = R /\ May(f, 2) = I
<1>1. ShapeOf(f) = <<R, I>>
  BY DEF ShapeOf
<1> QED
  BY <1>1, MayHave

LEMMA SlotsB ==
  ASSUME NEW f \in {"B"}
  PROVE  May(f, 1) = RI /\ May(f, 2) = RI /\ May(f, 3) = I
<1>1. ShapeOf(f) = <<RI, RI, I>>
  BY DEF ShapeOf
<1> QED
  BY <1>1, MayHave

LEMMA SlotsBL2 ==
  ASSUME NEW f \in {"BL2"}
  PROVE  May(f, 1) = {"REG", "LK"} /\ May(f, 2) = I
<1>1. ShapeOf(f) = <<{"REG", "LK"}, I>>
  BY DEF ShapeOf
<1> QED
  BY <1>1, MayHave

LEMMA SlotsJ2 ==
  ASSUME NEW f \in {"J2"}
  PROVE  May(f, 1) = {"IMM", "REGIND", "REG"}
<1>1. ShapeOf(f) = <<{"IMM", "REGIND", "REG"}>>
  BY DEF ShapeOf
<1> QED
  BY <1>1, MayHave

LEMMA SlotsJL2 ==
  ASSUME NEW f \in {"JL2"}
  PROVE  May(f, 1) = {"LK"} /\ May(f, 2) = {"IMM", "REGIND"}
<1>1. ShapeOf(f) = <<{"LK"}, {"IMM", "REGIND"}>>
  BY DEF ShapeOf
<1> QED
  BY <1>1, MayHave

LEMMA SlotsJL4 ==
  ASSUME NEW f \in {"JL4"}
  PROVE  May(f, 1) = {"LK"} /\ May(f, 2) = I
<1>1. ShapeOf(f) = <<{"LK"}, I>>
  BY DEF ShapeOf
<1> QED
  BY <1>1, MayHave

LEMMA SlotsJSCNDX ==
  ASSUME NEW f \in {"JSCNDX"}
  PROVE  May(f, 1) = {"LK"} /\ May(f, 2) = {"IND_SCNDX"}
<1>1. ShapeOf(f) = <<{"LK"}, {"IND_SCNDX"}>>
  BY DEF ShapeOf
<1> QED
  BY <1>1, MayHave

LEMMA SlotsREGIND ==
  ASSUME NEW f \in {"REGIND"}
  PROVE  May(f, 1) = RI /\ May(f, 2) = {"REGIND"}
<1>1. ShapeOf(f) = <<RI, {"REGIND"}>>
  BY DEF ShapeOf
<1> QED
  BY <1>1, MayHave

LEMMA SlotsSCNDX ==
  ASSUME NEW f \in {"SCNDX"}
  PROVE  May(f, 1) = RI /\ May(f, 2) = {"SCNDX"}
<1>1. ShapeOf(f) = <<RI, {"SCNDX"}>>
  BY DEF ShapeOf
<1> QED
  BY <1>1, MayHave

LEMMA SlotsDIRECT ==
  ASSUME NEW f \in {"DIRECT"}
  PROVE  May(f, 1) = RI /\ May(f, 2) = I
<1>1. ShapeOf(f) = <<RI, I>>
  BY DEF ShapeOf
<1> QED
  BY <1>1, MayHave

LEMMA SlotsPRED ==
  ASSUME NEW f \in {"PRED"}
  PROVE  May(f, 1) = R /\ May(f, 2) = {"REG", "PREDSTR"} /\ May(f, 3) = {"PREDSTR"}
<1>1. ShapeOf(f) = <<R, {"REG", "PREDSTR"}, {"PREDSTR"}>>
  BY DEF ShapeOf
<1> QED
  BY <1>1, MayHave

LEMMA SlotsREX ==
  ASSUME NEW f \in {"REX"}
  PROVE  May(f, 1) = I /\ May(f, 2) = R
<1>1. ShapeOf(f) = <<I, R>>
  BY DEF ShapeOf
<1> QED
  BY <1>1, MayHave

LEMMA SlotsENTER ==
  ASSUME NEW f \in {"ENTER", "LEAVE"}
  PROVE  May(f, 1) = RI /\ May(f, 2) = RI /\ May(f, 3) = R /\ May(f, 4) = I
<1>1. ShapeOf(f) = <<RI, RI, R, I>>
  BY DEF ShapeOf
<1> QED
  BY <1>1, MayHave

LEMMA SlotsRTDR ==
  ASSUME NEW f \in {"RTDR"}
  PROVE  May(f, 1) = R /\ May(f, 2) = RI /\ May(f, 3) = RI /\ May(f, 4) = R
<1>1. ShapeOf(f) = <<R, RI, RI, R>>
  BY DEF ShapeOf
<1> QED
  BY <1>1, MayHave

Fit(f, o, n) == Slots(f, o) /\ Extra(f, o) /\ Len(o) = n

(* The rows of each format: what they take and what they fix               *)
LEMMA RowsPADI ==
  /\ "PADI" \in Formats
  /\ Fit("PADI", <<>>, 0)
  /\ Fixes("PADI", {}, {}, 0)
<1>0. "PADI" \in Formats
  BY DEF Formats
<1>2a. Slots("PADI", <<>>)
  BY NoSlots
<1>3. /\ Fixes("PADI", {}, {}, 0)
  BY DEF Fixes, OfRegisters, Behind, OverThird, OverFourth, Bare
<1>4. /\ Extra("PADI", <<>>)
  BY AdmittedKinds DEF Extra, R
<1>5. /\ Len(<<>>) = 0
  OBVIOUS
<1> QED
  BY <1>0, <1>2a, <1>3, <1>4, <1>5 DEF Fit

LEMMA RowsRTS ==
  /\ "RTS" \in Formats
  /\ Fit("RTS", <<>>, 0)
  /\ Fixes("RTS", {}, {}, 0)
<1>0. "RTS" \in Formats
  BY DEF Formats
<1>2a. Slots("RTS", <<>>)
  BY NoSlots
<1>3. /\ Fixes("RTS", {}, {}, 0)
  BY DEF Fixes, OfRegisters, Behind, OverThird, OverFourth, Bare
<1>4. /\ Extra("RTS", <<>>)
  BY AdmittedKinds DEF Extra, R
<1>5. /\ Len(<<>>) = 0
  OBVIOUS
<1> QED
  BY <1>0, <1>2a, <1>3, <1>4, <1>5 DEF Fit

LEMMA RowsVMASK ==
  /\ "VMASK" \in Formats
  /\ Fit("VMASK", <<Vs>>, 1)
  /\ Fixes("VMASK", {"R2FUNC"}, {}, 1)
<1>0. "VMASK" \in Formats
  BY DEF Formats
<1>1. May("VMASK", 1) = {}
  BY DEF May, ShapeOf
<1>2a. Slots("VMASK", <<Vs>>)
  BY <1>1, OneSlot, AllTakes, AdmittedKinds
<1>3. /\ Fixes("VMASK", {"R2FUNC"}, {}, 1)
  BY DEF Fixes, OfRegisters, Behind, OverThird, OverFourth, Bare
<1>4. /\ Extra("VMASK", <<Vs>>)
  BY AdmittedKinds DEF Extra, R
<1>5. /\ Len(<<Vs>>) = 1
  OBVIOUS
<1> QED
  BY <1>0, <1>2a, <1>3, <1>4, <1>5 DEF Fit

LEMMA RowsR1 ==
  /\ "R1" \in Formats
  /\ Fit("R1", <<>>, 0) /\ Fit("R1", <<Rg, Rg>>, 2) /\ Fit("R1", <<VrRg, VrRg>>, 2)
  /\ Fixes("R1", {}, {}, 0) /\ Fixes("R1", {}, {}, 2)
  /\ Fixes("R1", {"FLT1", "FUNC5"}, {"FP"}, 2) /\ Fixes("R1", {"R1FUNC"}, {}, 2)
<1>0. "R1" \in Formats
  BY DEF Formats
<1>1. May("R1", 1) = R /\ May("R1", 2) = R
  BY SlotsR1
<1>2a. Slots("R1", <<>>)
  BY <1>1, NoSlots, AllTakes, AdmittedKinds DEF R, I, RI
<1>2b. Slots("R1", <<Rg, Rg>>)
  BY <1>1, TwoSlots, AllTakes, AdmittedKinds DEF R, I, RI
<1>2c. Slots("R1", <<VrRg, VrRg>>)
  BY <1>1, TwoSlots, AllTakes, AdmittedKinds DEF R, I, RI
<1>3. /\ Fixes("R1", {}, {}, 0) /\ Fixes("R1", {}, {}, 2)
      /\ Fixes("R1", {"FLT1", "FUNC5"}, {"FP"}, 2) /\ Fixes("R1", {"R1FUNC"}, {}, 2)
  BY DEF Fixes, OfRegisters, Behind, OverThird, OverFourth, Bare
<1>4. /\ Extra("R1", <<>>) /\ Extra("R1", <<Rg, Rg>>) /\ Extra("R1", <<VrRg, VrRg>>)
  BY AdmittedKinds DEF Extra, R
<1>5. /\ Len(<<>>) = 0 /\ Len(<<Rg, Rg>>) = 2 /\ Len(<<VrRg, VrRg>>) = 2
  OBVIOUS
<1> QED
  BY <1>0, <1>2a, <1>2b, <1>2c, <1>3, <1>4, <1>5 DEF Fit

LEMMA RowsMV ==
  /\ "MV" \in Formats
  /\ Fit("MV", <<Rg, Rg>>, 2)
  /\ Fixes("MV", {"BFFUNC", "BFMB", "BFME"}, {}, 2) /\ Fixes("MV", {"R3FUNC"}, {}, 2)
  /\ Fixes("MV", {}, {}, 2)
<1>0. "MV" \in Formats
  BY DEF Formats
<1>1. May("MV", 1) = R /\ May("MV", 2) = R
  BY SlotsR1
<1>2a. Slots("MV", <<Rg, Rg>>)
  BY <1>1, TwoSlots, AllTakes, AdmittedKinds DEF R, I, RI
<1>3. /\ Fixes("MV", {"BFFUNC", "BFMB", "BFME"}, {}, 2) /\ Fixes("MV", {"R3FUNC"}, {}, 2)
      /\ Fixes("MV", {}, {}, 2)
  BY DEF Fixes, OfRegisters, Behind, OverThird, OverFourth, Bare
<1>4. /\ Extra("MV", <<Rg, Rg>>)
  BY AdmittedKinds DEF Extra, R
<1>5. /\ Len(<<Rg, Rg>>) = 2
  OBVIOUS
<1> QED
  BY <1>0, <1>2a, <1>3, <1>4, <1>5 DEF Fit

LEMMA RowsR2 ==
  /\ "R2" \in Formats
  /\ Fit("R2", <<Rg, Rg, Rg>>, 3) /\ Fit("R2", <<VrRg, VrRg>>, 2)
  /\ Fit("R2", <<VrRg, VrRg, VrRg>>, 3) /\ Fit("R2", <<Rg, Rg, Rg, Rg>>, 4)
  /\ Fit("R2", <<Rg, Rg>>, 2) /\ Fit("R2", <<Rg, Nx, Rg>>, 3) /\ Fit("R2", <<Vr, Vr, Vr>>, 3)
  /\ Fixes("R2", {"FMT3", "IM2", "R2FUNC"}, {}, 3)
  /\ Fixes("R2", {"MS3", "OP3", "R2FUNC", "RS3"}, {}, 3) /\ Fixes("R2", {"R2FUNC"}, {}, 3)
  /\ Fixes("R2", {"FUNC5", "RB"}, {"FP"}, 2) /\ Fixes("R2", {"FUNC5"}, {"FP"}, 3)
  /\ Fixes("R2", {"R2FUNC"}, {}, 4) /\ Fixes("R2", {}, {}, 2) /\ Fixes("R2", {}, {}, 3)
  /\ Fixes("R2", {"MS3", "OP3", "R2FUNC"}, {}, 3)
  /\ Fixes("R2", {"NRB", "OP3", "R2FUNC"}, {}, 3) /\ Fixes("R2", {"IM2", "R2FUNC"}, {}, 3)
  /\ Fixes("R2", {"OP3", "R2FUNC"}, {}, 3) /\ Fixes("R2", {"OP4", "R2FUNC"}, {}, 3)
<1>0. "R2" \in Formats
  BY DEF Formats
<1>1. May("R2", 1) = R /\ May("R2", 2) = R /\ May("R2", 3) = R /\ May("R2", 4) = R
  BY SlotsR2
<1>2a. Slots("R2", <<Rg, Rg, Rg>>)
  BY <1>1, ThreeSlots, AllTakes, AdmittedKinds DEF R, I, RI
<1>2b. Slots("R2", <<VrRg, VrRg>>)
  BY <1>1, TwoSlots, AllTakes, AdmittedKinds DEF R, I, RI
<1>2c. Slots("R2", <<VrRg, VrRg, VrRg>>)
  BY <1>1, ThreeSlots, AllTakes, AdmittedKinds DEF R, I, RI
<1>2d. Slots("R2", <<Rg, Rg, Rg, Rg>>)
  BY <1>1, FourSlots, AllTakes, AdmittedKinds, Zenon DEF R, I, RI
<1>2e. Slots("R2", <<Rg, Rg>>)
  BY <1>1, TwoSlots, AllTakes, AdmittedKinds DEF R, I, RI
<1>2f. Slots("R2", <<Rg, Nx, Rg>>)
  BY <1>1, ThreeSlots, AllTakes, AdmittedKinds DEF R, I, RI
<1>2g. Slots("R2", <<Vr, Vr, Vr>>)
  BY <1>1, ThreeSlots, AllTakes, AdmittedKinds DEF R, I, RI
<1>3. /\ Fixes("R2", {"FMT3", "IM2", "R2FUNC"}, {}, 3)
      /\ Fixes("R2", {"MS3", "OP3", "R2FUNC", "RS3"}, {}, 3) /\ Fixes("R2", {"R2FUNC"}, {}, 3)
      /\ Fixes("R2", {"FUNC5", "RB"}, {"FP"}, 2) /\ Fixes("R2", {"FUNC5"}, {"FP"}, 3)
      /\ Fixes("R2", {"R2FUNC"}, {}, 4) /\ Fixes("R2", {}, {}, 2) /\ Fixes("R2", {}, {}, 3)
      /\ Fixes("R2", {"MS3", "OP3", "R2FUNC"}, {}, 3)
      /\ Fixes("R2", {"NRB", "OP3", "R2FUNC"}, {}, 3) /\ Fixes("R2", {"IM2", "R2FUNC"}, {}, 3)
      /\ Fixes("R2", {"OP3", "R2FUNC"}, {}, 3) /\ Fixes("R2", {"OP4", "R2FUNC"}, {}, 3)
  BY DEF Fixes, OfRegisters, Behind, OverThird, OverFourth, Bare
<1>4. /\ Extra("R2", <<Rg, Rg, Rg>>) /\ Extra("R2", <<VrRg, VrRg>>)
      /\ Extra("R2", <<VrRg, VrRg, VrRg>>) /\ Extra("R2", <<Rg, Rg, Rg, Rg>>)
      /\ Extra("R2", <<Rg, Rg>>) /\ Extra("R2", <<Rg, Nx, Rg>>) /\ Extra("R2", <<Vr, Vr, Vr>>)
  BY AdmittedKinds DEF Extra, R
<1>5. /\ Len(<<Rg, Rg, Rg>>) = 3 /\ Len(<<VrRg, VrRg>>) = 2 /\ Len(<<VrRg, VrRg, VrRg>>) = 3
      /\ Len(<<Rg, Rg, Rg, Rg>>) = 4 /\ Len(<<Rg, Rg>>) = 2 /\ Len(<<Rg, Nx, Rg>>) = 3
      /\ Len(<<Vr, Vr, Vr>>) = 3
  OBVIOUS
<1> QED
  BY <1>0, <1>2a, <1>2b, <1>2c, <1>2d, <1>2e, <1>2f, <1>2g, <1>3, <1>4, <1>5 DEF Fit

LEMMA RowsR4 ==
  /\ "R4" \in Formats
  /\ Fit("R4", <<Rg, Rg, Rg, Rg>>, 4)
  /\ Fixes("R4", {}, {}, 4)
<1>0. "R4" \in Formats
  BY DEF Formats
<1>1. May("R4", 1) = R /\ May("R4", 2) = R /\ May("R4", 3) = R /\ May("R4", 4) = R
  BY SlotsR2
<1>2a. Slots("R4", <<Rg, Rg, Rg, Rg>>)
  BY <1>1, FourSlots, AllTakes, AdmittedKinds, Zenon DEF R, I, RI
<1>3. /\ Fixes("R4", {}, {}, 4)
  BY DEF Fixes, OfRegisters, Behind, OverThird, OverFourth, Bare
<1>4. /\ Extra("R4", <<Rg, Rg, Rg, Rg>>)
  BY AdmittedKinds DEF Extra, R
<1>5. /\ Len(<<Rg, Rg, Rg, Rg>>) = 4
  OBVIOUS
<1> QED
  BY <1>0, <1>2a, <1>3, <1>4, <1>5 DEF Fit

LEMMA RowsSH ==
  /\ "SH" \in Formats
  /\ Fit("SH", <<Rg, Rg, Rg>>, 3) /\ Fit("SH", <<Rg, Rg, Rg, Rg>>, 4)
  /\ Fixes("SH", {"SHFUNC"}, {}, 3) /\ Fixes("SH", {"SHFUNC"}, {}, 4)
<1>0. "SH" \in Formats
  BY DEF Formats
<1>1. May("SH", 1) = R /\ May("SH", 2) = R /\ May("SH", 3) = R /\ May("SH", 4) = R
  BY SlotsR2
<1>2a. Slots("SH", <<Rg, Rg, Rg>>)
  BY <1>1, ThreeSlots, AllTakes, AdmittedKinds DEF R, I, RI
<1>2b. Slots("SH", <<Rg, Rg, Rg, Rg>>)
  BY <1>1, FourSlots, AllTakes, AdmittedKinds, Zenon DEF R, I, RI
<1>3. /\ Fixes("SH", {"SHFUNC"}, {}, 3) /\ Fixes("SH", {"SHFUNC"}, {}, 4)
  BY DEF Fixes, OfRegisters, Behind, OverThird, OverFourth, Bare
<1>4. /\ Extra("SH", <<Rg, Rg, Rg>>) /\ Extra("SH", <<Rg, Rg, Rg, Rg>>)
  BY AdmittedKinds DEF Extra, R
<1>5. /\ Len(<<Rg, Rg, Rg>>) = 3 /\ Len(<<Rg, Rg, Rg, Rg>>) = 4
  OBVIOUS
<1> QED
  BY <1>0, <1>2a, <1>2b, <1>3, <1>4, <1>5 DEF Fit

LEMMA RowsR2S ==
  /\ "R2S" \in Formats
  /\ Fit("R2S", <<Rg, Rg, Rg>>, 3)
  /\ Fixes("R2S", {}, {}, 3)
<1>0. "R2S" \in Formats
  BY DEF Formats
<1>1. May("R2S", 1) = R /\ May("R2S", 2) = R /\ May("R2S", 3) = R
  BY SlotsR2S
<1>2a. Slots("R2S", <<Rg, Rg, Rg>>)
  BY <1>1, ThreeSlots, AllTakes, AdmittedKinds DEF R, I, RI
<1>3. /\ Fixes("R2S", {}, {}, 3)
  BY DEF Fixes, OfRegisters, Behind, OverThird, OverFourth, Bare
<1>4. /\ Extra("R2S", <<Rg, Rg, Rg>>)
  BY AdmittedKinds DEF Extra, R
<1>5. /\ Len(<<Rg, Rg, Rg>>) = 3
  OBVIOUS
<1> QED
  BY <1>0, <1>2a, <1>3, <1>4, <1>5 DEF Fit

LEMMA RowsR5 ==
  /\ "R5" \in Formats
  /\ Fit("R5", <<Rg, Rg, Rg, Rg, Rg>>, 5)
  /\ Fixes("R5", {}, {}, 5)
<1>0. "R5" \in Formats
  BY DEF Formats
<1>1. May("R5", 1) = R /\ May("R5", 2) = R /\ May("R5", 3) = R /\ May("R5", 4) = R /\
      May("R5", 5) = R /\ May("R5", 6) = R /\ May("R5", 7) = R
  BY SlotsR5
<1>2a. Slots("R5", <<Rg, Rg, Rg, Rg, Rg>>)
  BY <1>1, FiveSlots, AllTakes, AdmittedKinds, Zenon DEF R, I, RI
<1>3. /\ Fixes("R5", {}, {}, 5)
  BY DEF Fixes, OfRegisters, Behind, OverThird, OverFourth, Bare
<1>4. /\ Extra("R5", <<Rg, Rg, Rg, Rg, Rg>>)
  BY AdmittedKinds DEF Extra, R
<1>5. /\ Len(<<Rg, Rg, Rg, Rg, Rg>>) = 5
  OBVIOUS
<1> QED
  BY <1>0, <1>2a, <1>3, <1>4, <1>5 DEF Fit

LEMMA RowsR6 ==
  /\ "R6" \in Formats
  /\ Fit("R6", <<Rg, Rg, Rg, Rg, Rg, Rg>>, 6)
  /\ Fixes("R6", {}, {}, 6)
<1>0. "R6" \in Formats
  BY DEF Formats
<1>1. May("R6", 1) = R /\ May("R6", 2) = R /\ May("R6", 3) = R /\ May("R6", 4) = R /\
      May("R6", 5) = R /\ May("R6", 6) = R /\ May("R6", 7) = R
  BY SlotsR5
<1>2a. Slots("R6", <<Rg, Rg, Rg, Rg, Rg, Rg>>)
  BY <1>1, SixSlots, AllTakes, AdmittedKinds, Zenon DEF R, I, RI
<1>3. /\ Fixes("R6", {}, {}, 6)
  BY DEF Fixes, OfRegisters, Behind, OverThird, OverFourth, Bare
<1>4. /\ Extra("R6", <<Rg, Rg, Rg, Rg, Rg, Rg>>)
  BY AdmittedKinds DEF Extra, R
<1>5. /\ Len(<<Rg, Rg, Rg, Rg, Rg, Rg>>) = 6
  OBVIOUS
<1> QED
  BY <1>0, <1>2a, <1>3, <1>4, <1>5 DEF Fit

LEMMA RowsR7 ==
  /\ "R7" \in Formats
  /\ Fit("R7", <<Rg, Rg, Rg, Rg, Rg, Rg, Rg>>, 7)
  /\ Fixes("R7", {}, {}, 7)
<1>0. "R7" \in Formats
  BY DEF Formats
<1>1. May("R7", 1) = R /\ May("R7", 2) = R /\ May("R7", 3) = R /\ May("R7", 4) = R /\
      May("R7", 5) = R /\ May("R7", 6) = R /\ May("R7", 7) = R
  BY SlotsR5
<1>2a. Slots("R7", <<Rg, Rg, Rg, Rg, Rg, Rg, Rg>>)
  BY <1>1, SevenSlots, AllTakes, AdmittedKinds, Zenon DEF R, I, RI
<1>3. /\ Fixes("R7", {}, {}, 7)
  BY DEF Fixes, OfRegisters, Behind, OverThird, OverFourth, Bare
<1>4. /\ Extra("R7", <<Rg, Rg, Rg, Rg, Rg, Rg, Rg>>)
  BY AdmittedKinds DEF Extra, R
<1>5. /\ Len(<<Rg, Rg, Rg, Rg, Rg, Rg, Rg>>) = 7
  OBVIOUS
<1> QED
  BY <1>0, <1>2a, <1>3, <1>4, <1>5 DEF Fit

LEMMA RowsATOM ==
  /\ "ATOM" \in Formats
  /\ Fit("ATOM", <<Im>>, 1)
  /\ Fixes("ATOM", {"FMT2"}, {}, 1)
<1>0. "ATOM" \in Formats
  BY DEF Formats
<1>1. May("ATOM", 1) = I
  BY SlotsATOM
<1>2a. Slots("ATOM", <<Im>>)
  BY <1>1, OneSlot, AllTakes, AdmittedKinds DEF R, I, RI
<1>3. /\ Fixes("ATOM", {"FMT2"}, {}, 1)
  BY DEF Fixes, OfRegisters, Behind, OverThird, OverFourth, Bare
<1>4. /\ Extra("ATOM", <<Im>>)
  BY AdmittedKinds DEF Extra, R
<1>5. /\ Len(<<Im>>) = 1
  OBVIOUS
<1> QED
  BY <1>0, <1>2a, <1>3, <1>4, <1>5 DEF Fit

LEMMA RowsB2 ==
  /\ "B2" \in Formats
  /\ Fit("B2", <<Im>>, 1)
  /\ Fixes("B2", {"RD"}, {}, 1) /\ Fixes("B2", {"LKT"}, {}, 1) /\ Fixes("B2", {}, {}, 1)
<1>0. "B2" \in Formats
  BY DEF Formats
<1>1. May("B2", 1) = I
  BY SlotsATOM
<1>2a. Slots("B2", <<Im>>)
  BY <1>1, OneSlot, AllTakes, AdmittedKinds DEF R, I, RI
<1>3. /\ Fixes("B2", {"RD"}, {}, 1) /\ Fixes("B2", {"LKT"}, {}, 1) /\ Fixes("B2", {}, {}, 1)
  BY DEF Fixes, OfRegisters, Behind, OverThird, OverFourth, Bare
<1>4. /\ Extra("B2", <<Im>>)
  BY AdmittedKinds DEF Extra, R
<1>5. /\ Len(<<Im>>) = 1
  OBVIOUS
<1> QED
  BY <1>0, <1>2a, <1>3, <1>4, <1>5 DEF Fit

LEMMA RowsBITS16 ==
  /\ "BITS16" \in Formats
  /\ Fit("BITS16", <<>>, 0) /\ Fit("BITS16", <<Im>>, 1)
  /\ Fixes("BITS16", {}, {}, 0) /\ Fixes("BITS16", {}, {}, 1)
<1>0. "BITS16" \in Formats
  BY DEF Formats
<1>1. May("BITS16", 1) = I
  BY SlotsATOM
<1>2a. Slots("BITS16", <<>>)
  BY <1>1, NoSlots, AllTakes, AdmittedKinds DEF R, I, RI
<1>2b. Slots("BITS16", <<Im>>)
  BY <1>1, OneSlot, AllTakes, AdmittedKinds DEF R, I, RI
<1>3. /\ Fixes("BITS16", {}, {}, 0) /\ Fixes("BITS16", {}, {}, 1)
  BY DEF Fixes, OfRegisters, Behind, OverThird, OverFourth, Bare
<1>4. /\ Extra("BITS16", <<>>) /\ Extra("BITS16", <<Im>>)
  BY AdmittedKinds DEF Extra, R
<1>5. /\ Len(<<>>) = 0 /\ Len(<<Im>>) = 1
  OBVIOUS
<1> QED
  BY <1>0, <1>2a, <1>2b, <1>3, <1>4, <1>5 DEF Fit

LEMMA RowsBITS40 ==
  /\ "BITS40" \in Formats
  /\ Fit("BITS40", <<>>, 0) /\ Fit("BITS40", <<Im>>, 1)
  /\ Fixes("BITS40", {}, {}, 0) /\ Fixes("BITS40", {}, {}, 1)
<1>0. "BITS40" \in Formats
  BY DEF Formats
<1>1. May("BITS40", 1) = I
  BY SlotsATOM
<1>2a. Slots("BITS40", <<>>)
  BY <1>1, NoSlots, AllTakes, AdmittedKinds DEF R, I, RI
<1>2b. Slots("BITS40", <<Im>>)
  BY <1>1, OneSlot, AllTakes, AdmittedKinds DEF R, I, RI
<1>3. /\ Fixes("BITS40", {}, {}, 0) /\ Fixes("BITS40", {}, {}, 1)
  BY DEF Fixes, OfRegisters, Behind, OverThird, OverFourth, Bare
<1>4. /\ Extra("BITS40", <<>>) /\ Extra("BITS40", <<Im>>)
  BY AdmittedKinds DEF Extra, R
<1>5. /\ Len(<<>>) = 0 /\ Len(<<Im>>) = 1
  OBVIOUS
<1> QED
  BY <1>0, <1>2a, <1>2b, <1>3, <1>4, <1>5 DEF Fit

LEMMA RowsJ4 ==
  /\ "J4" \in Formats
  /\ Fit("J4", <<Im>>, 1)
  /\ Fixes("J4", {"RD"}, {}, 1) /\ Fixes("J4", {}, {}, 1)
<1>0. "J4" \in Formats
  BY DEF Formats
<1>1. May("J4", 1) = I
  BY SlotsATOM
<1>2a. Slots("J4", <<Im>>)
  BY <1>1, OneSlot, AllTakes, AdmittedKinds DEF R, I, RI
<1>3. /\ Fixes("J4", {"RD"}, {}, 1) /\ Fixes("J4", {}, {}, 1)
  BY DEF Fixes, OfRegisters, Behind, OverThird, OverFourth, Bare
<1>4. /\ Extra("J4", <<Im>>)
  BY AdmittedKinds DEF Extra, R
<1>5. /\ Len(<<Im>>) = 1
  OBVIOUS
<1> QED
  BY <1>0, <1>2a, <1>3, <1>4, <1>5 DEF Fit

LEMMA RowsPFX ==
  /\ "PFX" \in Formats
  /\ Fit("PFX", <<Im>>, 1)
  /\ Fixes("PFX", {}, {}, 1)
<1>0. "PFX" \in Formats
  BY DEF Formats
<1>1. May("PFX", 1) = I
  BY SlotsATOM
<1>2a. Slots("PFX", <<Im>>)
  BY <1>1, OneSlot, AllTakes, AdmittedKinds DEF R, I, RI
<1>3. /\ Fixes("PFX", {}, {}, 1)
  BY DEF Fixes, OfRegisters, Behind, OverThird, OverFourth, Bare
<1>4. /\ Extra("PFX", <<Im>>)
  BY AdmittedKinds DEF Extra, R
<1>5. /\ Len(<<Im>>) = 1
  OBVIOUS
<1> QED
  BY <1>0, <1>2a, <1>3, <1>4, <1>5 DEF Fit

LEMMA RowsSYNC ==
  /\ "SYNC" \in Formats
  /\ Fit("SYNC", <<Im>>, 1)
  /\ Fixes("SYNC", {}, {}, 1)
<1>0. "SYNC" \in Formats
  BY DEF Formats
<1>1. May("SYNC", 1) = I
  BY SlotsATOM
<1>2a. Slots("SYNC", <<Im>>)
  BY <1>1, OneSlot, AllTakes, AdmittedKinds DEF R, I, RI
<1>3. /\ Fixes("SYNC", {}, {}, 1)
  BY DEF Fixes, OfRegisters, Behind, OverThird, OverFourth, Bare
<1>4. /\ Extra("SYNC", <<Im>>)
  BY AdmittedKinds DEF Extra, R
<1>5. /\ Len(<<Im>>) = 1
  OBVIOUS
<1> QED
  BY <1>0, <1>2a, <1>3, <1>4, <1>5 DEF Fit

LEMMA RowsINT ==
  /\ "INT" \in Formats
  /\ Fit("INT", <<Im, Im>>, 2)
  /\ Fixes("INT", {}, {}, 2)
<1>0. "INT" \in Formats
  BY DEF Formats
<1>1. May("INT", 1) = I /\ May("INT", 2) = I
  BY SlotsINT
<1>2a. Slots("INT", <<Im, Im>>)
  BY <1>1, TwoSlots, AllTakes, AdmittedKinds DEF R, I, RI
<1>3. /\ Fixes("INT", {}, {}, 2)
  BY DEF Fixes, OfRegisters, Behind, OverThird, OverFourth, Bare
<1>4. /\ Extra("INT", <<Im, Im>>)
  BY AdmittedKinds DEF Extra, R
<1>5. /\ Len(<<Im, Im>>) = 2
  OBVIOUS
<1> QED
  BY <1>0, <1>2a, <1>3, <1>4, <1>5 DEF Fit

LEMMA RowsREP ==
  /\ "REP" \in Formats
  /\ Fit("REP", <<Im, Im>>, 2)
  /\ Fixes("REP", {"CND3", "R2FUNC"}, {}, 2)
<1>0. "REP" \in Formats
  BY DEF Formats
<1>1. May("REP", 1) = I /\ May("REP", 2) = I
  BY SlotsINT
<1>2a. Slots("REP", <<Im, Im>>)
  BY <1>1, TwoSlots, AllTakes, AdmittedKinds DEF R, I, RI
<1>3. /\ Fixes("REP", {"CND3", "R2FUNC"}, {}, 2)
  BY DEF Fixes, OfRegisters, Behind, OverThird, OverFourth, Bare
<1>4. /\ Extra("REP", <<Im, Im>>)
  BY AdmittedKinds DEF Extra, R
<1>5. /\ Len(<<Im, Im>>) = 2
  OBVIOUS
<1> QED
  BY <1>0, <1>2a, <1>3, <1>4, <1>5 DEF Fit

LEMMA RowsR3 ==
  /\ "R3" \in Formats
  /\ Fit("R3", <<Rg, Rg, Rg>>, 3) /\ Fit("R3", <<Rg, Rg, Im>>, 3)
  /\ Fit("R3", <<Rg, Rg, RgIm, RgIm>>, 4) /\ Fit("R3", <<Rg, Rg, Rg, Im>>, 4)
  /\ Fit("R3", <<Rg, Rg, Rg, Rg>>, 4) /\ Fit("R3", <<Rg, Rg>>, 2)
  /\ Fit("R3", <<Vr, Vr, VrRgIm, VrRgIm>>, 4) /\ Fit("R3", <<Vr, Vr, VrRgIm, VrRgIm, Vm>>, 5)
  /\ Fit("R3", <<Rg>>, 1)
  /\ Fixes("R3", {"MS3", "OP3", "R3FUNC"}, {}, 3)
  /\ Fixes("R3", {"MS3", "OP3", "R3FUNC", "RS3"}, {}, 3)
  /\ Fixes("R3", {"OP3", "R3FUNC"}, {}, 3) /\ Fixes("R3", {"OP3", "R3FUNC"}, {}, 4)
  /\ Fixes("R3", {"R3FUNC"}, {}, 4) /\ Fixes("R3", {}, {}, 3) /\ Fixes("R3", {}, {}, 4)
  /\ Fixes("R3", {}, {}, 2) /\ Fixes("R3", {"R3FUNC"}, {}, 3) /\ Fixes("R3", {}, {}, 5)
  /\ Fixes("R3", {}, {}, 1)
<1>0. "R3" \in Formats
  BY DEF Formats
<1>1. May("R3", 1) = R /\ May("R3", 2) = R /\ May("R3", 3) = RI /\ May("R3", 4) = RI /\
      May("R3", 5) = {"VMREG"}
  BY SlotsR3
<1>2a. Slots("R3", <<Rg, Rg, Rg>>)
  BY <1>1, ThreeSlots, AllTakes, AdmittedKinds DEF R, I, RI
<1>2b. Slots("R3", <<Rg, Rg, Im>>)
  BY <1>1, ThreeSlots, AllTakes, AdmittedKinds DEF R, I, RI
<1>2c. Slots("R3", <<Rg, Rg, RgIm, RgIm>>)
  BY <1>1, FourSlots, AllTakes, AdmittedKinds, Zenon DEF R, I, RI
<1>2d. Slots("R3", <<Rg, Rg, Rg, Im>>)
  BY <1>1, FourSlots, AllTakes, AdmittedKinds, Zenon DEF R, I, RI
<1>2e. Slots("R3", <<Rg, Rg, Rg, Rg>>)
  BY <1>1, FourSlots, AllTakes, AdmittedKinds, Zenon DEF R, I, RI
<1>2f. Slots("R3", <<Rg, Rg>>)
  BY <1>1, TwoSlots, AllTakes, AdmittedKinds DEF R, I, RI
<1>2g. Slots("R3", <<Vr, Vr, VrRgIm, VrRgIm>>)
  BY <1>1, FourSlots, AllTakes, AdmittedKinds, Zenon DEF R, I, RI
<1>2h. Slots("R3", <<Vr, Vr, VrRgIm, VrRgIm, Vm>>)
  BY <1>1, FiveSlots, AllTakes, AdmittedKinds, Zenon DEF R, I, RI
<1>2i. Slots("R3", <<Rg>>)
  BY <1>1, OneSlot, AllTakes, AdmittedKinds DEF R, I, RI
<1>3. /\ Fixes("R3", {"MS3", "OP3", "R3FUNC"}, {}, 3)
      /\ Fixes("R3", {"MS3", "OP3", "R3FUNC", "RS3"}, {}, 3)
      /\ Fixes("R3", {"OP3", "R3FUNC"}, {}, 3) /\ Fixes("R3", {"OP3", "R3FUNC"}, {}, 4)
      /\ Fixes("R3", {"R3FUNC"}, {}, 4) /\ Fixes("R3", {}, {}, 3) /\ Fixes("R3", {}, {}, 4)
      /\ Fixes("R3", {}, {}, 2) /\ Fixes("R3", {"R3FUNC"}, {}, 3) /\ Fixes("R3", {}, {}, 5)
      /\ Fixes("R3", {}, {}, 1)
  BY DEF Fixes, OfRegisters, Behind, OverThird, OverFourth, Bare
<1>4. /\ Extra("R3", <<Rg, Rg, Rg>>) /\ Extra("R3", <<Rg, Rg, Im>>)
      /\ Extra("R3", <<Rg, Rg, RgIm, RgIm>>) /\ Extra("R3", <<Rg, Rg, Rg, Im>>)
      /\ Extra("R3", <<Rg, Rg, Rg, Rg>>) /\ Extra("R3", <<Rg, Rg>>)
      /\ Extra("R3", <<Vr, Vr, VrRgIm, VrRgIm>>) /\ Extra("R3", <<Vr, Vr, VrRgIm, VrRgIm, Vm>>)
      /\ Extra("R3", <<Rg>>)
  BY AdmittedKinds DEF Extra, R
<1>5. /\ Len(<<Rg, Rg, Rg>>) = 3 /\ Len(<<Rg, Rg, Im>>) = 3 /\ Len(<<Rg, Rg, RgIm, RgIm>>) = 4
      /\ Len(<<Rg, Rg, Rg, Im>>) = 4 /\ Len(<<Rg, Rg, Rg, Rg>>) = 4 /\ Len(<<Rg, Rg>>) = 2
      /\ Len(<<Vr, Vr, VrRgIm, VrRgIm>>) = 4 /\ Len(<<Vr, Vr, VrRgIm, VrRgIm, Vm>>) = 5
      /\ Len(<<Rg>>) = 1
  OBVIOUS
<1> QED
  BY <1>0, <1>2a, <1>2b, <1>2c, <1>2d, <1>2e, <1>2f, <1>2g, <1>2h, <1>2i, <1>3, <1>4, <1>5 DEF Fit

LEMMA RowsR3RR ==
  /\ "R3RR" \in Formats
  /\ Fit("R3RR", <<Nx, Nx, Rg>>, 3) /\ Fit("R3RR", <<Rg, Rg, Rg>>, 3)
  /\ Fit("R3RR", <<Rg, Rg, Rg, Rg>>, 4) /\ Fit("R3RR", <<Rg>>, 1)
  /\ Fit("R3RR", <<Nx, Nx, Im>>, 3) /\ Fit("R3RR", <<Nx, Rg, Im>>, 3)
  /\ Fit("R3RR", <<Nx, Rg, Rg>>, 3) /\ Fit("R3RR", <<Rg, Nx, Im>>, 3)
  /\ Fit("R3RR", <<Rg, Nx, Rg>>, 3)
  /\ Fixes("R3RR", {}, {}, 3) /\ Fixes("R3RR", {}, {}, 4) /\ Fixes("R3RR", {}, {}, 1)
<1>0. "R3RR" \in Formats
  BY DEF Formats
<1>1. May("R3RR", 1) = R /\ May("R3RR", 2) = R /\ May("R3RR", 3) = RI /\ May("R3RR", 4) = R
  BY SlotsR3RR
<1>2a. Slots("R3RR", <<Nx, Nx, Rg>>)
  BY <1>1, ThreeSlots, AllTakes, AdmittedKinds DEF R, I, RI
<1>2b. Slots("R3RR", <<Rg, Rg, Rg>>)
  BY <1>1, ThreeSlots, AllTakes, AdmittedKinds DEF R, I, RI
<1>2c. Slots("R3RR", <<Rg, Rg, Rg, Rg>>)
  BY <1>1, FourSlots, AllTakes, AdmittedKinds, Zenon DEF R, I, RI
<1>2d. Slots("R3RR", <<Rg>>)
  BY <1>1, OneSlot, AllTakes, AdmittedKinds DEF R, I, RI
<1>2e. Slots("R3RR", <<Nx, Nx, Im>>)
  BY <1>1, ThreeSlots, AllTakes, AdmittedKinds DEF R, I, RI
<1>2f. Slots("R3RR", <<Nx, Rg, Im>>)
  BY <1>1, ThreeSlots, AllTakes, AdmittedKinds DEF R, I, RI
<1>2g. Slots("R3RR", <<Nx, Rg, Rg>>)
  BY <1>1, ThreeSlots, AllTakes, AdmittedKinds DEF R, I, RI
<1>2h. Slots("R3RR", <<Rg, Nx, Im>>)
  BY <1>1, ThreeSlots, AllTakes, AdmittedKinds DEF R, I, RI
<1>2i. Slots("R3RR", <<Rg, Nx, Rg>>)
  BY <1>1, ThreeSlots, AllTakes, AdmittedKinds DEF R, I, RI
<1>3. /\ Fixes("R3RR", {}, {}, 3) /\ Fixes("R3RR", {}, {}, 4) /\ Fixes("R3RR", {}, {}, 1)
  BY DEF Fixes, OfRegisters, Behind, OverThird, OverFourth, Bare
<1>4. /\ Extra("R3RR", <<Nx, Nx, Rg>>) /\ Extra("R3RR", <<Rg, Rg, Rg>>)
      /\ Extra("R3RR", <<Rg, Rg, Rg, Rg>>) /\ Extra("R3RR", <<Rg>>)
      /\ Extra("R3RR", <<Nx, Nx, Im>>) /\ Extra("R3RR", <<Nx, Rg, Im>>)
      /\ Extra("R3RR", <<Nx, Rg, Rg>>) /\ Extra("R3RR", <<Rg, Nx, Im>>)
      /\ Extra("R3RR", <<Rg, Nx, Rg>>)
  BY AdmittedKinds DEF Extra, R
<1>5. /\ Len(<<Nx, Nx, Rg>>) = 3 /\ Len(<<Rg, Rg, Rg>>) = 3 /\ Len(<<Rg, Rg, Rg, Rg>>) = 4
      /\ Len(<<Rg>>) = 1 /\ Len(<<Nx, Nx, Im>>) = 3 /\ Len(<<Nx, Rg, Im>>) = 3
      /\ Len(<<Nx, Rg, Rg>>) = 3 /\ Len(<<Rg, Nx, Im>>) = 3 /\ Len(<<Rg, Nx, Rg>>) = 3
  OBVIOUS
<1> QED
  BY <1>0, <1>2a, <1>2b, <1>2c, <1>2d, <1>2e, <1>2f, <1>2g, <1>2h, <1>2i, <1>3, <1>4, <1>5 DEF Fit

LEMMA RowsRI ==
  /\ "RI" \in Formats
  /\ Fit("RI", <<Rg, Rg, Im>>, 3) /\ Fit("RI", <<Rg, Rg>>, 2)
  /\ Fit("RI", <<VrRg, VrRg, Im>>, 3) /\ Fit("RI", <<Rg, Nx, Im>>, 3)
  /\ Fixes("RI", {"FUNC3"}, {}, 3) /\ Fixes("RI", {}, {"INTI"}, 3) /\ Fixes("RI", {}, {}, 3)
  /\ Fixes("RI", {}, {}, 2) /\ Fixes("RI", {}, {"FP"}, 3) /\ Fixes("RI", {}, {"NEGIMM"}, 3)
  /\ Fixes("RI", {"IPR"}, {}, 3)
<1>0. "RI" \in Formats
  BY DEF Formats
<1>1. May("RI", 1) = R /\ May("RI", 2) = R /\ May("RI", 3) = I
  BY SlotsRI
<1>2a. Slots("RI", <<Rg, Rg, Im>>)
  BY <1>1, ThreeSlots, AllTakes, AdmittedKinds DEF R, I, RI
<1>2b. Slots("RI", <<Rg, Rg>>)
  BY <1>1, TwoSlots, AllTakes, AdmittedKinds DEF R, I, RI
<1>2c. Slots("RI", <<VrRg, VrRg, Im>>)
  BY <1>1, ThreeSlots, AllTakes, AdmittedKinds DEF R, I, RI
<1>2d. Slots("RI", <<Rg, Nx, Im>>)
  BY <1>1, ThreeSlots, AllTakes, AdmittedKinds DEF R, I, RI
<1>3. /\ Fixes("RI", {"FUNC3"}, {}, 3) /\ Fixes("RI", {}, {"INTI"}, 3) /\ Fixes("RI", {}, {}, 3)
      /\ Fixes("RI", {}, {}, 2) /\ Fixes("RI", {}, {"FP"}, 3) /\ Fixes("RI", {}, {"NEGIMM"}, 3)
      /\ Fixes("RI", {"IPR"}, {}, 3)
  BY DEF Fixes, OfRegisters, Behind, OverThird, OverFourth, Bare
<1>4. /\ Extra("RI", <<Rg, Rg, Im>>) /\ Extra("RI", <<Rg, Rg>>)
      /\ Extra("RI", <<VrRg, VrRg, Im>>) /\ Extra("RI", <<Rg, Nx, Im>>)
  BY AdmittedKinds DEF Extra, R
<1>5. /\ Len(<<Rg, Rg, Im>>) = 3 /\ Len(<<Rg, Rg>>) = 2 /\ Len(<<VrRg, VrRg, Im>>) = 3
      /\ Len(<<Rg, Nx, Im>>) = 3
  OBVIOUS
<1> QED
  BY <1>0, <1>2a, <1>2b, <1>2c, <1>2d, <1>3, <1>4, <1>5 DEF Fit

LEMMA RowsRIB ==
  /\ "RIB" \in Formats
  /\ Fit("RIB", <<Rg, Rg, Im>>, 3)
  /\ Fixes("RIB", {"MS3", "OP3", "R2FUNC", "RS3"}, {}, 3) /\ Fixes("RIB", {}, {}, 3)
  /\ Fixes("RIB", {"R2FUNC"}, {}, 3) /\ Fixes("RIB", {"MS3", "OP3", "R2FUNC"}, {}, 3)
<1>0. "RIB" \in Formats
  BY DEF Formats
<1>1. May("RIB", 1) = R /\ May("RIB", 2) = R /\ May("RIB", 3) = I
  BY SlotsRI
<1>2a. Slots("RIB", <<Rg, Rg, Im>>)
  BY <1>1, ThreeSlots, AllTakes, AdmittedKinds DEF R, I, RI
<1>3. /\ Fixes("RIB", {"MS3", "OP3", "R2FUNC", "RS3"}, {}, 3) /\ Fixes("RIB", {}, {}, 3)
      /\ Fixes("RIB", {"R2FUNC"}, {}, 3) /\ Fixes("RIB", {"MS3", "OP3", "R2FUNC"}, {}, 3)
  BY DEF Fixes, OfRegisters, Behind, OverThird, OverFourth, Bare
<1>4. /\ Extra("RIB", <<Rg, Rg, Im>>)
  BY AdmittedKinds DEF Extra, R
<1>5. /\ Len(<<Rg, Rg, Im>>) = 3
  OBVIOUS
<1> QED
  BY <1>0, <1>2a, <1>3, <1>4, <1>5 DEF Fit

LEMMA RowsRIL ==
  /\ "RIL" \in Formats
  /\ Fit("RIL", <<Rg, Rg, Im>>, 3)
  /\ Fixes("RIL", {"R2FUNC"}, {}, 3) /\ Fixes("RIL", {}, {}, 3)
<1>0. "RIL" \in Formats
  BY DEF Formats
<1>1. May("RIL", 1) = R /\ May("RIL", 2) = R /\ May("RIL", 3) = I
  BY SlotsRI
<1>2a. Slots("RIL", <<Rg, Rg, Im>>)
  BY <1>1, ThreeSlots, AllTakes, AdmittedKinds DEF R, I, RI
<1>3. /\ Fixes("RIL", {"R2FUNC"}, {}, 3) /\ Fixes("RIL", {}, {}, 3)
  BY DEF Fixes, OfRegisters, Behind, OverThird, OverFourth, Bare
<1>4. /\ Extra("RIL", <<Rg, Rg, Im>>)
  BY AdmittedKinds DEF Extra, R
<1>5. /\ Len(<<Rg, Rg, Im>>) = 3
  OBVIOUS
<1> QED
  BY <1>0, <1>2a, <1>3, <1>4, <1>5 DEF Fit

LEMMA RowsRIA ==
  /\ "RIA" \in Formats
  /\ Fit("RIA", <<Rg, Im, Rg>>, 3)
  /\ Fixes("RIA", {"MS3", "OP3", "R2FUNC", "RS3"}, {}, 3) /\ Fixes("RIA", {"R2FUNC"}, {}, 3)
  /\ Fixes("RIA", {"MS3", "OP3", "R2FUNC"}, {}, 3) /\ Fixes("RIA", {"IM2", "R2FUNC"}, {}, 3)
<1>0. "RIA" \in Formats
  BY DEF Formats
<1>1. May("RIA", 1) = R /\ May("RIA", 2) = I /\ May("RIA", 3) = R
  BY SlotsRIA
<1>2a. Slots("RIA", <<Rg, Im, Rg>>)
  BY <1>1, ThreeSlots, AllTakes, AdmittedKinds DEF R, I, RI
<1>3. /\ Fixes("RIA", {"MS3", "OP3", "R2FUNC", "RS3"}, {}, 3) /\ Fixes("RIA", {"R2FUNC"}, {}, 3)
      /\ Fixes("RIA", {"MS3", "OP3", "R2FUNC"}, {}, 3) /\ Fixes("RIA", {"IM2", "R2FUNC"}, {}, 3)
  BY DEF Fixes, OfRegisters, Behind, OverThird, OverFourth, Bare
<1>4. /\ Extra("RIA", <<Rg, Im, Rg>>)
  BY AdmittedKinds DEF Extra, R
<1>5. /\ Len(<<Rg, Im, Rg>>) = 3
  OBVIOUS
<1> QED
  BY <1>0, <1>2a, <1>3, <1>4, <1>5 DEF Fit

LEMMA RowsRIV ==
  /\ "RIV" \in Formats
  /\ Fit("RIV", <<VrRg, Im, VrRg>>, 3)
  /\ Fixes("RIV", {}, {"FP"}, 3)
<1>0. "RIV" \in Formats
  BY DEF Formats
<1>1. May("RIV", 1) = R /\ May("RIV", 2) = I /\ May("RIV", 3) = R
  BY SlotsRIA
<1>2a. Slots("RIV", <<VrRg, Im, VrRg>>)
  BY <1>1, ThreeSlots, AllTakes, AdmittedKinds DEF R, I, RI
<1>3. /\ Fixes("RIV", {}, {"FP"}, 3)
  BY DEF Fixes, OfRegisters, Behind, OverThird, OverFourth, Bare
<1>4. /\ Extra("RIV", <<VrRg, Im, VrRg>>)
  BY AdmittedKinds DEF Extra, R
<1>5. /\ Len(<<VrRg, Im, VrRg>>) = 3
  OBVIOUS
<1> QED
  BY <1>0, <1>2a, <1>3, <1>4, <1>5 DEF Fit

LEMMA RowsR3RI ==
  /\ "R3RI" \in Formats
  /\ Fit("R3RI", <<Rg, Rg, Rg, Im>>, 4) /\ Fit("R3RI", <<Rg, Rg, Im>>, 3)
  /\ Fixes("R3RI", {}, {}, 4) /\ Fixes("R3RI", {"R2FUNC"}, {}, 3)
<1>0. "R3RI" \in Formats
  BY DEF Formats
<1>1. May("R3RI", 1) = R /\ May("R3RI", 2) = R /\ May("R3RI", 3) = RI /\ May("R3RI", 4) = I
  BY SlotsR3RI
<1>2a. Slots("R3RI", <<Rg, Rg, Rg, Im>>)
  BY <1>1, FourSlots, AllTakes, AdmittedKinds DEF R, I, RI
<1>2b. Slots("R3RI", <<Rg, Rg, Im>>)
  BY <1>1, ThreeSlots, AllTakes, AdmittedKinds DEF R, I, RI
<1>3. /\ Fixes("R3RI", {}, {}, 4) /\ Fixes("R3RI", {"R2FUNC"}, {}, 3)
  BY DEF Fixes, OfRegisters, Behind, OverThird, OverFourth, Bare
<1>4. /\ Extra("R3RI", <<Rg, Rg, Rg, Im>>) /\ Extra("R3RI", <<Rg, Rg, Im>>)
  BY AdmittedKinds DEF Extra, R
<1>5. /\ Len(<<Rg, Rg, Rg, Im>>) = 4 /\ Len(<<Rg, Rg, Im>>) = 3
  OBVIOUS
<1> QED
  BY <1>0, <1>2a, <1>2b, <1>3, <1>4, <1>5 DEF Fit

LEMMA RowsSI ==
  /\ "SI" \in Formats
  /\ Fit("SI", <<Rg, Rg, Im>>, 3) /\ Fit("SI", <<Rg, Rg, Rg, Im>>, 4)
  /\ Fixes("SI", {"SHFUNC", "SHI"}, {}, 3) /\ Fixes("SI", {"SHFUNC"}, {}, 3)
  /\ Fixes("SI", {"SHFUNC"}, {}, 4)
<1>0. "SI" \in Formats
  BY DEF Formats
<1>1. May("SI", 1) = R /\ May("SI", 2) = R /\ May("SI", 3) = RI /\ May("SI", 4) = I
  BY SlotsR3RI
<1>2a. Slots("SI", <<Rg, Rg, Im>>)
  BY <1>1, ThreeSlots, AllTakes, AdmittedKinds DEF R, I, RI
<1>2b. Slots("SI", <<Rg, Rg, Rg, Im>>)
  BY <1>1, FourSlots, AllTakes, AdmittedKinds DEF R, I, RI
<1>3. /\ Fixes("SI", {"SHFUNC", "SHI"}, {}, 3) /\ Fixes("SI", {"SHFUNC"}, {}, 3)
      /\ Fixes("SI", {"SHFUNC"}, {}, 4)
  BY DEF Fixes, OfRegisters, Behind, OverThird, OverFourth, Bare
<1>4. /\ Extra("SI", <<Rg, Rg, Im>>) /\ Extra("SI", <<Rg, Rg, Rg, Im>>)
  BY AdmittedKinds DEF Extra, R
<1>5. /\ Len(<<Rg, Rg, Im>>) = 3 /\ Len(<<Rg, Rg, Rg, Im>>) = 4
  OBVIOUS
<1> QED
  BY <1>0, <1>2a, <1>2b, <1>3, <1>4, <1>5 DEF Fit

LEMMA RowsBFR3II ==
  /\ "BFR3II" \in Formats
  /\ Fit("BFR3II", <<Rg, Rg, Im, Im>>, 4) /\ Fit("BFR3II", <<VrRg, VrRg, Im, Im>>, 4)
  /\ Fixes("BFR3II", {"FUNC3"}, {}, 4)
<1>0. "BFR3II" \in Formats
  BY DEF Formats
<1>1. May("BFR3II", 1) = R /\ May("BFR3II", 2) = R /\ May("BFR3II", 3) = I /\
      May("BFR3II", 4) = I
  BY SlotsBFR3II
<1>2a. Slots("BFR3II", <<Rg, Rg, Im, Im>>)
  BY <1>1, FourSlots, AllTakes, AdmittedKinds DEF R, I, RI
<1>2b. Slots("BFR3II", <<VrRg, VrRg, Im, Im>>)
  BY <1>1, FourSlots, AllTakes, AdmittedKinds DEF R, I, RI
<1>3. /\ Fixes("BFR3II", {"FUNC3"}, {}, 4)
  BY DEF Fixes, OfRegisters, Behind, OverThird, OverFourth, Bare
<1>4. /\ Extra("BFR3II", <<Rg, Rg, Im, Im>>) /\ Extra("BFR3II", <<VrRg, VrRg, Im, Im>>)
  BY AdmittedKinds DEF Extra, R
<1>5. /\ Len(<<Rg, Rg, Im, Im>>) = 4 /\ Len(<<VrRg, VrRg, Im, Im>>) = 4
  OBVIOUS
<1> QED
  BY <1>0, <1>2a, <1>2b, <1>3, <1>4, <1>5 DEF Fit

LEMMA RowsRII ==
  /\ "RII" \in Formats
  /\ Fit("RII", <<VrRg, VrRg, Im, Im>>, 4)
  /\ Fixes("RII", {"FUNC3"}, {}, 4)
<1>0. "RII" \in Formats
  BY DEF Formats
<1>1. May("RII", 1) = R /\ May("RII", 2) = R /\ May("RII", 3) = I /\ May("RII", 4) = I
  BY SlotsBFR3II
<1>2a. Slots("RII", <<VrRg, VrRg, Im, Im>>)
  BY <1>1, FourSlots, AllTakes, AdmittedKinds DEF R, I, RI
<1>3. /\ Fixes("RII", {"FUNC3"}, {}, 4)
  BY DEF Fixes, OfRegisters, Behind, OverThird, OverFourth, Bare
<1>4. /\ Extra("RII", <<VrRg, VrRg, Im, Im>>)
  BY AdmittedKinds DEF Extra, R
<1>5. /\ Len(<<VrRg, VrRg, Im, Im>>) = 4
  OBVIOUS
<1> QED
  BY <1>0, <1>2a, <1>3, <1>4, <1>5 DEF Fit

LEMMA RowsBI ==
  /\ "BI" \in Formats
  /\ Fit("BI", <<Rg, Im, Im>>, 3)
  /\ Fixes("BI", {"BFN"}, {}, 3)
<1>0. "BI" \in Formats
  BY DEF Formats
<1>1. May("BI", 1) = R /\ May("BI", 2) = I /\ May("BI", 3) = I
  BY SlotsBI
<1>2a. Slots("BI", <<Rg, Im, Im>>)
  BY <1>1, ThreeSlots, AllTakes, AdmittedKinds DEF R, I, RI
<1>3. /\ Fixes("BI", {"BFN"}, {}, 3)
  BY DEF Fixes, OfRegisters, Behind, OverThird, OverFourth, Bare
<1>4. /\ Extra("BI", <<Rg, Im, Im>>)
  BY AdmittedKinds DEF Extra, R
<1>5. /\ Len(<<Rg, Im, Im>>) = 3
  OBVIOUS
<1> QED
  BY <1>0, <1>2a, <1>3, <1>4, <1>5 DEF Fit

LEMMA RowsRIS ==
  /\ "RIS" \in Formats
  /\ Fit("RIS", <<Rg, Im, Im>>, 3)
  /\ Fixes("RIS", {}, {}, 3)
<1>0. "RIS" \in Formats
  BY DEF Formats
<1>1. May("RIS", 1) = R /\ May("RIS", 2) = I /\ May("RIS", 3) = I
  BY SlotsBI
<1>2a. Slots("RIS", <<Rg, Im, Im>>)
  BY <1>1, ThreeSlots, AllTakes, AdmittedKinds DEF R, I, RI
<1>3. /\ Fixes("RIS", {}, {}, 3)
  BY DEF Fixes, OfRegisters, Behind, OverThird, OverFourth, Bare
<1>4. /\ Extra("RIS", <<Rg, Im, Im>>)
  BY AdmittedKinds DEF Extra, R
<1>5. /\ Len(<<Rg, Im, Im>>) = 3
  OBVIOUS
<1> QED
  BY <1>0, <1>2a, <1>3, <1>4, <1>5 DEF Fit

LEMMA RowsBZ ==
  /\ "BZ" \in Formats
  /\ Fit("BZ", <<Rg, Im>>, 2)
  /\ Fixes("BZ", {"BRMS", "COND"}, {"BZ"}, 2) /\ Fixes("BZ", {"BFN"}, {"BZ"}, 2)
<1>0. "BZ" \in Formats
  BY DEF Formats
<1>1. May("BZ", 1) = R /\ May("BZ", 2) = I
  BY SlotsBZ
<1>2a. Slots("BZ", <<Rg, Im>>)
  BY <1>1, TwoSlots, AllTakes, AdmittedKinds DEF R, I, RI
<1>3. /\ Fixes("BZ", {"BRMS", "COND"}, {"BZ"}, 2) /\ Fixes("BZ", {"BFN"}, {"BZ"}, 2)
  BY DEF Fixes, OfRegisters, Behind, OverThird, OverFourth, Bare
<1>4. /\ Extra("BZ", <<Rg, Im>>)
  BY AdmittedKinds DEF Extra, R
<1>5. /\ Len(<<Rg, Im>>) = 2
  OBVIOUS
<1> QED
  BY <1>0, <1>2a, <1>3, <1>4, <1>5 DEF Fit

LEMMA RowsRISH ==
  /\ "RISH" \in Formats
  /\ Fit("RISH", <<Rg, Im>>, 2)
  /\ Fixes("RISH", {"SC"}, {}, 2) /\ Fixes("RISH", {}, {}, 2)
<1>0. "RISH" \in Formats
  BY DEF Formats
<1>1. May("RISH", 1) = R /\ May("RISH", 2) = I
  BY SlotsBZ
<1>2a. Slots("RISH", <<Rg, Im>>)
  BY <1>1, TwoSlots, AllTakes, AdmittedKinds DEF R, I, RI
<1>3. /\ Fixes("RISH", {"SC"}, {}, 2) /\ Fixes("RISH", {}, {}, 2)
  BY DEF Fixes, OfRegisters, Behind, OverThird, OverFourth, Bare
<1>4. /\ Extra("RISH", <<Rg, Im>>)
  BY AdmittedKinds DEF Extra, R
<1>5. /\ Len(<<Rg, Im>>) = 2
  OBVIOUS
<1> QED
  BY <1>0, <1>2a, <1>3, <1>4, <1>5 DEF Fit

LEMMA RowsRISM ==
  /\ "RISM" \in Formats
  /\ Fit("RISM", <<Rg, Im>>, 2)
  /\ Fixes("RISM", {"SC"}, {}, 2) /\ Fixes("RISM", {}, {}, 2)
<1>0. "RISM" \in Formats
  BY DEF Formats
<1>1. May("RISM", 1) = R /\ May("RISM", 2) = I
  BY SlotsBZ
<1>2a. Slots("RISM", <<Rg, Im>>)
  BY <1>1, TwoSlots, AllTakes, AdmittedKinds DEF R, I, RI
<1>3. /\ Fixes("RISM", {"SC"}, {}, 2) /\ Fixes("RISM", {}, {}, 2)
  BY DEF Fixes, OfRegisters, Behind, OverThird, OverFourth, Bare
<1>4. /\ Extra("RISM", <<Rg, Im>>)
  BY AdmittedKinds DEF Extra, R
<1>5. /\ Len(<<Rg, Im>>) = 2
  OBVIOUS
<1> QED
  BY <1>0, <1>2a, <1>3, <1>4, <1>5 DEF Fit

LEMMA RowsB ==
  /\ "B" \in Formats
  /\ Fit("B", <<Rg, Rg, Im>>, 3) /\ Fit("B", <<RgIm, Im>>, 2) /\ Fit("B", <<Rg, Im, Im>>, 3)
  /\ Fit("B", <<RgIm, RgIm, Im>>, 3) /\ Fit("B", <<Im>>, 1)
  /\ Fixes("B", {"CM"}, {}, 3) /\ Fixes("B", {"COND"}, {}, 2) /\ Fixes("B", {"COND"}, {}, 3)
  /\ Fixes("B", {}, {}, 1) /\ Fixes("B", {"BFN"}, {}, 3) /\ Fixes("B", {}, {}, 3)
  /\ Fixes("B", {"BFN", "INCDEC"}, {}, 3)
<1>0. "B" \in Formats
  BY DEF Formats
<1>1. May("B", 1) = RI /\ May("B", 2) = RI /\ May("B", 3) = I
  BY SlotsB
<1>2a. Slots("B", <<Rg, Rg, Im>>)
  BY <1>1, ThreeSlots, AllTakes, AdmittedKinds DEF R, I, RI
<1>2b. Slots("B", <<RgIm, Im>>)
  BY <1>1, TwoSlots, AllTakes, AdmittedKinds DEF R, I, RI
<1>2c. Slots("B", <<Rg, Im, Im>>)
  BY <1>1, ThreeSlots, AllTakes, AdmittedKinds DEF R, I, RI
<1>2d. Slots("B", <<RgIm, RgIm, Im>>)
  BY <1>1, ThreeSlots, AllTakes, AdmittedKinds DEF R, I, RI
<1>2e. Slots("B", <<Im>>)
  BY <1>1, OneSlot, AllTakes, AdmittedKinds DEF R, I, RI
<1>3. /\ Fixes("B", {"CM"}, {}, 3) /\ Fixes("B", {"COND"}, {}, 2) /\ Fixes("B", {"COND"}, {}, 3)
      /\ Fixes("B", {}, {}, 1) /\ Fixes("B", {"BFN"}, {}, 3) /\ Fixes("B", {}, {}, 3)
      /\ Fixes("B", {"BFN", "INCDEC"}, {}, 3)
  BY DEF Fixes, OfRegisters, Behind, OverThird, OverFourth, Bare
<1>4. /\ Extra("B", <<Rg, Rg, Im>>) /\ Extra("B", <<RgIm, Im>>) /\ Extra("B", <<Rg, Im, Im>>)
      /\ Extra("B", <<RgIm, RgIm, Im>>) /\ Extra("B", <<Im>>)
  BY AdmittedKinds DEF Extra, R
<1>5. /\ Len(<<Rg, Rg, Im>>) = 3 /\ Len(<<RgIm, Im>>) = 2 /\ Len(<<Rg, Im, Im>>) = 3
      /\ Len(<<RgIm, RgIm, Im>>) = 3 /\ Len(<<Im>>) = 1
  OBVIOUS
<1> QED
  BY <1>0, <1>2a, <1>2b, <1>2c, <1>2d, <1>2e, <1>3, <1>4, <1>5 DEF Fit

LEMMA RowsBL2 ==
  /\ "BL2" \in Formats
  /\ Fit("BL2", <<Rg, Im>>, 2) /\ Fit("BL2", <<Lk, Im>>, 2)
  /\ Fixes("BL2", {}, {}, 2)
<1>0. "BL2" \in Formats
  BY DEF Formats
<1>1. May("BL2", 1) = {"REG", "LK"} /\ May("BL2", 2) = I
  BY SlotsBL2
<1>2a. Slots("BL2", <<Rg, Im>>)
  BY <1>1, TwoSlots, AllTakes, AdmittedKinds DEF R, I, RI
<1>2b. Slots("BL2", <<Lk, Im>>)
  BY <1>1, TwoSlots, AllTakes, AdmittedKinds DEF R, I, RI
<1>3. /\ Fixes("BL2", {}, {}, 2)
  BY DEF Fixes, OfRegisters, Behind, OverThird, OverFourth, Bare
<1>4. /\ Extra("BL2", <<Rg, Im>>) /\ Extra("BL2", <<Lk, Im>>)
  BY AdmittedKinds DEF Extra, R
<1>5. /\ Len(<<Rg, Im>>) = 2 /\ Len(<<Lk, Im>>) = 2
  OBVIOUS
<1> QED
  BY <1>0, <1>2a, <1>2b, <1>3, <1>4, <1>5 DEF Fit

LEMMA RowsJ2 ==
  /\ "J2" \in Formats
  /\ Fit("J2", <<Rg>>, 1) /\ Fit("J2", <<Ind>>, 1) /\ Fit("J2", <<Im>>, 1)
  /\ Fixes("J2", {"RD"}, {}, 1) /\ Fixes("J2", {}, {}, 1)
<1>0. "J2" \in Formats
  BY DEF Formats
<1>1. May("J2", 1) = {"IMM", "REGIND", "REG"}
  BY SlotsJ2
<1>2a. Slots("J2", <<Rg>>)
  BY <1>1, OneSlot, AllTakes, AdmittedKinds DEF R, I, RI
<1>2b. Slots("J2", <<Ind>>)
  BY <1>1, OneSlot, AllTakes, AdmittedKinds DEF R, I, RI
<1>2c. Slots("J2", <<Im>>)
  BY <1>1, OneSlot, AllTakes, AdmittedKinds DEF R, I, RI
<1>3. /\ Fixes("J2", {"RD"}, {}, 1) /\ Fixes("J2", {}, {}, 1)
  BY DEF Fixes, OfRegisters, Behind, OverThird, OverFourth, Bare
<1>4. /\ Extra("J2", <<Rg>>) /\ Extra("J2", <<Ind>>) /\ Extra("J2", <<Im>>)
  BY AdmittedKinds DEF Extra, R
<1>5. /\ Len(<<Rg>>) = 1 /\ Len(<<Ind>>) = 1 /\ Len(<<Im>>) = 1
  OBVIOUS
<1> QED
  BY <1>0, <1>2a, <1>2b, <1>2c, <1>3, <1>4, <1>5 DEF Fit

LEMMA RowsJL2 ==
  /\ "JL2" \in Formats
  /\ Fit("JL2", <<Lk, Ind>>, 2) /\ Fit("JL2", <<Lk, Im>>, 2)
  /\ Fixes("JL2", {}, {}, 2)
<1>0. "JL2" \in Formats
  BY DEF Formats
<1>1. May("JL2", 1) = {"LK"} /\ May("JL2", 2) = {"IMM", "REGIND"}
  BY SlotsJL2
<1>2a. Slots("JL2", <<Lk, Ind>>)
  BY <1>1, TwoSlots, AllTakes, AdmittedKinds DEF R, I, RI
<1>2b. Slots("JL2", <<Lk, Im>>)
  BY <1>1, TwoSlots, AllTakes, AdmittedKinds DEF R, I, RI
<1>3. /\ Fixes("JL2", {}, {}, 2)
  BY DEF Fixes, OfRegisters, Behind, OverThird, OverFourth, Bare
<1>4. /\ Extra("JL2", <<Lk, Ind>>) /\ Extra("JL2", <<Lk, Im>>)
  BY AdmittedKinds DEF Extra, R
<1>5. /\ Len(<<Lk, Ind>>) = 2 /\ Len(<<Lk, Im>>) = 2
  OBVIOUS
<1> QED
  BY <1>0, <1>2a, <1>2b, <1>3, <1>4, <1>5 DEF Fit

LEMMA RowsJL4 ==
  /\ "JL4" \in Formats
  /\ Fit("JL4", <<Lk, Im>>, 2)
  /\ Fixes("JL4", {}, {}, 2)
<1>0. "JL4" \in Formats
  BY DEF Formats
<1>1. May("JL4", 1) = {"LK"} /\ May("JL4", 2) = I
  BY SlotsJL4
<1>2a. Slots("JL4", <<Lk, Im>>)
  BY <1>1, TwoSlots, AllTakes, AdmittedKinds DEF R, I, RI
<1>3. /\ Fixes("JL4", {}, {}, 2)
  BY DEF Fixes, OfRegisters, Behind, OverThird, OverFourth, Bare
<1>4. /\ Extra("JL4", <<Lk, Im>>)
  BY AdmittedKinds DEF Extra, R
<1>5. /\ Len(<<Lk, Im>>) = 2
  OBVIOUS
<1> QED
  BY <1>0, <1>2a, <1>3, <1>4, <1>5 DEF Fit

LEMMA RowsJSCNDX ==
  /\ "JSCNDX" \in Formats
  /\ Fit("JSCNDX", <<Lk, ISc>>, 2)
  /\ Fixes("JSCNDX", {"R2FUNC"}, {}, 2)
<1>0. "JSCNDX" \in Formats
  BY DEF Formats
<1>1. May("JSCNDX", 1) = {"LK"} /\ May("JSCNDX", 2) = {"IND_SCNDX"}
  BY SlotsJSCNDX
<1>2a. Slots("JSCNDX", <<Lk, ISc>>)
  BY <1>1, TwoSlots, AllTakes, AdmittedKinds DEF R, I, RI
<1>3. /\ Fixes("JSCNDX", {"R2FUNC"}, {}, 2)
  BY DEF Fixes, OfRegisters, Behind, OverThird, OverFourth, Bare
<1>4. /\ Extra("JSCNDX", <<Lk, ISc>>)
  BY AdmittedKinds DEF Extra, R
<1>5. /\ Len(<<Lk, ISc>>) = 2
  OBVIOUS
<1> QED
  BY <1>0, <1>2a, <1>3, <1>4, <1>5 DEF Fit

LEMMA RowsREGIND ==
  /\ "REGIND" \in Formats
  /\ Fit("REGIND", <<Rg, Ind>>, 2) /\ Fit("REGIND", <<Im, Ind>>, 2)
  /\ Fixes("REGIND", {}, {"LSDISP"}, 2) /\ Fixes("REGIND", {"LSSIZE"}, {"LSDISP"}, 2)
<1>0. "REGIND" \in Formats
  BY DEF Formats
<1>1. May("REGIND", 1) = RI /\ May("REGIND", 2) = {"REGIND"}
  BY SlotsREGIND
<1>2a. Slots("REGIND", <<Rg, Ind>>)
  BY <1>1, TwoSlots, AllTakes, AdmittedKinds DEF R, I, RI
<1>2b. Slots("REGIND", <<Im, Ind>>)
  BY <1>1, TwoSlots, AllTakes, AdmittedKinds DEF R, I, RI
<1>3. /\ Fixes("REGIND", {}, {"LSDISP"}, 2) /\ Fixes("REGIND", {"LSSIZE"}, {"LSDISP"}, 2)
  BY DEF Fixes, OfRegisters, Behind, OverThird, OverFourth, Bare
<1>4. /\ Extra("REGIND", <<Rg, Ind>>) /\ Extra("REGIND", <<Im, Ind>>)
  BY AdmittedKinds DEF Extra, R
<1>5. /\ Len(<<Rg, Ind>>) = 2 /\ Len(<<Im, Ind>>) = 2
  OBVIOUS
<1> QED
  BY <1>0, <1>2a, <1>2b, <1>3, <1>4, <1>5 DEF Fit

LEMMA RowsSCNDX ==
  /\ "SCNDX" \in Formats
  /\ Fit("SCNDX", <<Rg, Scn>>, 2) /\ Fit("SCNDX", <<Im, Scn>>, 2)
  /\ Fixes("SCNDX", {"LSFUNC"}, {"LSDISP"}, 2) /\ Fixes("SCNDX", {"S"}, {"LSDISP"}, 2)
  /\ Fixes("SCNDX", {}, {"LSDISP"}, 2) /\ Fixes("SCNDX", {"LSSIZE"}, {"LSDISP"}, 2)
<1>0. "SCNDX" \in Formats
  BY DEF Formats
<1>1. May("SCNDX", 1) = RI /\ May("SCNDX", 2) = {"SCNDX"}
  BY SlotsSCNDX
<1>2a. Slots("SCNDX", <<Rg, Scn>>)
  BY <1>1, TwoSlots, AllTakes, AdmittedKinds DEF R, I, RI
<1>2b. Slots("SCNDX", <<Im, Scn>>)
  BY <1>1, TwoSlots, AllTakes, AdmittedKinds DEF R, I, RI
<1>3. /\ Fixes("SCNDX", {"LSFUNC"}, {"LSDISP"}, 2) /\ Fixes("SCNDX", {"S"}, {"LSDISP"}, 2)
      /\ Fixes("SCNDX", {}, {"LSDISP"}, 2) /\ Fixes("SCNDX", {"LSSIZE"}, {"LSDISP"}, 2)
  BY DEF Fixes, OfRegisters, Behind, OverThird, OverFourth, Bare
<1>4. /\ Extra("SCNDX", <<Rg, Scn>>) /\ Extra("SCNDX", <<Im, Scn>>)
  BY AdmittedKinds DEF Extra, R
<1>5. /\ Len(<<Rg, Scn>>) = 2 /\ Len(<<Im, Scn>>) = 2
  OBVIOUS
<1> QED
  BY <1>0, <1>2a, <1>2b, <1>3, <1>4, <1>5 DEF Fit

LEMMA RowsDIRECT ==
  /\ "DIRECT" \in Formats
  /\ Fit("DIRECT", <<Rg, Im>>, 2) /\ Fit("DIRECT", <<Im, Im>>, 2)
  /\ Fixes("DIRECT", {}, {"LSDISP"}, 2) /\ Fixes("DIRECT", {"LSSIZE"}, {"LSDISP"}, 2)
<1>0. "DIRECT" \in Formats
  BY DEF Formats
<1>1. May("DIRECT", 1) = RI /\ May("DIRECT", 2) = I
  BY SlotsDIRECT
<1>2a. Slots("DIRECT", <<Rg, Im>>)
  BY <1>1, TwoSlots, AllTakes, AdmittedKinds DEF R, I, RI
<1>2b. Slots("DIRECT", <<Im, Im>>)
  BY <1>1, TwoSlots, AllTakes, AdmittedKinds DEF R, I, RI
<1>3. /\ Fixes("DIRECT", {}, {"LSDISP"}, 2) /\ Fixes("DIRECT", {"LSSIZE"}, {"LSDISP"}, 2)
  BY DEF Fixes, OfRegisters, Behind, OverThird, OverFourth, Bare
<1>4. /\ Extra("DIRECT", <<Rg, Im>>) /\ Extra("DIRECT", <<Im, Im>>)
  BY AdmittedKinds DEF Extra, R
<1>5. /\ Len(<<Rg, Im>>) = 2 /\ Len(<<Im, Im>>) = 2
  OBVIOUS
<1> QED
  BY <1>0, <1>2a, <1>2b, <1>3, <1>4, <1>5 DEF Fit

LEMMA RowsPRED ==
  /\ "PRED" \in Formats
  /\ Fit("PRED", <<Rg, Ps>>, 2) /\ Fit("PRED", <<Nx, Rg, Ps>>, 3)
  /\ Fixes("PRED", {"COND", "R2FUNC"}, {}, 2) /\ Fixes("PRED", {}, {}, 3)
<1>0. "PRED" \in Formats
  BY DEF Formats
<1>1. May("PRED", 1) = R /\ May("PRED", 2) = {"REG", "PREDSTR"} /\ May("PRED", 3) = {"PREDSTR"}
  BY SlotsPRED
<1>2a. Slots("PRED", <<Rg, Ps>>)
  BY <1>1, TwoSlots, AllTakes, AdmittedKinds DEF R, I, RI
<1>2b. Slots("PRED", <<Nx, Rg, Ps>>)
  BY <1>1, ThreeSlots, AllTakes, AdmittedKinds DEF R, I, RI
<1>3. /\ Fixes("PRED", {"COND", "R2FUNC"}, {}, 2) /\ Fixes("PRED", {}, {}, 3)
  BY DEF Fixes, OfRegisters, Behind, OverThird, OverFourth, Bare
<1>4. /\ Extra("PRED", <<Rg, Ps>>) /\ Extra("PRED", <<Nx, Rg, Ps>>)
  BY AdmittedKinds DEF Extra, R
<1>5. /\ Len(<<Rg, Ps>>) = 2 /\ Len(<<Nx, Rg, Ps>>) = 3
  OBVIOUS
<1> QED
  BY <1>0, <1>2a, <1>2b, <1>3, <1>4, <1>5 DEF Fit

LEMMA RowsREX ==
  /\ "REX" \in Formats
  /\ Fit("REX", <<Im, Rg>>, 2)
  /\ Fixes("REX", {}, {}, 2)
<1>0. "REX" \in Formats
  BY DEF Formats
<1>1. May("REX", 1) = I /\ May("REX", 2) = R
  BY SlotsREX
<1>2a. Slots("REX", <<Im, Rg>>)
  BY <1>1, TwoSlots, AllTakes, AdmittedKinds DEF R, I, RI
<1>3. /\ Fixes("REX", {}, {}, 2)
  BY DEF Fixes, OfRegisters, Behind, OverThird, OverFourth, Bare
<1>4. /\ Extra("REX", <<Im, Rg>>)
  BY AdmittedKinds DEF Extra, R
<1>5. /\ Len(<<Im, Rg>>) = 2
  OBVIOUS
<1> QED
  BY <1>0, <1>2a, <1>3, <1>4, <1>5 DEF Fit

LEMMA RowsENTER ==
  /\ "ENTER" \in Formats
  /\ Fit("ENTER", <<Rg, Rg, Rg, Im>>, 4) /\ Fit("ENTER", <<Im, Im>>, 2)
  /\ Fixes("ENTER", {}, {}, 4) /\ Fixes("ENTER", {}, {}, 2)
<1>0. "ENTER" \in Formats
  BY DEF Formats
<1>1. May("ENTER", 1) = RI /\ May("ENTER", 2) = RI /\ May("ENTER", 3) = R /\ May("ENTER", 4) = I
  BY SlotsENTER
<1>2a. Slots("ENTER", <<Rg, Rg, Rg, Im>>)
  BY <1>1, FourSlots, AllTakes, AdmittedKinds, Zenon DEF R, I, RI
<1>2b. Slots("ENTER", <<Im, Im>>)
  BY <1>1, TwoSlots, AllTakes, AdmittedKinds DEF R, I, RI
<1>3. /\ Fixes("ENTER", {}, {}, 4) /\ Fixes("ENTER", {}, {}, 2)
  BY DEF Fixes, OfRegisters, Behind, OverThird, OverFourth, Bare
<1>4. /\ Extra("ENTER", <<Rg, Rg, Rg, Im>>) /\ Extra("ENTER", <<Im, Im>>)
  BY AdmittedKinds DEF Extra, R
<1>5. /\ Len(<<Rg, Rg, Rg, Im>>) = 4 /\ Len(<<Im, Im>>) = 2
  OBVIOUS
<1> QED
  BY <1>0, <1>2a, <1>2b, <1>3, <1>4, <1>5 DEF Fit

LEMMA RowsLEAVE ==
  /\ "LEAVE" \in Formats
  /\ Fit("LEAVE", <<Rg, Rg, Rg, Im>>, 4) /\ Fit("LEAVE", <<Im, Im>>, 2)
  /\ Fixes("LEAVE", {}, {}, 4) /\ Fixes("LEAVE", {}, {}, 2)
<1>0. "LEAVE" \in Formats
  BY DEF Formats
<1>1. May("LEAVE", 1) = RI /\ May("LEAVE", 2) = RI /\ May("LEAVE", 3) = R /\ May("LEAVE", 4) = I
  BY SlotsENTER
<1>2a. Slots("LEAVE", <<Rg, Rg, Rg, Im>>)
  BY <1>1, FourSlots, AllTakes, AdmittedKinds, Zenon DEF R, I, RI
<1>2b. Slots("LEAVE", <<Im, Im>>)
  BY <1>1, TwoSlots, AllTakes, AdmittedKinds DEF R, I, RI
<1>3. /\ Fixes("LEAVE", {}, {}, 4) /\ Fixes("LEAVE", {}, {}, 2)
  BY DEF Fixes, OfRegisters, Behind, OverThird, OverFourth, Bare
<1>4. /\ Extra("LEAVE", <<Rg, Rg, Rg, Im>>) /\ Extra("LEAVE", <<Im, Im>>)
  BY AdmittedKinds DEF Extra, R
<1>5. /\ Len(<<Rg, Rg, Rg, Im>>) = 4 /\ Len(<<Im, Im>>) = 2
  OBVIOUS
<1> QED
  BY <1>0, <1>2a, <1>2b, <1>3, <1>4, <1>5 DEF Fit

LEMMA RowsRTDR ==
  /\ "RTDR" \in Formats
  /\ Fit("RTDR", <<Rg, Rg, Rg, Rg>>, 4) /\ Fit("RTDR", <<>>, 0) /\ Fit("RTDR", <<Nx, Im>>, 2)
  /\ Fit("RTDR", <<Nx, Rg>>, 2) /\ Fit("RTDR", <<Nx, Im, Im>>, 3)
  /\ Fixes("RTDR", {"LKS", "R2FUNC"}, {}, 4) /\ Fixes("RTDR", {"LKS", "RTYPE"}, {}, 0)
  /\ Fixes("RTDR", {"LKS", "RTYPE"}, {}, 2) /\ Fixes("RTDR", {"LKS", "RTYPE"}, {}, 3)
  /\ Fixes("RTDR", {"RA", "RTYPE"}, {}, 0) /\ Fixes("RTDR", {"RTYPE"}, {}, 0)
  /\ Fixes("RTDR", {"RTYPE"}, {}, 2)
<1>0. "RTDR" \in Formats
  BY DEF Formats
<1>1. May("RTDR", 1) = R /\ May("RTDR", 2) = RI /\ May("RTDR", 3) = RI /\ May("RTDR", 4) = R
  BY SlotsRTDR
<1>2a. Slots("RTDR", <<Rg, Rg, Rg, Rg>>)
  BY <1>1, FourSlots, AllTakes, AdmittedKinds, Zenon DEF R, I, RI
<1>2b. Slots("RTDR", <<>>)
  BY <1>1, NoSlots, AllTakes, AdmittedKinds DEF R, I, RI
<1>2c. Slots("RTDR", <<Nx, Im>>)
  BY <1>1, TwoSlots, AllTakes, AdmittedKinds DEF R, I, RI
<1>2d. Slots("RTDR", <<Nx, Rg>>)
  BY <1>1, TwoSlots, AllTakes, AdmittedKinds DEF R, I, RI
<1>2e. Slots("RTDR", <<Nx, Im, Im>>)
  BY <1>1, ThreeSlots, AllTakes, AdmittedKinds DEF R, I, RI
<1>3. /\ Fixes("RTDR", {"LKS", "R2FUNC"}, {}, 4) /\ Fixes("RTDR", {"LKS", "RTYPE"}, {}, 0)
      /\ Fixes("RTDR", {"LKS", "RTYPE"}, {}, 2) /\ Fixes("RTDR", {"LKS", "RTYPE"}, {}, 3)
      /\ Fixes("RTDR", {"RA", "RTYPE"}, {}, 0) /\ Fixes("RTDR", {"RTYPE"}, {}, 0)
      /\ Fixes("RTDR", {"RTYPE"}, {}, 2)
  BY DEF Fixes, OfRegisters, Behind, OverThird, OverFourth, Bare
<1>4. /\ Extra("RTDR", <<Rg, Rg, Rg, Rg>>) /\ Extra("RTDR", <<>>) /\ Extra("RTDR", <<Nx, Im>>)
      /\ Extra("RTDR", <<Nx, Rg>>) /\ Extra("RTDR", <<Nx, Im, Im>>)
  BY AdmittedKinds DEF Extra, R
<1>5. /\ Len(<<Rg, Rg, Rg, Rg>>) = 4 /\ Len(<<>>) = 0 /\ Len(<<Nx, Im>>) = 2
      /\ Len(<<Nx, Rg>>) = 2 /\ Len(<<Nx, Im, Im>>) = 3
  OBVIOUS
<1> QED
  BY <1>0, <1>2a, <1>2b, <1>2c, <1>2d, <1>2e, <1>3, <1>4, <1>5 DEF Fit

AllGood(rows) == \A r \in rows : GoodRow(r)

LEMMA GoodRows ==
  ASSUME NEW f \in Formats, NEW fixed, NEW tags, NEW len \in Lengths, f = "PADI" => len = 0,
         NEW operands,
         \A o \in operands : \E n : Fit(f, o, n) /\ Fixes(f, fixed, tags, n)
  PROVE  AllGood(Rows(f, fixed, tags, len, operands))
<1> SUFFICES ASSUME NEW r \in Rows(f, fixed, tags, len, operands)
             PROVE  GoodRow(r)
  BY Zenon DEF AllGood
<1>1. PICK o \in operands : r = [f |-> f, fixed |-> fixed, tags |-> tags, len |-> len, ops |-> o]
  BY DEF Rows
<1>2. r.f = f /\ r.fixed = fixed /\ r.tags = tags /\ r.len = len /\ r.ops = o
  BY <1>1
<1> QED
  BY <1>2 DEF GoodRow, Fit

LEMMA GoodUnion ==
  ASSUME NEW S, \A rows \in S : AllGood(rows)
  PROVE  AllGood(UNION S)
  BY DEF AllGood

LEMMA AllLengths ==
  /\ 0 \in Lengths /\ 2 \in Lengths /\ 3 \in Lengths /\ 4 \in Lengths /\ 6 \in Lengths
  /\ 8 \in Lengths /\ 64 \in Lengths
  BY DEF Lengths

LEMMA GoodRows4A == AllGood(Rows4A)
<1>1. AllGood(Rows("ATOM", {"FMT2"}, {}, 6, {<<Im>>}))
  BY GoodRows, AllLengths, RowsATOM
<1>2. AllGood(Rows("B", {"CM"}, {}, 6, {<<Rg, Rg, Im>>}))
  BY GoodRows, AllLengths, RowsB
<1>3. AllGood(Rows("B", {"COND"}, {}, 6, {
        <<RgIm, Im>>, <<Rg, Im, Im>>, <<Rg, Rg, Im>>, <<RgIm, RgIm, Im>>}))
  BY GoodRows, AllLengths, RowsB
<1>4. AllGood(Rows("B", {}, {}, 6, {<<Im>>}))
  BY GoodRows, AllLengths, RowsB
<1>5. AllGood(Rows("B2", {"RD"}, {}, 6, {<<Im>>}))
  BY GoodRows, AllLengths, RowsB2
<1>6. AllGood(Rows("BL2", {}, {}, 6, {<<Rg, Im>>}))
  BY GoodRows, AllLengths, RowsBL2
<1>7. AllGood(Rows("BZ", {"BRMS", "COND"}, {"BZ"}, 6, {<<Rg, Im>>}))
  BY GoodRows, AllLengths, RowsBZ
<1>8. AllGood(Rows("R1", {}, {}, 6, {<<>>, <<Rg, Rg>>}))
  BY GoodRows, AllLengths, RowsR1
<1>9. AllGood(Rows("R2", {"FMT3", "IM2", "R2FUNC"}, {}, 6, {<<Rg, Rg, Rg>>}))
  BY GoodRows, AllLengths, RowsR2
<1>10. AllGood(Rows("R2", {"MS3", "OP3", "R2FUNC", "RS3"}, {}, 6, {<<Rg, Rg, Rg>>}))
  BY GoodRows, AllLengths, RowsR2
<1>11. AllGood(Rows("R2", {"R2FUNC"}, {}, 8, {<<Rg, Rg, Rg>>}))
  BY GoodRows, AllLengths, RowsR2
<1>12. AllGood(Rows("R3", {"MS3", "OP3", "R3FUNC"}, {}, 6, {<<Rg, Rg, Rg>>}))
  BY GoodRows, AllLengths, RowsR3
<1>13. AllGood(Rows("R3", {"MS3", "OP3", "R3FUNC", "RS3"}, {}, 6, {<<Rg, Rg, Rg>>}))
  BY GoodRows, AllLengths, RowsR3
<1>14. AllGood(Rows("R3", {"OP3", "R3FUNC"}, {}, 6, {
        <<Rg, Rg, Im>>, <<Rg, Rg, Rg>>, <<Rg, Rg, RgIm, RgIm>>}))
  BY GoodRows, AllLengths, RowsR3
<1>15. AllGood(Rows("R3", {"R3FUNC"}, {}, 6, {<<Rg, Rg, RgIm, RgIm>>}))
  BY GoodRows, AllLengths, RowsR3
<1>16. AllGood(Rows("R3", {}, {}, 8, {<<Rg, Rg, Rg>>, <<Rg, Rg, Rg, Im>>, <<Rg, Rg, Rg, Rg>>}))
  BY GoodRows, AllLengths, RowsR3
<1>17. AllGood(Rows("R3", {}, {}, 64, {<<Rg, Rg>>}))
  BY GoodRows, AllLengths, RowsR3
<1>18. AllGood(Rows("R3RR", {}, {}, 8, {<<Nx, Nx, Rg>>, <<Rg, Rg, Rg>>}))
  BY GoodRows, AllLengths, RowsR3RR
<1>19. AllGood(Rows("RI", {"FUNC3"}, {}, 6, {<<Rg, Rg, Im>>}))
  BY GoodRows, AllLengths, RowsRI
<1>20. AllGood(Rows("RI", {}, {"INTI"}, 6, {<<Rg, Rg, Im>>}))
  BY GoodRows, AllLengths, RowsRI
<1>21. AllGood(Rows("RI", {}, {}, 4, {<<Rg, Rg, Im>>}))
  BY GoodRows, AllLengths, RowsRI
<1>22. AllGood(Rows("RI", {}, {}, 6, {<<Rg, Rg>>}))
  BY GoodRows, AllLengths, RowsRI
<1>23. AllGood(Rows("RI", {}, {}, 8, {<<Rg, Rg, Im>>}))
  BY GoodRows, AllLengths, RowsRI
<1>24. AllGood(Rows("RIA", {"MS3", "OP3", "R2FUNC", "RS3"}, {}, 6, {<<Rg, Im, Rg>>}))
  BY GoodRows, AllLengths, RowsRIA
<1>25. AllGood(Rows("RIB", {"MS3", "OP3", "R2FUNC", "RS3"}, {}, 6, {<<Rg, Rg, Im>>}))
  BY GoodRows, AllLengths, RowsRIB
<1>26. AllGood(Rows("RIB", {}, {}, 3, {<<Rg, Rg, Im>>}))
  BY GoodRows, AllLengths, RowsRIB
<1>27. \A rows \in {
      Rows("ATOM", {"FMT2"}, {}, 6, {<<Im>>}),
      Rows("B", {"CM"}, {}, 6, {<<Rg, Rg, Im>>}),
      Rows("B", {"COND"}, {}, 6, {
        <<RgIm, Im>>, <<Rg, Im, Im>>, <<Rg, Rg, Im>>, <<RgIm, RgIm, Im>>}),
      Rows("B", {}, {}, 6, {<<Im>>}),
      Rows("B2", {"RD"}, {}, 6, {<<Im>>}),
      Rows("BL2", {}, {}, 6, {<<Rg, Im>>}),
      Rows("BZ", {"BRMS", "COND"}, {"BZ"}, 6, {<<Rg, Im>>}),
      Rows("R1", {}, {}, 6, {<<>>, <<Rg, Rg>>}),
      Rows("R2", {"FMT3", "IM2", "R2FUNC"}, {}, 6, {<<Rg, Rg, Rg>>}),
      Rows("R2", {"MS3", "OP3", "R2FUNC", "RS3"}, {}, 6, {<<Rg, Rg, Rg>>}),
      Rows("R2", {"R2FUNC"}, {}, 8, {<<Rg, Rg, Rg>>}),
      Rows("R3", {"MS3", "OP3", "R3FUNC"}, {}, 6, {<<Rg, Rg, Rg>>}),
      Rows("R3", {"MS3", "OP3", "R3FUNC", "RS3"}, {}, 6, {<<Rg, Rg, Rg>>}),
      Rows("R3", {"OP3", "R3FUNC"}, {}, 6, {
        <<Rg, Rg, Im>>, <<Rg, Rg, Rg>>, <<Rg, Rg, RgIm, RgIm>>}),
      Rows("R3", {"R3FUNC"}, {}, 6, {<<Rg, Rg, RgIm, RgIm>>}),
      Rows("R3", {}, {}, 8, {<<Rg, Rg, Rg>>, <<Rg, Rg, Rg, Im>>, <<Rg, Rg, Rg, Rg>>}),
      Rows("R3", {}, {}, 64, {<<Rg, Rg>>}),
      Rows("R3RR", {}, {}, 8, {<<Nx, Nx, Rg>>, <<Rg, Rg, Rg>>}),
      Rows("RI", {"FUNC3"}, {}, 6, {<<Rg, Rg, Im>>}),
      Rows("RI", {}, {"INTI"}, 6, {<<Rg, Rg, Im>>}),
      Rows("RI", {}, {}, 4, {<<Rg, Rg, Im>>}),
      Rows("RI", {}, {}, 6, {<<Rg, Rg>>}),
      Rows("RI", {}, {}, 8, {<<Rg, Rg, Im>>}),
      Rows("RIA", {"MS3", "OP3", "R2FUNC", "RS3"}, {}, 6, {<<Rg, Im, Rg>>}),
      Rows("RIB", {"MS3", "OP3", "R2FUNC", "RS3"}, {}, 6, {<<Rg, Rg, Im>>}),
      Rows("RIB", {}, {}, 3, {<<Rg, Rg, Im>>})} : AllGood(rows)
  BY <1>1, <1>2, <1>3, <1>4, <1>5, <1>6, <1>7, <1>8, <1>9, <1>10, <1>11, <1>12, <1>13, <1>14,
     <1>15, <1>16, <1>17, <1>18, <1>19, <1>20, <1>21, <1>22, <1>23, <1>24, <1>25, <1>26, ZenonT(30)
<1> QED
  BY <1>27, GoodUnion, ZenonT(30) DEF Rows4A

LEMMA GoodRows4B == AllGood(Rows4B)
<1>1. AllGood(Rows("B", {"COND"}, {}, 6, {<<RgIm, RgIm, Im>>}))
  BY GoodRows, AllLengths, RowsB
<1>2. AllGood(Rows("BITS16", {}, {}, 6, {<<>>}))
  BY GoodRows, AllLengths, RowsBITS16
<1>3. AllGood(Rows("BITS16", {}, {}, 8, {<<Im>>}))
  BY GoodRows, AllLengths, RowsBITS16
<1>4. AllGood(Rows("DIRECT", {}, {"LSDISP"}, 3, {<<Rg, Im>>}))
  BY GoodRows, AllLengths, RowsDIRECT
<1>5. AllGood(Rows("DIRECT", {}, {"LSDISP"}, 6, {<<Rg, Im>>}))
  BY GoodRows, AllLengths, RowsDIRECT
<1>6. AllGood(Rows("DIRECT", {}, {"LSDISP"}, 8, {<<Rg, Im>>}))
  BY GoodRows, AllLengths, RowsDIRECT
<1>7. AllGood(Rows("ENTER", {}, {}, 6, {<<Rg, Rg, Rg, Im>>}))
  BY GoodRows, AllLengths, RowsENTER
<1>8. AllGood(Rows("INT", {}, {}, 4, {<<Im, Im>>}))
  BY GoodRows, AllLengths, RowsINT
<1>9. AllGood(Rows("J2", {"RD"}, {}, 6, {<<Rg>>, <<Ind>>}))
  BY GoodRows, AllLengths, RowsJ2
<1>10. AllGood(Rows("J2", {}, {}, 6, {<<Ind>>}))
  BY GoodRows, AllLengths, RowsJ2
<1>11. AllGood(Rows("J4", {"RD"}, {}, 6, {<<Im>>}))
  BY GoodRows, AllLengths, RowsJ4
<1>12. AllGood(Rows("J4", {}, {}, 6, {<<Im>>}))
  BY GoodRows, AllLengths, RowsJ4
<1>13. AllGood(Rows("JL2", {}, {}, 6, {<<Lk, Ind>>}))
  BY GoodRows, AllLengths, RowsJL2
<1>14. AllGood(Rows("JL4", {}, {}, 6, {<<Lk, Im>>}))
  BY GoodRows, AllLengths, RowsJL4
<1>15. AllGood(Rows("JSCNDX", {"R2FUNC"}, {}, 6, {<<Lk, ISc>>}))
  BY GoodRows, AllLengths, RowsJSCNDX
<1>16. AllGood(Rows("LEAVE", {}, {}, 6, {<<Rg, Rg, Rg, Im>>}))
  BY GoodRows, AllLengths, RowsLEAVE
<1>17. AllGood(Rows("MV", {"BFFUNC", "BFMB", "BFME"}, {}, 8, {<<Rg, Rg>>}))
  BY GoodRows, AllLengths, RowsMV
<1>18. AllGood(Rows("MV", {"R3FUNC"}, {}, 6, {<<Rg, Rg>>}))
  BY GoodRows, AllLengths, RowsMV
<1>19. AllGood(Rows("MV", {}, {}, 3, {<<Rg, Rg>>}))
  BY GoodRows, AllLengths, RowsMV
<1>20. AllGood(Rows("R1", {"FLT1", "FUNC5"}, {"FP"}, 8, {<<VrRg, VrRg>>}))
  BY GoodRows, AllLengths, RowsR1
<1>21. AllGood(Rows("R2", {"FUNC5", "RB"}, {"FP"}, 8, {<<VrRg, VrRg>>}))
  BY GoodRows, AllLengths, RowsR2
<1>22. AllGood(Rows("R2", {"FUNC5"}, {"FP"}, 8, {<<VrRg, VrRg, VrRg>>}))
  BY GoodRows, AllLengths, RowsR2
<1>23. AllGood(Rows("R2", {"R2FUNC"}, {}, 8, {<<Rg, Rg, Rg>>}))
  BY GoodRows, AllLengths, RowsR2
<1>24. AllGood(Rows("R3", {"MS3", "OP3", "R3FUNC"}, {}, 6, {<<Rg, Rg, Rg>>}))
  BY GoodRows, AllLengths, RowsR3
<1>25. AllGood(Rows("R3", {"OP3", "R3FUNC"}, {}, 6, {
        <<Rg, Rg, Im>>, <<Rg, Rg, Rg>>, <<Rg, Rg, RgIm, RgIm>>}))
  BY GoodRows, AllLengths, RowsR3
<1>26. AllGood(Rows("R3", {"R3FUNC"}, {}, 6, {<<Rg, Rg, RgIm, RgIm>>}))
  BY GoodRows, AllLengths, RowsR3
<1>27. AllGood(Rows("R3RR", {}, {}, 8, {<<Rg, Rg, Rg, Rg>>}))
  BY GoodRows, AllLengths, RowsR3RR
<1>28. AllGood(Rows("REGIND", {}, {"LSDISP"}, 3, {<<Rg, Ind>>}))
  BY GoodRows, AllLengths, RowsREGIND
<1>29. AllGood(Rows("REGIND", {}, {"LSDISP"}, 6, {<<Rg, Ind>>}))
  BY GoodRows, AllLengths, RowsREGIND
<1>30. AllGood(Rows("REGIND", {}, {"LSDISP"}, 8, {<<Rg, Ind>>}))
  BY GoodRows, AllLengths, RowsREGIND
<1>31. AllGood(Rows("RI", {}, {"FP"}, 8, {<<VrRg, VrRg, Im>>}))
  BY GoodRows, AllLengths, RowsRI
<1>32. AllGood(Rows("RI", {}, {"INTI"}, 6, {<<Rg, Rg, Im>>}))
  BY GoodRows, AllLengths, RowsRI
<1>33. AllGood(Rows("RI", {}, {"NEGIMM"}, 8, {<<VrRg, VrRg, Im>>}))
  BY GoodRows, AllLengths, RowsRI
<1>34. AllGood(Rows("RI", {}, {}, 6, {<<Rg, Nx, Im>>}))
  BY GoodRows, AllLengths, RowsRI
<1>35. AllGood(Rows("RI", {}, {}, 8, {<<Rg, Rg, Im>>}))
  BY GoodRows, AllLengths, RowsRI
<1>36. AllGood(Rows("RIA", {"R2FUNC"}, {}, 8, {<<Rg, Im, Rg>>}))
  BY GoodRows, AllLengths, RowsRIA
<1>37. AllGood(Rows("RIB", {"R2FUNC"}, {}, 8, {<<Rg, Rg, Im>>}))
  BY GoodRows, AllLengths, RowsRIB
<1>38. AllGood(Rows("RIL", {"R2FUNC"}, {}, 8, {<<Rg, Rg, Im>>}))
  BY GoodRows, AllLengths, RowsRIL
<1>39. AllGood(Rows("RIV", {}, {"FP"}, 8, {<<VrRg, Im, VrRg>>}))
  BY GoodRows, AllLengths, RowsRIV
<1>40. AllGood(Rows("SCNDX", {"LSFUNC"}, {"LSDISP"}, 8, {<<Rg, Scn>>}))
  BY GoodRows, AllLengths, RowsSCNDX
<1>41. AllGood(Rows("SCNDX", {"S"}, {"LSDISP"}, 6, {<<Rg, Scn>>}))
  BY GoodRows, AllLengths, RowsSCNDX
<1>42. AllGood(Rows("SCNDX", {}, {"LSDISP"}, 3, {<<Rg, Scn>>}))
  BY GoodRows, AllLengths, RowsSCNDX
<1>43. AllGood(Rows("SCNDX", {}, {"LSDISP"}, 6, {<<Rg, Scn>>}))
  BY GoodRows, AllLengths, RowsSCNDX
<1>44. \A rows \in {
      Rows("B", {"COND"}, {}, 6, {<<RgIm, RgIm, Im>>}),
      Rows("BITS16", {}, {}, 6, {<<>>}),
      Rows("BITS16", {}, {}, 8, {<<Im>>}),
      Rows("DIRECT", {}, {"LSDISP"}, 3, {<<Rg, Im>>}),
      Rows("DIRECT", {}, {"LSDISP"}, 6, {<<Rg, Im>>}),
      Rows("DIRECT", {}, {"LSDISP"}, 8, {<<Rg, Im>>}),
      Rows("ENTER", {}, {}, 6, {<<Rg, Rg, Rg, Im>>}),
      Rows("INT", {}, {}, 4, {<<Im, Im>>}),
      Rows("J2", {"RD"}, {}, 6, {<<Rg>>, <<Ind>>}),
      Rows("J2", {}, {}, 6, {<<Ind>>}),
      Rows("J4", {"RD"}, {}, 6, {<<Im>>}),
      Rows("J4", {}, {}, 6, {<<Im>>}),
      Rows("JL2", {}, {}, 6, {<<Lk, Ind>>}),
      Rows("JL4", {}, {}, 6, {<<Lk, Im>>}),
      Rows("JSCNDX", {"R2FUNC"}, {}, 6, {<<Lk, ISc>>}),
      Rows("LEAVE", {}, {}, 6, {<<Rg, Rg, Rg, Im>>}),
      Rows("MV", {"BFFUNC", "BFMB", "BFME"}, {}, 8, {<<Rg, Rg>>}),
      Rows("MV", {"R3FUNC"}, {}, 6, {<<Rg, Rg>>}),
      Rows("MV", {}, {}, 3, {<<Rg, Rg>>}),
      Rows("R1", {"FLT1", "FUNC5"}, {"FP"}, 8, {<<VrRg, VrRg>>}),
      Rows("R2", {"FUNC5", "RB"}, {"FP"}, 8, {<<VrRg, VrRg>>}),
      Rows("R2", {"FUNC5"}, {"FP"}, 8, {<<VrRg, VrRg, VrRg>>}),
      Rows("R2", {"R2FUNC"}, {}, 8, {<<Rg, Rg, Rg>>}),
      Rows("R3", {"MS3", "OP3", "R3FUNC"}, {}, 6, {<<Rg, Rg, Rg>>}),
      Rows("R3", {"OP3", "R3FUNC"}, {}, 6, {
        <<Rg, Rg, Im>>, <<Rg, Rg, Rg>>, <<Rg, Rg, RgIm, RgIm>>}),
      Rows("R3", {"R3FUNC"}, {}, 6, {<<Rg, Rg, RgIm, RgIm>>}),
      Rows("R3RR", {}, {}, 8, {<<Rg, Rg, Rg, Rg>>}),
      Rows("REGIND", {}, {"LSDISP"}, 3, {<<Rg, Ind>>}),
      Rows("REGIND", {}, {"LSDISP"}, 6, {<<Rg, Ind>>}),
      Rows("REGIND", {}, {"LSDISP"}, 8, {<<Rg, Ind>>}),
      Rows("RI", {}, {"FP"}, 8, {<<VrRg, VrRg, Im>>}),
      Rows("RI", {}, {"INTI"}, 6, {<<Rg, Rg, Im>>}),
      Rows("RI", {}, {"NEGIMM"}, 8, {<<VrRg, VrRg, Im>>}),
      Rows("RI", {}, {}, 6, {<<Rg, Nx, Im>>}),
      Rows("RI", {}, {}, 8, {<<Rg, Rg, Im>>}),
      Rows("RIA", {"R2FUNC"}, {}, 8, {<<Rg, Im, Rg>>}),
      Rows("RIB", {"R2FUNC"}, {}, 8, {<<Rg, Rg, Im>>}),
      Rows("RIL", {"R2FUNC"}, {}, 8, {<<Rg, Rg, Im>>}),
      Rows("RIV", {}, {"FP"}, 8, {<<VrRg, Im, VrRg>>}),
      Rows("SCNDX", {"LSFUNC"}, {"LSDISP"}, 8, {<<Rg, Scn>>}),
      Rows("SCNDX", {"S"}, {"LSDISP"}, 6, {<<Rg, Scn>>}),
      Rows("SCNDX", {}, {"LSDISP"}, 3, {<<Rg, Scn>>}),
      Rows("SCNDX", {}, {"LSDISP"}, 6, {<<Rg, Scn>>})} : AllGood(rows)
  BY <1>1, <1>2, <1>3, <1>4, <1>5, <1>6, <1>7, <1>8, <1>9, <1>10, <1>11, <1>12, <1>13, <1>14,
     <1>15, <1>16, <1>17, <1>18, <1>19, <1>20, <1>21, <1>22, <1>23, <1>24, <1>25, <1>26, <1>27,
     <1>28, <1>29, <1>30, <1>31, <1>32, <1>33, <1>34, <1>35, <1>36, <1>37, <1>38, <1>39, <1>40,
     <1>41, <1>42, <1>43, ZenonT(30)
<1> QED
  BY <1>44, GoodUnion, ZenonT(30) DEF Rows4B

LEMMA GoodRows4C == AllGood(Rows4C)
<1>1. AllGood(Rows("BITS16", {}, {}, 6, {<<>>}))
  BY GoodRows, AllLengths, RowsBITS16
<1>2. AllGood(Rows("MV", {"BFFUNC", "BFMB", "BFME"}, {}, 8, {<<Rg, Rg>>}))
  BY GoodRows, AllLengths, RowsMV
<1>3. AllGood(Rows("PADI", {}, {}, 0, {<<>>}))
  BY GoodRows, AllLengths, RowsPADI
<1>4. AllGood(Rows("PFX", {}, {}, 3, {<<Im>>}))
  BY GoodRows, AllLengths, RowsPFX
<1>5. AllGood(Rows("PRED", {"COND", "R2FUNC"}, {}, 8, {<<Rg, Ps>>}))
  BY GoodRows, AllLengths, RowsPRED
<1>6. AllGood(Rows("PRED", {}, {}, 8, {<<Nx, Rg, Ps>>}))
  BY GoodRows, AllLengths, RowsPRED
<1>7. AllGood(Rows("R1", {"R1FUNC"}, {}, 8, {<<Rg, Rg>>}))
  BY GoodRows, AllLengths, RowsR1
<1>8. AllGood(Rows("R1", {}, {}, 4, {<<Rg, Rg>>}))
  BY GoodRows, AllLengths, RowsR1
<1>9. AllGood(Rows("R1", {}, {}, 0, {<<Rg, Rg>>}))
  BY GoodRows, AllLengths, RowsR1
<1>10. AllGood(Rows("R2", {"R2FUNC"}, {}, 8, {<<Rg, Rg, Rg>>, <<Rg, Rg, Rg, Rg>>}))
  BY GoodRows, AllLengths, RowsR2
<1>11. AllGood(Rows("R2", {}, {}, 6, {<<Rg, Rg>>, <<Rg, Nx, Rg>>}))
  BY GoodRows, AllLengths, RowsR2
<1>12. AllGood(Rows("R3", {"MS3", "OP3", "R3FUNC"}, {}, 6, {<<Rg, Rg, Rg>>}))
  BY GoodRows, AllLengths, RowsR3
<1>13. AllGood(Rows("R3", {"OP3", "R3FUNC"}, {}, 6, {<<Rg, Rg, RgIm, RgIm>>}))
  BY GoodRows, AllLengths, RowsR3
<1>14. AllGood(Rows("R3", {"R3FUNC"}, {}, 6, {<<Rg, Rg, Im>>, <<Rg, Rg, Rg>>}))
  BY GoodRows, AllLengths, RowsR3
<1>15. AllGood(Rows("R3", {}, {}, 6, {
        <<Rg, Rg>>, <<Rg, Rg, Rg>>, <<Vr, Vr, VrRgIm, VrRgIm>>, <<Vr, Vr, VrRgIm, VrRgIm, Vm>>}))
  BY GoodRows, AllLengths, RowsR3
<1>16. AllGood(Rows("R3", {}, {}, 8, {
        <<Vr, Vr, VrRgIm, VrRgIm>>, <<Vr, Vr, VrRgIm, VrRgIm, Vm>>}))
  BY GoodRows, AllLengths, RowsR3
<1>17. AllGood(Rows("R3RI", {}, {}, 8, {<<Rg, Rg, Rg, Im>>}))
  BY GoodRows, AllLengths, RowsR3RI
<1>18. AllGood(Rows("R3RR", {}, {}, 8, {
        <<Rg>>, <<Nx, Nx, Im>>, <<Nx, Nx, Rg>>, <<Nx, Rg, Im>>, <<Nx, Rg, Rg>>, <<Rg, Nx, Im>>,
        <<Rg, Nx, Rg>>, <<Rg, Rg, Rg>>, <<Rg, Rg, Rg, Rg>>}))
  BY GoodRows, AllLengths, RowsR3RR
<1>19. AllGood(Rows("R4", {}, {}, 6, {<<Rg, Rg, Rg, Rg>>}))
  BY GoodRows, AllLengths, RowsR4
<1>20. AllGood(Rows("R5", {}, {}, 6, {<<Rg, Rg, Rg, Rg, Rg>>}))
  BY GoodRows, AllLengths, RowsR5
<1>21. AllGood(Rows("R6", {}, {}, 6, {<<Rg, Rg, Rg, Rg, Rg, Rg>>}))
  BY GoodRows, AllLengths, RowsR6
<1>22. AllGood(Rows("R7", {}, {}, 6, {<<Rg, Rg, Rg, Rg, Rg, Rg, Rg>>}))
  BY GoodRows, AllLengths, RowsR7
<1>23. AllGood(Rows("REP", {"CND3", "R2FUNC"}, {}, 8, {<<Im, Im>>}))
  BY GoodRows, AllLengths, RowsREP
<1>24. AllGood(Rows("REX", {}, {}, 8, {<<Im, Rg>>}))
  BY GoodRows, AllLengths, RowsREX
<1>25. AllGood(Rows("RI", {}, {"INTI"}, 6, {<<Rg, Rg, Im>>}))
  BY GoodRows, AllLengths, RowsRI
<1>26. AllGood(Rows("RI", {}, {}, 0, {<<Rg, Rg, Im>>}))
  BY GoodRows, AllLengths, RowsRI
<1>27. AllGood(Rows("RIB", {}, {}, 3, {<<Rg, Rg, Im>>}))
  BY GoodRows, AllLengths, RowsRIB
<1>28. AllGood(Rows("RII", {"FUNC3"}, {}, 8, {<<VrRg, VrRg, Im, Im>>}))
  BY GoodRows, AllLengths, RowsRII
<1>29. AllGood(Rows("RTDR", {"LKS", "R2FUNC"}, {}, 6, {<<Rg, Rg, Rg, Rg>>}))
  BY GoodRows, AllLengths, RowsRTDR
<1>30. AllGood(Rows("RTDR", {"LKS", "R2FUNC"}, {}, 8, {<<Rg, Rg, Rg, Rg>>}))
  BY GoodRows, AllLengths, RowsRTDR
<1>31. AllGood(Rows("RTDR", {"LKS", "RTYPE"}, {}, 6, {
        <<>>, <<Nx, Im>>, <<Nx, Rg>>, <<Nx, Im, Im>>}))
  BY GoodRows, AllLengths, RowsRTDR
<1>32. AllGood(Rows("RTDR", {"LKS", "RTYPE"}, {}, 8, {<<Nx, Im>>, <<Nx, Im, Im>>}))
  BY GoodRows, AllLengths, RowsRTDR
<1>33. AllGood(Rows("RTDR", {"RA", "RTYPE"}, {}, 8, {<<>>}))
  BY GoodRows, AllLengths, RowsRTDR
<1>34. AllGood(Rows("RTDR", {"RTYPE"}, {}, 8, {<<>>, <<Nx, Rg>>}))
  BY GoodRows, AllLengths, RowsRTDR
<1>35. AllGood(Rows("RTS", {}, {}, 2, {<<>>}))
  BY GoodRows, AllLengths, RowsRTS
<1>36. AllGood(Rows("SH", {"SHFUNC"}, {}, 8, {<<Rg, Rg, Rg>>}))
  BY GoodRows, AllLengths, RowsSH
<1>37. AllGood(Rows("SI", {"SHFUNC", "SHI"}, {}, 8, {<<Rg, Rg, Im>>}))
  BY GoodRows, AllLengths, RowsSI
<1>38. \A rows \in {
      Rows("BITS16", {}, {}, 6, {<<>>}),
      Rows("MV", {"BFFUNC", "BFMB", "BFME"}, {}, 8, {<<Rg, Rg>>}),
      Rows("PADI", {}, {}, 0, {<<>>}),
      Rows("PFX", {}, {}, 3, {<<Im>>}),
      Rows("PRED", {"COND", "R2FUNC"}, {}, 8, {<<Rg, Ps>>}),
      Rows("PRED", {}, {}, 8, {<<Nx, Rg, Ps>>}),
      Rows("R1", {"R1FUNC"}, {}, 8, {<<Rg, Rg>>}),
      Rows("R1", {}, {}, 4, {<<Rg, Rg>>}),
      Rows("R1", {}, {}, 0, {<<Rg, Rg>>}),
      Rows("R2", {"R2FUNC"}, {}, 8, {<<Rg, Rg, Rg>>, <<Rg, Rg, Rg, Rg>>}),
      Rows("R2", {}, {}, 6, {<<Rg, Rg>>, <<Rg, Nx, Rg>>}),
      Rows("R3", {"MS3", "OP3", "R3FUNC"}, {}, 6, {<<Rg, Rg, Rg>>}),
      Rows("R3", {"OP3", "R3FUNC"}, {}, 6, {<<Rg, Rg, RgIm, RgIm>>}),
      Rows("R3", {"R3FUNC"}, {}, 6, {<<Rg, Rg, Im>>, <<Rg, Rg, Rg>>}),
      Rows("R3", {}, {}, 6, {
        <<Rg, Rg>>, <<Rg, Rg, Rg>>, <<Vr, Vr, VrRgIm, VrRgIm>>, <<Vr, Vr, VrRgIm, VrRgIm, Vm>>}),
      Rows("R3", {}, {}, 8, {<<Vr, Vr, VrRgIm, VrRgIm>>, <<Vr, Vr, VrRgIm, VrRgIm, Vm>>}),
      Rows("R3RI", {}, {}, 8, {<<Rg, Rg, Rg, Im>>}),
      Rows("R3RR", {}, {}, 8, {
        <<Rg>>, <<Nx, Nx, Im>>, <<Nx, Nx, Rg>>, <<Nx, Rg, Im>>, <<Nx, Rg, Rg>>, <<Rg, Nx, Im>>,
        <<Rg, Nx, Rg>>, <<Rg, Rg, Rg>>, <<Rg, Rg, Rg, Rg>>}),
      Rows("R4", {}, {}, 6, {<<Rg, Rg, Rg, Rg>>}),
      Rows("R5", {}, {}, 6, {<<Rg, Rg, Rg, Rg, Rg>>}),
      Rows("R6", {}, {}, 6, {<<Rg, Rg, Rg, Rg, Rg, Rg>>}),
      Rows("R7", {}, {}, 6, {<<Rg, Rg, Rg, Rg, Rg, Rg, Rg>>}),
      Rows("REP", {"CND3", "R2FUNC"}, {}, 8, {<<Im, Im>>}),
      Rows("REX", {}, {}, 8, {<<Im, Rg>>}),
      Rows("RI", {}, {"INTI"}, 6, {<<Rg, Rg, Im>>}),
      Rows("RI", {}, {}, 0, {<<Rg, Rg, Im>>}),
      Rows("RIB", {}, {}, 3, {<<Rg, Rg, Im>>}),
      Rows("RII", {"FUNC3"}, {}, 8, {<<VrRg, VrRg, Im, Im>>}),
      Rows("RTDR", {"LKS", "R2FUNC"}, {}, 6, {<<Rg, Rg, Rg, Rg>>}),
      Rows("RTDR", {"LKS", "R2FUNC"}, {}, 8, {<<Rg, Rg, Rg, Rg>>}),
      Rows("RTDR", {"LKS", "RTYPE"}, {}, 6, {<<>>, <<Nx, Im>>, <<Nx, Rg>>, <<Nx, Im, Im>>}),
      Rows("RTDR", {"LKS", "RTYPE"}, {}, 8, {<<Nx, Im>>, <<Nx, Im, Im>>}),
      Rows("RTDR", {"RA", "RTYPE"}, {}, 8, {<<>>}),
      Rows("RTDR", {"RTYPE"}, {}, 8, {<<>>, <<Nx, Rg>>}),
      Rows("RTS", {}, {}, 2, {<<>>}),
      Rows("SH", {"SHFUNC"}, {}, 8, {<<Rg, Rg, Rg>>}),
      Rows("SI", {"SHFUNC", "SHI"}, {}, 8, {<<Rg, Rg, Im>>})} : AllGood(rows)
  BY <1>1, <1>2, <1>3, <1>4, <1>5, <1>6, <1>7, <1>8, <1>9, <1>10, <1>11, <1>12, <1>13, <1>14,
     <1>15, <1>16, <1>17, <1>18, <1>19, <1>20, <1>21, <1>22, <1>23, <1>24, <1>25, <1>26, <1>27,
     <1>28, <1>29, <1>30, <1>31, <1>32, <1>33, <1>34, <1>35, <1>36, <1>37, ZenonT(30)
<1> QED
  BY <1>38, GoodUnion, ZenonT(30) DEF Rows4C

LEMMA GoodRows4D == AllGood(Rows4D)
<1>1. AllGood(Rows("BITS16", {}, {}, 2, {<<>>}))
  BY GoodRows, AllLengths, RowsBITS16
<1>2. AllGood(Rows("BITS40", {}, {}, 8, {<<>>, <<Im>>}))
  BY GoodRows, AllLengths, RowsBITS40
<1>3. AllGood(Rows("DIRECT", {}, {"LSDISP"}, 6, {<<Im, Im>>, <<Rg, Im>>}))
  BY GoodRows, AllLengths, RowsDIRECT
<1>4. AllGood(Rows("DIRECT", {}, {"LSDISP"}, 8, {<<Rg, Im>>}))
  BY GoodRows, AllLengths, RowsDIRECT
<1>5. AllGood(Rows("MV", {}, {}, 4, {<<Rg, Rg>>}))
  BY GoodRows, AllLengths, RowsMV
<1>6. AllGood(Rows("R2", {"MS3", "OP3", "R2FUNC"}, {}, 6, {<<Rg, Rg, Rg>>}))
  BY GoodRows, AllLengths, RowsR2
<1>7. AllGood(Rows("R2", {"NRB", "OP3", "R2FUNC"}, {}, 6, {<<Rg, Rg, Rg>>}))
  BY GoodRows, AllLengths, RowsR2
<1>8. AllGood(Rows("R2", {"R2FUNC"}, {}, 8, {<<Rg, Rg, Rg>>, <<Vr, Vr, Vr>>}))
  BY GoodRows, AllLengths, RowsR2
<1>9. AllGood(Rows("R3", {"MS3", "OP3", "R3FUNC"}, {}, 6, {<<Rg, Rg, Rg>>}))
  BY GoodRows, AllLengths, RowsR3
<1>10. AllGood(Rows("R3", {"OP3", "R3FUNC"}, {}, 6, {<<Rg, Rg, RgIm, RgIm>>}))
  BY GoodRows, AllLengths, RowsR3
<1>11. AllGood(Rows("R3", {"R3FUNC"}, {}, 6, {<<Rg, Rg, RgIm, RgIm>>}))
  BY GoodRows, AllLengths, RowsR3
<1>12. AllGood(Rows("R3", {}, {}, 8, {<<Rg, Rg, Rg>>}))
  BY GoodRows, AllLengths, RowsR3
<1>13. AllGood(Rows("R3RR", {}, {}, 8, {<<Rg, Nx, Im>>, <<Rg, Nx, Rg>>}))
  BY GoodRows, AllLengths, RowsR3RR
<1>14. AllGood(Rows("REGIND", {}, {"LSDISP"}, 6, {<<Im, Ind>>, <<Rg, Ind>>}))
  BY GoodRows, AllLengths, RowsREGIND
<1>15. AllGood(Rows("REGIND", {}, {"LSDISP"}, 8, {<<Rg, Ind>>}))
  BY GoodRows, AllLengths, RowsREGIND
<1>16. AllGood(Rows("RI", {}, {"INTI"}, 6, {<<Rg, Rg, Im>>}))
  BY GoodRows, AllLengths, RowsRI
<1>17. AllGood(Rows("RI", {}, {"NEGIMM"}, 6, {<<Rg, Rg, Im>>}))
  BY GoodRows, AllLengths, RowsRI
<1>18. AllGood(Rows("RI", {}, {}, 0, {<<Rg, Rg, Im>>}))
  BY GoodRows, AllLengths, RowsRI
<1>19. AllGood(Rows("RI", {}, {}, 8, {<<Rg, Rg, Im>>}))
  BY GoodRows, AllLengths, RowsRI
<1>20. AllGood(Rows("RIA", {"MS3", "OP3", "R2FUNC"}, {}, 6, {<<Rg, Im, Rg>>}))
  BY GoodRows, AllLengths, RowsRIA
<1>21. AllGood(Rows("RIB", {"MS3", "OP3", "R2FUNC"}, {}, 6, {<<Rg, Rg, Im>>}))
  BY GoodRows, AllLengths, RowsRIB
<1>22. AllGood(Rows("RIL", {}, {}, 8, {<<Rg, Rg, Im>>}))
  BY GoodRows, AllLengths, RowsRIL
<1>23. AllGood(Rows("SCNDX", {"LSFUNC"}, {"LSDISP"}, 8, {<<Rg, Scn>>}))
  BY GoodRows, AllLengths, RowsSCNDX
<1>24. AllGood(Rows("SCNDX", {}, {"LSDISP"}, 6, {<<Im, Scn>>, <<Rg, Scn>>}))
  BY GoodRows, AllLengths, RowsSCNDX
<1>25. AllGood(Rows("SH", {"SHFUNC"}, {}, 6, {<<Rg, Rg, Rg, Rg>>}))
  BY GoodRows, AllLengths, RowsSH
<1>26. AllGood(Rows("SI", {"SHFUNC"}, {}, 6, {<<Rg, Rg, Im>>, <<Rg, Rg, Rg, Im>>}))
  BY GoodRows, AllLengths, RowsSI
<1>27. AllGood(Rows("SYNC", {}, {}, 8, {<<Im>>}))
  BY GoodRows, AllLengths, RowsSYNC
<1>28. AllGood(Rows("VMASK", {"R2FUNC"}, {}, 8, {<<Vs>>}))
  BY GoodRows, AllLengths, RowsVMASK
<1>29. \A rows \in {
      Rows("BITS16", {}, {}, 2, {<<>>}),
      Rows("BITS40", {}, {}, 8, {<<>>, <<Im>>}),
      Rows("DIRECT", {}, {"LSDISP"}, 6, {<<Im, Im>>, <<Rg, Im>>}),
      Rows("DIRECT", {}, {"LSDISP"}, 8, {<<Rg, Im>>}),
      Rows("MV", {}, {}, 4, {<<Rg, Rg>>}),
      Rows("R2", {"MS3", "OP3", "R2FUNC"}, {}, 6, {<<Rg, Rg, Rg>>}),
      Rows("R2", {"NRB", "OP3", "R2FUNC"}, {}, 6, {<<Rg, Rg, Rg>>}),
      Rows("R2", {"R2FUNC"}, {}, 8, {<<Rg, Rg, Rg>>, <<Vr, Vr, Vr>>}),
      Rows("R3", {"MS3", "OP3", "R3FUNC"}, {}, 6, {<<Rg, Rg, Rg>>}),
      Rows("R3", {"OP3", "R3FUNC"}, {}, 6, {<<Rg, Rg, RgIm, RgIm>>}),
      Rows("R3", {"R3FUNC"}, {}, 6, {<<Rg, Rg, RgIm, RgIm>>}),
      Rows("R3", {}, {}, 8, {<<Rg, Rg, Rg>>}),
      Rows("R3RR", {}, {}, 8, {<<Rg, Nx, Im>>, <<Rg, Nx, Rg>>}),
      Rows("REGIND", {}, {"LSDISP"}, 6, {<<Im, Ind>>, <<Rg, Ind>>}),
      Rows("REGIND", {}, {"LSDISP"}, 8, {<<Rg, Ind>>}),
      Rows("RI", {}, {"INTI"}, 6, {<<Rg, Rg, Im>>}),
      Rows("RI", {}, {"NEGIMM"}, 6, {<<Rg, Rg, Im>>}),
      Rows("RI", {}, {}, 0, {<<Rg, Rg, Im>>}),
      Rows("RI", {}, {}, 8, {<<Rg, Rg, Im>>}),
      Rows("RIA", {"MS3", "OP3", "R2FUNC"}, {}, 6, {<<Rg, Im, Rg>>}),
      Rows("RIB", {"MS3", "OP3", "R2FUNC"}, {}, 6, {<<Rg, Rg, Im>>}),
      Rows("RIL", {}, {}, 8, {<<Rg, Rg, Im>>}),
      Rows("SCNDX", {"LSFUNC"}, {"LSDISP"}, 8, {<<Rg, Scn>>}),
      Rows("SCNDX", {}, {"LSDISP"}, 6, {<<Im, Scn>>, <<Rg, Scn>>}),
      Rows("SH", {"SHFUNC"}, {}, 6, {<<Rg, Rg, Rg, Rg>>}),
      Rows("SI", {"SHFUNC"}, {}, 6, {<<Rg, Rg, Im>>, <<Rg, Rg, Rg, Im>>}),
      Rows("SYNC", {}, {}, 8, {<<Im>>}),
      Rows("VMASK", {"R2FUNC"}, {}, 8, {<<Vs>>})} : AllGood(rows)
  BY <1>1, <1>2, <1>3, <1>4, <1>5, <1>6, <1>7, <1>8, <1>9, <1>10, <1>11, <1>12, <1>13, <1>14,
     <1>15, <1>16, <1>17, <1>18, <1>19, <1>20, <1>21, <1>22, <1>23, <1>24, <1>25, <1>26, <1>27,
     <1>28, ZenonT(30)
<1> QED
  BY <1>29, GoodUnion, ZenonT(30) DEF Rows4D

LEMMA GoodRows4E == AllGood(Rows4E)
<1>1. AllGood(Rows("ATOM", {"FMT2"}, {}, 8, {<<Im>>}))
  BY GoodRows, AllLengths, RowsATOM
<1>2. AllGood(Rows("B", {"BFN"}, {}, 6, {<<Rg, Rg, Im>>}))
  BY GoodRows, AllLengths, RowsB
<1>3. AllGood(Rows("B", {"CM"}, {}, 6, {<<Rg, Rg, Im>>}))
  BY GoodRows, AllLengths, RowsB
<1>4. AllGood(Rows("B", {}, {}, 6, {<<Rg, Im, Im>>, <<Rg, Rg, Im>>}))
  BY GoodRows, AllLengths, RowsB
<1>5. AllGood(Rows("B", {}, {}, 8, {<<Im>>}))
  BY GoodRows, AllLengths, RowsB
<1>6. AllGood(Rows("B2", {"LKT"}, {}, 6, {<<Im>>}))
  BY GoodRows, AllLengths, RowsB2
<1>7. AllGood(Rows("B2", {}, {}, 6, {<<Im>>}))
  BY GoodRows, AllLengths, RowsB2
<1>8. AllGood(Rows("BFR3II", {"FUNC3"}, {}, 8, {<<Rg, Rg, Im, Im>>, <<VrRg, VrRg, Im, Im>>}))
  BY GoodRows, AllLengths, RowsBFR3II
<1>9. AllGood(Rows("BI", {"BFN"}, {}, 6, {<<Rg, Im, Im>>}))
  BY GoodRows, AllLengths, RowsBI
<1>10. AllGood(Rows("BITS16", {}, {}, 8, {<<Im>>}))
  BY GoodRows, AllLengths, RowsBITS16
<1>11. AllGood(Rows("BL2", {}, {}, 6, {<<Lk, Im>>}))
  BY GoodRows, AllLengths, RowsBL2
<1>12. AllGood(Rows("BZ", {"BFN"}, {"BZ"}, 6, {<<Rg, Im>>}))
  BY GoodRows, AllLengths, RowsBZ
<1>13. AllGood(Rows("ENTER", {}, {}, 3, {<<Im, Im>>}))
  BY GoodRows, AllLengths, RowsENTER
<1>14. AllGood(Rows("J2", {}, {}, 8, {<<Im>>}))
  BY GoodRows, AllLengths, RowsJ2
<1>15. AllGood(Rows("JL2", {}, {}, 8, {<<Lk, Im>>}))
  BY GoodRows, AllLengths, RowsJL2
<1>16. AllGood(Rows("R1", {"FLT1", "FUNC5"}, {"FP"}, 8, {<<VrRg, VrRg>>}))
  BY GoodRows, AllLengths, RowsR1
<1>17. AllGood(Rows("R1", {}, {}, 3, {<<>>}))
  BY GoodRows, AllLengths, RowsR1
<1>18. AllGood(Rows("R1", {}, {}, 6, {<<Rg, Rg>>}))
  BY GoodRows, AllLengths, RowsR1
<1>19. AllGood(Rows("R2", {"FMT3", "IM2", "R2FUNC"}, {}, 8, {<<Rg, Rg, Rg>>}))
  BY GoodRows, AllLengths, RowsR2
<1>20. AllGood(Rows("R2", {"FUNC5", "RB"}, {"FP"}, 8, {<<VrRg, VrRg>>}))
  BY GoodRows, AllLengths, RowsR2
<1>21. AllGood(Rows("R2", {"FUNC5"}, {"FP"}, 8, {<<VrRg, VrRg, VrRg>>}))
  BY GoodRows, AllLengths, RowsR2
<1>22. AllGood(Rows("R2", {"IM2", "R2FUNC"}, {}, 8, {<<Rg, Rg, Rg>>}))
  BY GoodRows, AllLengths, RowsR2
<1>23. AllGood(Rows("R2", {"OP3", "R2FUNC"}, {}, 8, {<<Rg, Rg, Rg>>}))
  BY GoodRows, AllLengths, RowsR2
<1>24. AllGood(Rows("R2", {"OP4", "R2FUNC"}, {}, 6, {<<Rg, Rg, Rg>>}))
  BY GoodRows, AllLengths, RowsR2
<1>25. AllGood(Rows("R2", {"R2FUNC"}, {}, 6, {<<Rg, Rg, Rg>>}))
  BY GoodRows, AllLengths, RowsR2
<1>26. AllGood(Rows("R2", {"R2FUNC"}, {}, 8, {<<Rg, Rg, Rg>>}))
  BY GoodRows, AllLengths, RowsR2
<1>27. AllGood(Rows("R2", {}, {}, 0, {<<Rg, Rg>>}))
  BY GoodRows, AllLengths, RowsR2
<1>28. AllGood(Rows("R2S", {}, {}, 3, {<<Rg, Rg, Rg>>}))
  BY GoodRows, AllLengths, RowsR2S
<1>29. AllGood(Rows("R3", {}, {}, 8, {<<Rg, Rg, Rg>>, <<Rg, Rg, Rg, Im>>, <<Rg, Rg, Rg, Rg>>}))
  BY GoodRows, AllLengths, RowsR3
<1>30. AllGood(Rows("R3RR", {}, {}, 8, {<<Nx, Nx, Rg>>, <<Rg, Rg, Rg>>}))
  BY GoodRows, AllLengths, RowsR3RR
<1>31. AllGood(Rows("RI", {"FUNC3"}, {}, 8, {<<Rg, Rg, Im>>}))
  BY GoodRows, AllLengths, RowsRI
<1>32. AllGood(Rows("RI", {"IPR"}, {}, 6, {<<Rg, Rg, Im>>}))
  BY GoodRows, AllLengths, RowsRI
<1>33. AllGood(Rows("RI", {"IPR"}, {}, 8, {<<Rg, Rg, Im>>}))
  BY GoodRows, AllLengths, RowsRI
<1>34. AllGood(Rows("RI", {}, {"FP"}, 8, {<<VrRg, VrRg, Im>>}))
  BY GoodRows, AllLengths, RowsRI
<1>35. AllGood(Rows("RI", {}, {}, 3, {<<Rg, Rg, Im>>}))
  BY GoodRows, AllLengths, RowsRI
<1>36. AllGood(Rows("RI", {}, {}, 4, {<<Rg, Rg, Im>>}))
  BY GoodRows, AllLengths, RowsRI
<1>37. AllGood(Rows("RI", {}, {}, 6, {<<Rg, Rg>>}))
  BY GoodRows, AllLengths, RowsRI
<1>38. AllGood(Rows("RI", {}, {}, 8, {<<Rg, Rg, Im>>}))
  BY GoodRows, AllLengths, RowsRI
<1>39. AllGood(Rows("RIA", {"IM2", "R2FUNC"}, {}, 8, {<<Rg, Im, Rg>>}))
  BY GoodRows, AllLengths, RowsRIA
<1>40. AllGood(Rows("RIA", {"R2FUNC"}, {}, 8, {<<Rg, Im, Rg>>}))
  BY GoodRows, AllLengths, RowsRIA
<1>41. AllGood(Rows("RIB", {"R2FUNC"}, {}, 8, {<<Rg, Rg, Im>>}))
  BY GoodRows, AllLengths, RowsRIB
<1>42. AllGood(Rows("RIS", {}, {}, 8, {<<Rg, Im, Im>>}))
  BY GoodRows, AllLengths, RowsRIS
<1>43. AllGood(Rows("RISH", {"SC"}, {}, 8, {<<Rg, Im>>}))
  BY GoodRows, AllLengths, RowsRISH
<1>44. AllGood(Rows("RISM", {"SC"}, {}, 8, {<<Rg, Im>>}))
  BY GoodRows, AllLengths, RowsRISM
<1>45. AllGood(Rows("RIV", {}, {"FP"}, 8, {<<VrRg, Im, VrRg>>}))
  BY GoodRows, AllLengths, RowsRIV
<1>46. \A rows \in {
      Rows("ATOM", {"FMT2"}, {}, 8, {<<Im>>}),
      Rows("B", {"BFN"}, {}, 6, {<<Rg, Rg, Im>>}),
      Rows("B", {"CM"}, {}, 6, {<<Rg, Rg, Im>>}),
      Rows("B", {}, {}, 6, {<<Rg, Im, Im>>, <<Rg, Rg, Im>>}),
      Rows("B", {}, {}, 8, {<<Im>>}),
      Rows("B2", {"LKT"}, {}, 6, {<<Im>>}),
      Rows("B2", {}, {}, 6, {<<Im>>}),
      Rows("BFR3II", {"FUNC3"}, {}, 8, {<<Rg, Rg, Im, Im>>, <<VrRg, VrRg, Im, Im>>}),
      Rows("BI", {"BFN"}, {}, 6, {<<Rg, Im, Im>>}),
      Rows("BITS16", {}, {}, 8, {<<Im>>}),
      Rows("BL2", {}, {}, 6, {<<Lk, Im>>}),
      Rows("BZ", {"BFN"}, {"BZ"}, 6, {<<Rg, Im>>}),
      Rows("ENTER", {}, {}, 3, {<<Im, Im>>}),
      Rows("J2", {}, {}, 8, {<<Im>>}),
      Rows("JL2", {}, {}, 8, {<<Lk, Im>>}),
      Rows("R1", {"FLT1", "FUNC5"}, {"FP"}, 8, {<<VrRg, VrRg>>}),
      Rows("R1", {}, {}, 3, {<<>>}),
      Rows("R1", {}, {}, 6, {<<Rg, Rg>>}),
      Rows("R2", {"FMT3", "IM2", "R2FUNC"}, {}, 8, {<<Rg, Rg, Rg>>}),
      Rows("R2", {"FUNC5", "RB"}, {"FP"}, 8, {<<VrRg, VrRg>>}),
      Rows("R2", {"FUNC5"}, {"FP"}, 8, {<<VrRg, VrRg, VrRg>>}),
      Rows("R2", {"IM2", "R2FUNC"}, {}, 8, {<<Rg, Rg, Rg>>}),
      Rows("R2", {"OP3", "R2FUNC"}, {}, 8, {<<Rg, Rg, Rg>>}),
      Rows("R2", {"OP4", "R2FUNC"}, {}, 6, {<<Rg, Rg, Rg>>}),
      Rows("R2", {"R2FUNC"}, {}, 6, {<<Rg, Rg, Rg>>}),
      Rows("R2", {"R2FUNC"}, {}, 8, {<<Rg, Rg, Rg>>}),
      Rows("R2", {}, {}, 0, {<<Rg, Rg>>}),
      Rows("R2S", {}, {}, 3, {<<Rg, Rg, Rg>>}),
      Rows("R3", {}, {}, 8, {<<Rg, Rg, Rg>>, <<Rg, Rg, Rg, Im>>, <<Rg, Rg, Rg, Rg>>}),
      Rows("R3RR", {}, {}, 8, {<<Nx, Nx, Rg>>, <<Rg, Rg, Rg>>}),
      Rows("RI", {"FUNC3"}, {}, 8, {<<Rg, Rg, Im>>}),
      Rows("RI", {"IPR"}, {}, 6, {<<Rg, Rg, Im>>}),
      Rows("RI", {"IPR"}, {}, 8, {<<Rg, Rg, Im>>}),
      Rows("RI", {}, {"FP"}, 8, {<<VrRg, VrRg, Im>>}),
      Rows("RI", {}, {}, 3, {<<Rg, Rg, Im>>}),
      Rows("RI", {}, {}, 4, {<<Rg, Rg, Im>>}),
      Rows("RI", {}, {}, 6, {<<Rg, Rg>>}),
      Rows("RI", {}, {}, 8, {<<Rg, Rg, Im>>}),
      Rows("RIA", {"IM2", "R2FUNC"}, {}, 8, {<<Rg, Im, Rg>>}),
      Rows("RIA", {"R2FUNC"}, {}, 8, {<<Rg, Im, Rg>>}),
      Rows("RIB", {"R2FUNC"}, {}, 8, {<<Rg, Rg, Im>>}),
      Rows("RIS", {}, {}, 8, {<<Rg, Im, Im>>}),
      Rows("RISH", {"SC"}, {}, 8, {<<Rg, Im>>}),
      Rows("RISM", {"SC"}, {}, 8, {<<Rg, Im>>}),
      Rows("RIV", {}, {"FP"}, 8, {<<VrRg, Im, VrRg>>})} : AllGood(rows)
  BY <1>1, <1>2, <1>3, <1>4, <1>5, <1>6, <1>7, <1>8, <1>9, <1>10, <1>11, <1>12, <1>13, <1>14,
     <1>15, <1>16, <1>17, <1>18, <1>19, <1>20, <1>21, <1>22, <1>23, <1>24, <1>25, <1>26, <1>27,
     <1>28, <1>29, <1>30, <1>31, <1>32, <1>33, <1>34, <1>35, <1>36, <1>37, <1>38, <1>39, <1>40,
     <1>41, <1>42, <1>43, <1>44, <1>45, ZenonT(30)
<1> QED
  BY <1>46, GoodUnion, ZenonT(30) DEF Rows4E

LEMMA GoodRows4F == AllGood(Rows4F)
<1>1. AllGood(Rows("B", {"BFN", "INCDEC"}, {}, 6, {<<Rg, Rg, Im>>}))
  BY GoodRows, AllLengths, RowsB
<1>2. AllGood(Rows("BITS16", {}, {}, 3, {<<>>}))
  BY GoodRows, AllLengths, RowsBITS16
<1>3. AllGood(Rows("BITS16", {}, {}, 8, {<<>>}))
  BY GoodRows, AllLengths, RowsBITS16
<1>4. AllGood(Rows("DIRECT", {"LSSIZE"}, {"LSDISP"}, 6, {<<Rg, Im>>}))
  BY GoodRows, AllLengths, RowsDIRECT
<1>5. AllGood(Rows("DIRECT", {}, {"LSDISP"}, 3, {<<Rg, Im>>}))
  BY GoodRows, AllLengths, RowsDIRECT
<1>6. AllGood(Rows("DIRECT", {}, {"LSDISP"}, 6, {<<Rg, Im>>}))
  BY GoodRows, AllLengths, RowsDIRECT
<1>7. AllGood(Rows("DIRECT", {}, {"LSDISP"}, 8, {<<Rg, Im>>}))
  BY GoodRows, AllLengths, RowsDIRECT
<1>8. AllGood(Rows("INT", {}, {}, 4, {<<Im, Im>>}))
  BY GoodRows, AllLengths, RowsINT
<1>9. AllGood(Rows("J2", {}, {}, 8, {<<Rg>>, <<Ind>>}))
  BY GoodRows, AllLengths, RowsJ2
<1>10. AllGood(Rows("J4", {}, {}, 8, {<<Im>>}))
  BY GoodRows, AllLengths, RowsJ4
<1>11. AllGood(Rows("JL2", {}, {}, 8, {<<Lk, Ind>>}))
  BY GoodRows, AllLengths, RowsJL2
<1>12. AllGood(Rows("JL4", {}, {}, 8, {<<Lk, Im>>}))
  BY GoodRows, AllLengths, RowsJL4
<1>13. AllGood(Rows("JSCNDX", {"R2FUNC"}, {}, 8, {<<Lk, ISc>>}))
  BY GoodRows, AllLengths, RowsJSCNDX
<1>14. AllGood(Rows("LEAVE", {}, {}, 3, {<<Im, Im>>}))
  BY GoodRows, AllLengths, RowsLEAVE
<1>15. AllGood(Rows("MV", {"BFFUNC", "BFMB", "BFME"}, {}, 8, {<<Rg, Rg>>}))
  BY GoodRows, AllLengths, RowsMV
<1>16. AllGood(Rows("MV", {}, {}, 3, {<<Rg, Rg>>}))
  BY GoodRows, AllLengths, RowsMV
<1>17. AllGood(Rows("R1", {"R1FUNC"}, {}, 8, {<<Rg, Rg>>}))
  BY GoodRows, AllLengths, RowsR1
<1>18. AllGood(Rows("R2", {"FUNC5", "RB"}, {"FP"}, 8, {<<VrRg, VrRg>>}))
  BY GoodRows, AllLengths, RowsR2
<1>19. AllGood(Rows("R2", {"R2FUNC"}, {}, 8, {<<Rg, Rg, Rg>>, <<Rg, Rg, Rg, Rg>>}))
  BY GoodRows, AllLengths, RowsR2
<1>20. AllGood(Rows("R2", {}, {}, 6, {<<Rg, Nx, Rg>>}))
  BY GoodRows, AllLengths, RowsR2
<1>21. AllGood(Rows("R3", {}, {}, 8, {
        <<Vr, Vr, VrRgIm, VrRgIm>>, <<Vr, Vr, VrRgIm, VrRgIm, Vm>>}))
  BY GoodRows, AllLengths, RowsR3
<1>22. AllGood(Rows("R3RI", {"R2FUNC"}, {}, 8, {<<Rg, Rg, Im>>}))
  BY GoodRows, AllLengths, RowsR3RI
<1>23. AllGood(Rows("R3RR", {}, {}, 8, {<<Rg, Rg, Rg>>, <<Rg, Rg, Rg, Rg>>}))
  BY GoodRows, AllLengths, RowsR3RR
<1>24. AllGood(Rows("REGIND", {"LSSIZE"}, {"LSDISP"}, 6, {<<Rg, Ind>>}))
  BY GoodRows, AllLengths, RowsREGIND
<1>25. AllGood(Rows("REGIND", {}, {"LSDISP"}, 3, {<<Rg, Ind>>}))
  BY GoodRows, AllLengths, RowsREGIND
<1>26. AllGood(Rows("REGIND", {}, {"LSDISP"}, 6, {<<Rg, Ind>>}))
  BY GoodRows, AllLengths, RowsREGIND
<1>27. AllGood(Rows("REGIND", {}, {"LSDISP"}, 8, {<<Rg, Ind>>}))
  BY GoodRows, AllLengths, RowsREGIND
<1>28. AllGood(Rows("RI", {}, {"NEGIMM"}, 8, {<<VrRg, VrRg, Im>>}))
  BY GoodRows, AllLengths, RowsRI
<1>29. AllGood(Rows("RI", {}, {}, 6, {<<Rg, Nx, Im>>}))
  BY GoodRows, AllLengths, RowsRI
<1>30. AllGood(Rows("RI", {}, {}, 8, {<<Rg, Rg, Im>>}))
  BY GoodRows, AllLengths, RowsRI
<1>31. AllGood(Rows("RI", {}, {}, 0, {<<Rg, Rg, Im>>}))
  BY GoodRows, AllLengths, RowsRI
<1>32. AllGood(Rows("RIL", {"R2FUNC"}, {}, 8, {<<Rg, Rg, Im>>}))
  BY GoodRows, AllLengths, RowsRIL
<1>33. AllGood(Rows("RTS", {}, {}, 2, {<<>>}))
  BY GoodRows, AllLengths, RowsRTS
<1>34. AllGood(Rows("SCNDX", {"LSFUNC"}, {"LSDISP"}, 8, {<<Rg, Scn>>}))
  BY GoodRows, AllLengths, RowsSCNDX
<1>35. AllGood(Rows("SCNDX", {"LSSIZE"}, {"LSDISP"}, 6, {<<Rg, Scn>>}))
  BY GoodRows, AllLengths, RowsSCNDX
<1>36. AllGood(Rows("SCNDX", {"S"}, {"LSDISP"}, 6, {<<Rg, Scn>>}))
  BY GoodRows, AllLengths, RowsSCNDX
<1>37. AllGood(Rows("SCNDX", {}, {"LSDISP"}, 3, {<<Rg, Scn>>}))
  BY GoodRows, AllLengths, RowsSCNDX
<1>38. AllGood(Rows("SCNDX", {}, {"LSDISP"}, 6, {<<Rg, Scn>>}))
  BY GoodRows, AllLengths, RowsSCNDX
<1>39. AllGood(Rows("SH", {"SHFUNC"}, {}, 8, {<<Rg, Rg, Rg>>}))
  BY GoodRows, AllLengths, RowsSH
<1>40. AllGood(Rows("SI", {"SHFUNC", "SHI"}, {}, 8, {<<Rg, Rg, Im>>}))
  BY GoodRows, AllLengths, RowsSI
<1>41. \A rows \in {
      Rows("B", {"BFN", "INCDEC"}, {}, 6, {<<Rg, Rg, Im>>}),
      Rows("BITS16", {}, {}, 3, {<<>>}),
      Rows("BITS16", {}, {}, 8, {<<>>}),
      Rows("DIRECT", {"LSSIZE"}, {"LSDISP"}, 6, {<<Rg, Im>>}),
      Rows("DIRECT", {}, {"LSDISP"}, 3, {<<Rg, Im>>}),
      Rows("DIRECT", {}, {"LSDISP"}, 6, {<<Rg, Im>>}),
      Rows("DIRECT", {}, {"LSDISP"}, 8, {<<Rg, Im>>}),
      Rows("INT", {}, {}, 4, {<<Im, Im>>}),
      Rows("J2", {}, {}, 8, {<<Rg>>, <<Ind>>}),
      Rows("J4", {}, {}, 8, {<<Im>>}),
      Rows("JL2", {}, {}, 8, {<<Lk, Ind>>}),
      Rows("JL4", {}, {}, 8, {<<Lk, Im>>}),
      Rows("JSCNDX", {"R2FUNC"}, {}, 8, {<<Lk, ISc>>}),
      Rows("LEAVE", {}, {}, 3, {<<Im, Im>>}),
      Rows("MV", {"BFFUNC", "BFMB", "BFME"}, {}, 8, {<<Rg, Rg>>}),
      Rows("MV", {}, {}, 3, {<<Rg, Rg>>}),
      Rows("R1", {"R1FUNC"}, {}, 8, {<<Rg, Rg>>}),
      Rows("R2", {"FUNC5", "RB"}, {"FP"}, 8, {<<VrRg, VrRg>>}),
      Rows("R2", {"R2FUNC"}, {}, 8, {<<Rg, Rg, Rg>>, <<Rg, Rg, Rg, Rg>>}),
      Rows("R2", {}, {}, 6, {<<Rg, Nx, Rg>>}),
      Rows("R3", {}, {}, 8, {<<Vr, Vr, VrRgIm, VrRgIm>>, <<Vr, Vr, VrRgIm, VrRgIm, Vm>>}),
      Rows("R3RI", {"R2FUNC"}, {}, 8, {<<Rg, Rg, Im>>}),
      Rows("R3RR", {}, {}, 8, {<<Rg, Rg, Rg>>, <<Rg, Rg, Rg, Rg>>}),
      Rows("REGIND", {"LSSIZE"}, {"LSDISP"}, 6, {<<Rg, Ind>>}),
      Rows("REGIND", {}, {"LSDISP"}, 3, {<<Rg, Ind>>}),
      Rows("REGIND", {}, {"LSDISP"}, 6, {<<Rg, Ind>>}),
      Rows("REGIND", {}, {"LSDISP"}, 8, {<<Rg, Ind>>}),
      Rows("RI", {}, {"NEGIMM"}, 8, {<<VrRg, VrRg, Im>>}),
      Rows("RI", {}, {}, 6, {<<Rg, Nx, Im>>}),
      Rows("RI", {}, {}, 8, {<<Rg, Rg, Im>>}),
      Rows("RI", {}, {}, 0, {<<Rg, Rg, Im>>}),
      Rows("RIL", {"R2FUNC"}, {}, 8, {<<Rg, Rg, Im>>}),
      Rows("RTS", {}, {}, 2, {<<>>}),
      Rows("SCNDX", {"LSFUNC"}, {"LSDISP"}, 8, {<<Rg, Scn>>}),
      Rows("SCNDX", {"LSSIZE"}, {"LSDISP"}, 6, {<<Rg, Scn>>}),
      Rows("SCNDX", {"S"}, {"LSDISP"}, 6, {<<Rg, Scn>>}),
      Rows("SCNDX", {}, {"LSDISP"}, 3, {<<Rg, Scn>>}),
      Rows("SCNDX", {}, {"LSDISP"}, 6, {<<Rg, Scn>>}),
      Rows("SH", {"SHFUNC"}, {}, 8, {<<Rg, Rg, Rg>>}),
      Rows("SI", {"SHFUNC", "SHI"}, {}, 8, {<<Rg, Rg, Im>>})} : AllGood(rows)
  BY <1>1, <1>2, <1>3, <1>4, <1>5, <1>6, <1>7, <1>8, <1>9, <1>10, <1>11, <1>12, <1>13, <1>14,
     <1>15, <1>16, <1>17, <1>18, <1>19, <1>20, <1>21, <1>22, <1>23, <1>24, <1>25, <1>26, <1>27,
     <1>28, <1>29, <1>30, <1>31, <1>32, <1>33, <1>34, <1>35, <1>36, <1>37, <1>38, <1>39, <1>40, ZenonT(30)
<1> QED
  BY <1>41, GoodUnion, ZenonT(30) DEF Rows4F

LEMMA GoodRows4G == AllGood(Rows4G)
<1>1. AllGood(Rows("DIRECT", {"LSSIZE"}, {"LSDISP"}, 6, {<<Rg, Im>>}))
  BY GoodRows, AllLengths, RowsDIRECT
<1>2. AllGood(Rows("DIRECT", {}, {"LSDISP"}, 8, {<<Rg, Im>>}))
  BY GoodRows, AllLengths, RowsDIRECT
<1>3. AllGood(Rows("PADI", {}, {}, 0, {<<>>}))
  BY GoodRows, AllLengths, RowsPADI
<1>4. AllGood(Rows("PFX", {}, {}, 3, {<<Im>>}))
  BY GoodRows, AllLengths, RowsPFX
<1>5. AllGood(Rows("PRED", {"COND", "R2FUNC"}, {}, 8, {<<Rg, Ps>>}))
  BY GoodRows, AllLengths, RowsPRED
<1>6. AllGood(Rows("PRED", {}, {}, 8, {<<Nx, Rg, Ps>>}))
  BY GoodRows, AllLengths, RowsPRED
<1>7. AllGood(Rows("R1", {}, {}, 4, {<<Rg, Rg>>}))
  BY GoodRows, AllLengths, RowsR1
<1>8. AllGood(Rows("R1", {}, {}, 0, {<<Rg, Rg>>}))
  BY GoodRows, AllLengths, RowsR1
<1>9. AllGood(Rows("R2", {"OP3", "R2FUNC"}, {}, 8, {<<Rg, Rg, Rg>>}))
  BY GoodRows, AllLengths, RowsR2
<1>10. AllGood(Rows("R2", {"R2FUNC"}, {}, 8, {<<Rg, Rg, Rg>>, <<Vr, Vr, Vr>>}))
  BY GoodRows, AllLengths, RowsR2
<1>11. AllGood(Rows("R3", {}, {}, 3, {<<Rg>>, <<Rg, Rg>>}))
  BY GoodRows, AllLengths, RowsR3
<1>12. AllGood(Rows("R3", {}, {}, 6, {<<Rg, Rg, Rg>>}))
  BY GoodRows, AllLengths, RowsR3
<1>13. AllGood(Rows("R3RI", {}, {}, 8, {<<Rg, Rg, Rg, Im>>}))
  BY GoodRows, AllLengths, RowsR3RI
<1>14. AllGood(Rows("R3RR", {}, {}, 8, {
        <<Rg>>, <<Nx, Nx, Im>>, <<Nx, Nx, Rg>>, <<Nx, Rg, Im>>, <<Nx, Rg, Rg>>, <<Rg, Nx, Im>>,
        <<Rg, Nx, Rg>>, <<Rg, Rg, Rg, Rg>>}))
  BY GoodRows, AllLengths, RowsR3RR
<1>15. AllGood(Rows("R4", {}, {}, 6, {<<Rg, Rg, Rg, Rg>>}))
  BY GoodRows, AllLengths, RowsR4
<1>16. AllGood(Rows("R5", {}, {}, 6, {<<Rg, Rg, Rg, Rg, Rg>>}))
  BY GoodRows, AllLengths, RowsR5
<1>17. AllGood(Rows("REGIND", {}, {"LSDISP"}, 8, {<<Rg, Ind>>}))
  BY GoodRows, AllLengths, RowsREGIND
<1>18. AllGood(Rows("REP", {"CND3", "R2FUNC"}, {}, 8, {<<Im, Im>>}))
  BY GoodRows, AllLengths, RowsREP
<1>19. AllGood(Rows("REX", {}, {}, 8, {<<Im, Rg>>}))
  BY GoodRows, AllLengths, RowsREX
<1>20. AllGood(Rows("RI", {"IPR"}, {}, 8, {<<Rg, Rg, Im>>}))
  BY GoodRows, AllLengths, RowsRI
<1>21. AllGood(Rows("RI", {}, {}, 8, {<<Rg, Rg, Im>>}))
  BY GoodRows, AllLengths, RowsRI
<1>22. AllGood(Rows("RIA", {"R2FUNC"}, {}, 8, {<<Rg, Im, Rg>>}))
  BY GoodRows, AllLengths, RowsRIA
<1>23. AllGood(Rows("RIB", {"R2FUNC"}, {}, 8, {<<Rg, Rg, Im>>}))
  BY GoodRows, AllLengths, RowsRIB
<1>24. AllGood(Rows("RIB", {}, {}, 0, {<<Rg, Rg, Im>>}))
  BY GoodRows, AllLengths, RowsRIB
<1>25. AllGood(Rows("RII", {"FUNC3"}, {}, 8, {<<VrRg, VrRg, Im, Im>>}))
  BY GoodRows, AllLengths, RowsRII
<1>26. AllGood(Rows("RTDR", {"LKS", "R2FUNC"}, {}, 6, {<<Rg, Rg, Rg, Rg>>}))
  BY GoodRows, AllLengths, RowsRTDR
<1>27. AllGood(Rows("RTDR", {"LKS", "R2FUNC"}, {}, 8, {<<Rg, Rg, Rg, Rg>>}))
  BY GoodRows, AllLengths, RowsRTDR
<1>28. AllGood(Rows("RTDR", {"LKS", "RTYPE"}, {}, 6, {
        <<>>, <<Nx, Im>>, <<Nx, Rg>>, <<Nx, Im, Im>>}))
  BY GoodRows, AllLengths, RowsRTDR
<1>29. AllGood(Rows("RTDR", {"LKS", "RTYPE"}, {}, 8, {<<Nx, Im>>, <<Nx, Im, Im>>}))
  BY GoodRows, AllLengths, RowsRTDR
<1>30. AllGood(Rows("RTDR", {"RA", "RTYPE"}, {}, 8, {<<>>}))
  BY GoodRows, AllLengths, RowsRTDR
<1>31. AllGood(Rows("RTDR", {"RTYPE"}, {}, 8, {<<>>, <<Nx, Rg>>}))
  BY GoodRows, AllLengths, RowsRTDR
<1>32. AllGood(Rows("SCNDX", {"LSFUNC"}, {"LSDISP"}, 8, {<<Rg, Scn>>}))
  BY GoodRows, AllLengths, RowsSCNDX
<1>33. AllGood(Rows("SH", {"SHFUNC"}, {}, 6, {<<Rg, Rg, Rg, Rg>>}))
  BY GoodRows, AllLengths, RowsSH
<1>34. AllGood(Rows("SH", {"SHFUNC"}, {}, 8, {<<Rg, Rg, Rg>>}))
  BY GoodRows, AllLengths, RowsSH
<1>35. AllGood(Rows("SI", {"SHFUNC", "SHI"}, {}, 8, {<<Rg, Rg, Im>>}))
  BY GoodRows, AllLengths, RowsSI
<1>36. AllGood(Rows("SI", {"SHFUNC"}, {}, 6, {<<Rg, Rg, Im>>, <<Rg, Rg, Rg, Im>>}))
  BY GoodRows, AllLengths, RowsSI
<1>37. \A rows \in {
      Rows("DIRECT", {"LSSIZE"}, {"LSDISP"}, 6, {<<Rg, Im>>}),
      Rows("DIRECT", {}, {"LSDISP"}, 8, {<<Rg, Im>>}),
      Rows("PADI", {}, {}, 0, {<<>>}),
      Rows("PFX", {}, {}, 3, {<<Im>>}),
      Rows("PRED", {"COND", "R2FUNC"}, {}, 8, {<<Rg, Ps>>}),
      Rows("PRED", {}, {}, 8, {<<Nx, Rg, Ps>>}),
      Rows("R1", {}, {}, 4, {<<Rg, Rg>>}),
      Rows("R1", {}, {}, 0, {<<Rg, Rg>>}),
      Rows("R2", {"OP3", "R2FUNC"}, {}, 8, {<<Rg, Rg, Rg>>}),
      Rows("R2", {"R2FUNC"}, {}, 8, {<<Rg, Rg, Rg>>, <<Vr, Vr, Vr>>}),
      Rows("R3", {}, {}, 3, {<<Rg>>, <<Rg, Rg>>}),
      Rows("R3", {}, {}, 6, {<<Rg, Rg, Rg>>}),
      Rows("R3RI", {}, {}, 8, {<<Rg, Rg, Rg, Im>>}),
      Rows("R3RR", {}, {}, 8, {
        <<Rg>>, <<Nx, Nx, Im>>, <<Nx, Nx, Rg>>, <<Nx, Rg, Im>>, <<Nx, Rg, Rg>>, <<Rg, Nx, Im>>,
        <<Rg, Nx, Rg>>, <<Rg, Rg, Rg, Rg>>}),
      Rows("R4", {}, {}, 6, {<<Rg, Rg, Rg, Rg>>}),
      Rows("R5", {}, {}, 6, {<<Rg, Rg, Rg, Rg, Rg>>}),
      Rows("REGIND", {}, {"LSDISP"}, 8, {<<Rg, Ind>>}),
      Rows("REP", {"CND3", "R2FUNC"}, {}, 8, {<<Im, Im>>}),
      Rows("REX", {}, {}, 8, {<<Im, Rg>>}),
      Rows("RI", {"IPR"}, {}, 8, {<<Rg, Rg, Im>>}),
      Rows("RI", {}, {}, 8, {<<Rg, Rg, Im>>}),
      Rows("RIA", {"R2FUNC"}, {}, 8, {<<Rg, Im, Rg>>}),
      Rows("RIB", {"R2FUNC"}, {}, 8, {<<Rg, Rg, Im>>}),
      Rows("RIB", {}, {}, 0, {<<Rg, Rg, Im>>}),
      Rows("RII", {"FUNC3"}, {}, 8, {<<VrRg, VrRg, Im, Im>>}),
      Rows("RTDR", {"LKS", "R2FUNC"}, {}, 6, {<<Rg, Rg, Rg, Rg>>}),
      Rows("RTDR", {"LKS", "R2FUNC"}, {}, 8, {<<Rg, Rg, Rg, Rg>>}),
      Rows("RTDR", {"LKS", "RTYPE"}, {}, 6, {<<>>, <<Nx, Im>>, <<Nx, Rg>>, <<Nx, Im, Im>>}),
      Rows("RTDR", {"LKS", "RTYPE"}, {}, 8, {<<Nx, Im>>, <<Nx, Im, Im>>}),
      Rows("RTDR", {"RA", "RTYPE"}, {}, 8, {<<>>}),
      Rows("RTDR", {"RTYPE"}, {}, 8, {<<>>, <<Nx, Rg>>}),
      Rows("SCNDX", {"LSFUNC"}, {"LSDISP"}, 8, {<<Rg, Scn>>}),
      Rows("SH", {"SHFUNC"}, {}, 6, {<<Rg, Rg, Rg, Rg>>}),
      Rows("SH", {"SHFUNC"}, {}, 8, {<<Rg, Rg, Rg>>}),
      Rows("SI", {"SHFUNC", "SHI"}, {}, 8, {<<Rg, Rg, Im>>}),
      Rows("SI", {"SHFUNC"}, {}, 6, {<<Rg, Rg, Im>>, <<Rg, Rg, Rg, Im>>})} : AllGood(rows)
  BY <1>1, <1>2, <1>3, <1>4, <1>5, <1>6, <1>7, <1>8, <1>9, <1>10, <1>11, <1>12, <1>13, <1>14,
     <1>15, <1>16, <1>17, <1>18, <1>19, <1>20, <1>21, <1>22, <1>23, <1>24, <1>25, <1>26, <1>27,
     <1>28, <1>29, <1>30, <1>31, <1>32, <1>33, <1>34, <1>35, <1>36, ZenonT(30)
<1> QED
  BY <1>37, GoodUnion, ZenonT(30) DEF Rows4G

LEMMA GoodRows4H == AllGood(Rows4H)
<1>1. AllGood(Rows("BITS16", {}, {}, 2, {<<>>}))
  BY GoodRows, AllLengths, RowsBITS16
<1>2. AllGood(Rows("BITS40", {}, {}, 8, {<<>>, <<Im>>}))
  BY GoodRows, AllLengths, RowsBITS40
<1>3. AllGood(Rows("DIRECT", {"LSSIZE"}, {"LSDISP"}, 6, {<<Rg, Im>>}))
  BY GoodRows, AllLengths, RowsDIRECT
<1>4. AllGood(Rows("DIRECT", {}, {"LSDISP"}, 3, {<<Rg, Im>>}))
  BY GoodRows, AllLengths, RowsDIRECT
<1>5. AllGood(Rows("DIRECT", {}, {"LSDISP"}, 6, {<<Rg, Im>>}))
  BY GoodRows, AllLengths, RowsDIRECT
<1>6. AllGood(Rows("DIRECT", {}, {"LSDISP"}, 8, {<<Rg, Im>>}))
  BY GoodRows, AllLengths, RowsDIRECT
<1>7. AllGood(Rows("MV", {}, {}, 4, {<<Rg, Rg>>}))
  BY GoodRows, AllLengths, RowsMV
<1>8. AllGood(Rows("R2", {"NRB", "OP3", "R2FUNC"}, {}, 6, {<<Rg, Rg, Rg>>}))
  BY GoodRows, AllLengths, RowsR2
<1>9. AllGood(Rows("R2", {"OP3", "R2FUNC"}, {}, 8, {<<Rg, Rg, Rg>>}))
  BY GoodRows, AllLengths, RowsR2
<1>10. AllGood(Rows("R2", {"R2FUNC"}, {}, 8, {<<Rg, Rg, Rg>>}))
  BY GoodRows, AllLengths, RowsR2
<1>11. AllGood(Rows("R3", {}, {}, 8, {<<Rg, Rg, Rg>>}))
  BY GoodRows, AllLengths, RowsR3
<1>12. AllGood(Rows("REGIND", {"LSSIZE"}, {"LSDISP"}, 6, {<<Rg, Ind>>}))
  BY GoodRows, AllLengths, RowsREGIND
<1>13. AllGood(Rows("REGIND", {}, {"LSDISP"}, 3, {<<Rg, Ind>>}))
  BY GoodRows, AllLengths, RowsREGIND
<1>14. AllGood(Rows("REGIND", {}, {"LSDISP"}, 6, {<<Rg, Ind>>}))
  BY GoodRows, AllLengths, RowsREGIND
<1>15. AllGood(Rows("REGIND", {}, {"LSDISP"}, 8, {<<Rg, Ind>>}))
  BY GoodRows, AllLengths, RowsREGIND
<1>16. AllGood(Rows("RI", {"IPR"}, {}, 8, {<<Rg, Rg, Im>>}))
  BY GoodRows, AllLengths, RowsRI
<1>17. AllGood(Rows("RI", {}, {"NEGIMM"}, 6, {<<Rg, Rg, Im>>}))
  BY GoodRows, AllLengths, RowsRI
<1>18. AllGood(Rows("RI", {}, {}, 0, {<<Rg, Rg, Im>>}))
  BY GoodRows, AllLengths, RowsRI
<1>19. AllGood(Rows("RI", {}, {}, 8, {<<Rg, Rg, Im>>}))
  BY GoodRows, AllLengths, RowsRI
<1>20. AllGood(Rows("RIA", {"R2FUNC"}, {}, 8, {<<Rg, Im, Rg>>}))
  BY GoodRows, AllLengths, RowsRIA
<1>21. AllGood(Rows("RIL", {}, {}, 8, {<<Rg, Rg, Im>>}))
  BY GoodRows, AllLengths, RowsRIL
<1>22. AllGood(Rows("RIS", {}, {}, 8, {<<Rg, Im, Im>>}))
  BY GoodRows, AllLengths, RowsRIS
<1>23. AllGood(Rows("RISH", {}, {}, 8, {<<Rg, Im>>}))
  BY GoodRows, AllLengths, RowsRISH
<1>24. AllGood(Rows("RISM", {}, {}, 8, {<<Rg, Im>>}))
  BY GoodRows, AllLengths, RowsRISM
<1>25. AllGood(Rows("SCNDX", {"LSFUNC"}, {"LSDISP"}, 8, {<<Rg, Scn>>}))
  BY GoodRows, AllLengths, RowsSCNDX
<1>26. AllGood(Rows("SCNDX", {"LSSIZE"}, {"LSDISP"}, 6, {<<Rg, Scn>>}))
  BY GoodRows, AllLengths, RowsSCNDX
<1>27. AllGood(Rows("SCNDX", {}, {"LSDISP"}, 3, {<<Rg, Scn>>}))
  BY GoodRows, AllLengths, RowsSCNDX
<1>28. AllGood(Rows("SCNDX", {}, {"LSDISP"}, 6, {<<Rg, Scn>>}))
  BY GoodRows, AllLengths, RowsSCNDX
<1>29. AllGood(Rows("SYNC", {}, {}, 8, {<<Im>>}))
  BY GoodRows, AllLengths, RowsSYNC
<1>30. AllGood(Rows("VMASK", {"R2FUNC"}, {}, 8, {<<Vs>>}))
  BY GoodRows, AllLengths, RowsVMASK
<1>31. \A rows \in {
      Rows("BITS16", {}, {}, 2, {<<>>}),
      Rows("BITS40", {}, {}, 8, {<<>>, <<Im>>}),
      Rows("DIRECT", {"LSSIZE"}, {"LSDISP"}, 6, {<<Rg, Im>>}),
      Rows("DIRECT", {}, {"LSDISP"}, 3, {<<Rg, Im>>}),
      Rows("DIRECT", {}, {"LSDISP"}, 6, {<<Rg, Im>>}),
      Rows("DIRECT", {}, {"LSDISP"}, 8, {<<Rg, Im>>}),
      Rows("MV", {}, {}, 4, {<<Rg, Rg>>}),
      Rows("R2", {"NRB", "OP3", "R2FUNC"}, {}, 6, {<<Rg, Rg, Rg>>}),
      Rows("R2", {"OP3", "R2FUNC"}, {}, 8, {<<Rg, Rg, Rg>>}),
      Rows("R2", {"R2FUNC"}, {}, 8, {<<Rg, Rg, Rg>>}),
      Rows("R3", {}, {}, 8, {<<Rg, Rg, Rg>>}),
      Rows("REGIND", {"LSSIZE"}, {"LSDISP"}, 6, {<<Rg, Ind>>}),
      Rows("REGIND", {}, {"LSDISP"}, 3, {<<Rg, Ind>>}),
      Rows("REGIND", {}, {"LSDISP"}, 6, {<<Rg, Ind>>}),
      Rows("REGIND", {}, {"LSDISP"}, 8, {<<Rg, Ind>>}),
      Rows("RI", {"IPR"}, {}, 8, {<<Rg, Rg, Im>>}),
      Rows("RI", {}, {"NEGIMM"}, 6, {<<Rg, Rg, Im>>}),
      Rows("RI", {}, {}, 0, {<<Rg, Rg, Im>>}),
      Rows("RI", {}, {}, 8, {<<Rg, Rg, Im>>}),
      Rows("RIA", {"R2FUNC"}, {}, 8, {<<Rg, Im, Rg>>}),
      Rows("RIL", {}, {}, 8, {<<Rg, Rg, Im>>}),
      Rows("RIS", {}, {}, 8, {<<Rg, Im, Im>>}),
      Rows("RISH", {}, {}, 8, {<<Rg, Im>>}),
      Rows("RISM", {}, {}, 8, {<<Rg, Im>>}),
      Rows("SCNDX", {"LSFUNC"}, {"LSDISP"}, 8, {<<Rg, Scn>>}),
      Rows("SCNDX", {"LSSIZE"}, {"LSDISP"}, 6, {<<Rg, Scn>>}),
      Rows("SCNDX", {}, {"LSDISP"}, 3, {<<Rg, Scn>>}),
      Rows("SCNDX", {}, {"LSDISP"}, 6, {<<Rg, Scn>>}),
      Rows("SYNC", {}, {}, 8, {<<Im>>}),
      Rows("VMASK", {"R2FUNC"}, {}, 8, {<<Vs>>})} : AllGood(rows)
  BY <1>1, <1>2, <1>3, <1>4, <1>5, <1>6, <1>7, <1>8, <1>9, <1>10, <1>11, <1>12, <1>13, <1>14,
     <1>15, <1>16, <1>17, <1>18, <1>19, <1>20, <1>21, <1>22, <1>23, <1>24, <1>25, <1>26, <1>27,
     <1>28, <1>29, <1>30, ZenonT(30)
<1> QED
  BY <1>31, GoodUnion, ZenonT(30) DEF Rows4H

LEMMA Mnemonics == \A r \in mnemonics : GoodRow(r)
<1>1. AllGood(mnemonics)
  BY GoodRows4A, GoodRows4B, GoodRows4C, GoodRows4D, GoodRows4E, GoodRows4F, GoodRows4G, GoodRows4H,
     GoodUnion, ZenonT(30) DEF mnemonics
<1> QED
  BY <1>1 DEF AllGood

(* The operands.                                                           *)
AllOperands ==
  {parse_operand(s) : s \in Sources} \cup {NextRegister}
    \cup {DataOperand(s, float) : s \in Sources, float \in BOOLEAN}

(* What fills a slot                                                       *)
Fills(t, op) ==
  /\ t = {"DATA"} => op.kind = "DATA" /\ op.attr = "NONE"
  /\ t # {"DATA"} => op.kind \in Admits(t)
  /\ op.kind = "IMM" => op.v \subseteq 0..63

LEMMA ParsedKind ==
  ASSUME NEW s \in Sources
  PROVE  /\ parse_operand(s).kind \in Kinds
         /\ parse_operand(s).kind = "IMM" => parse_operand(s).v \subseteq 0..63
<1> DEFINE op == parse_operand(s)
           Ix == parse_idx(s)
<1>0. s.t \in {"reg", "vm", "lk", "pred", "imm", "mem", "ind"}
      /\ (s.t \in {"imm", "mem", "ind"} => s.v \subseteq 0..63)
  BY SourcesAssumption
<1>1. CASE s.t = "reg"
  BY <1>1 DEF parse_operand, Operand, Kinds
<1>2. CASE s.t = "vm"
  BY <1>2 DEF parse_operand, Operand, Kinds
<1>3. CASE s.t = "lk"
  BY <1>3 DEF parse_operand, Operand, Kinds
<1>4. CASE s.t = "pred"
  BY <1>4 DEF parse_operand, Operand, Kinds
<1>5. CASE s.t = "imm"
  <2>1. op = [Operand("IMM", {}, {}, 0, s.form, s.v) EXCEPT !.attr = parse_reloc_attr(s.attr)]
    BY <1>5 DEF parse_operand
  <2>2. op.kind = "IMM" /\ op.v = s.v
    BY <2>1 DEF Operand
  <2> QED
    BY <1>0, <1>5, <2>2 DEF Kinds
<1>6. CASE s.t = "mem"
  <2>1. op = [Ix EXCEPT !.attr = parse_reloc_attr(s.attr)]
    BY <1>6 DEF parse_operand
  <2>2. op.kind \in {"REGIND", "SCNDX"}
    BY <2>1 DEF parse_idx, Operand
  <2> QED
    BY <2>2 DEF Kinds
<1>7. CASE s.t = "ind"
  <2>1. op = [Ix EXCEPT !.attr = parse_reloc_attr(s.attr), !.kind = "IND_SCNDX"]
    BY <1>7 DEF parse_operand
  <2>2. op.kind = "IND_SCNDX"
    BY <2>1 DEF parse_idx, Operand
  <2> QED
    BY <2>2 DEF Kinds
<1> QED
  BY <1>0, <1>1, <1>2, <1>3, <1>4, <1>5, <1>6, <1>7

LEMMA DataKind ==
  \A s, float : DataOperand(s, float).kind = "DATA" /\ DataOperand(s, float).attr = "NONE"
  BY DEF DataOperand, Operand

LEMMA ParsedFills ==
  ASSUME NEW op \in Parsed
  PROVE  Fills(Taken, op) /\ op \in AllOperands
<1>1. CASE Taken = {"NEXTREG"}
  <2>1. op = NextRegister
    BY <1>1 DEF Parsed
  <2>2. op.kind = "REG"
    BY <2>1 DEF NextRegister, Operand
  <2>3. Taken = Nx /\ Taken # {"DATA"}
    BY <1>1 DEF Nx
  <2> QED
    BY <2>1, <2>2, <2>3 DEF Fills, Admits, AllOperands
<1>2. CASE Taken # {"NEXTREG"} /\ Taken = {"DATA"}
  <2>1. op \in ParsedData
    BY <1>2 DEF Parsed
  <2> DEFINE float == row.tags \cap {"F32", "F64"} # {}
  <2>2. PICK s \in Sources : op = DataOperand(s, float)
    BY <2>1 DEF ParsedData
  <2>3. float \in BOOLEAN
    OBVIOUS
  <2> HIDE DEF float
  <2> QED
    BY <1>2, <2>2, <2>3, DataKind DEF Fills, AllOperands
<1>3. CASE Taken # {"NEXTREG"} /\ Taken # {"DATA"}
  <2>1. op \in {parse_operand(s) : s \in Sources} /\ op.kind \in Taken
    BY <1>3 DEF Parsed
  <2>2. op.kind \in Kinds /\ (op.kind = "IMM" => op.v \subseteq 0..63)
    BY <2>1, ParsedKind
  <2> QED
    BY <1>3, <2>1, <2>2 DEF Fills, Admits, Nx, AllOperands
<1> QED
  BY <1>1, <1>2, <1>3

-----------------------------------------------------------------------------
(* All the rows: of mnemonics[], and of the data directives.              *)
LEMMA AllRows ==
  ASSUME NEW r \in AnyRow
  PROVE  \/ r \in mnemonics /\ r.f \in Formats /\ GoodRow(r)
         \/ /\ r.f = "DATA" /\ r.fixed = {} /\ r.ops = <<{"DATA"}>>
            /\ \E d \in Directives : r.tags = {qupls_data_operand(d)} /\ r.len = d.bits \div 8
<1>1. CASE r \in mnemonics
  BY <1>1, Mnemonics DEF GoodRow
<1>2. CASE r \in data_items
  BY <1>2 DEF data_items
<1> QED
  BY <1>1, <1>2 DEF AnyRow

LEMMA NamedFormats == "DATA" \notin Formats
  BY DEF Formats

LEMMA RowLength ==
  ASSUME NEW r \in AnyRow
  PROVE  Len(r.ops) \in Nat
<1>1. CASE GoodRow(r)
  BY <1>1 DEF GoodRow, Slots
<1>2. CASE r.ops = <<{"DATA"}>>
  BY <1>2
<1>3. CASE r.ops = <<>>
  BY <1>3
<1> QED
  BY <1>1, <1>2, <1>3, AllRows

-----------------------------------------------------------------------------
(* One operand is encoded, or left out, ...                                *)
Part(r, k, op, v, c, size) ==
  CASE op.kind = "REG" -> encode_reg(r.f, op.reg, k, size)
    [] op.kind = "IMM" /\ ~is_branch(r.f) /\ c -> ConstantImmediate(r, v, k)
    [] op.kind = "IMM" /\ ~is_branch(r.f) /\ ~c -> LabelImmediate(r, v, k)
    [] op.kind = "IMM" /\ is_branch(r.f) -> encode_branch(r, v, k)
    [] op.kind = "REGIND" /\ r.f \in {"J2", "J4", "JL2"} -> Effect(v, {IndirectTarget(r.f).disp}, 6)
    [] op.kind = "REGIND" /\ r.f \notin {"J2", "J4", "JL2"} -> encode_regind(r, v, k).effect
    [] op.kind = "PREDSTR" -> encode_pred(v)
    [] op.kind \in {"SCNDX", "IND_SCNDX"} -> encode_scndx(r, op, v, k).effect

Besides(r, k, op, v) ==
  CASE op.kind = "REGIND" /\ r.f \in {"J2", "J4", "JL2"} -> PutPiece(op.reg, IndirectTarget(r.f).base)
    [] op.kind = "REGIND" /\ r.f \notin {"J2", "J4", "JL2"} -> PutPiece(op.reg, encode_regind(r, v, k).base)
    [] op.kind \in {"SCNDX", "IND_SCNDX"} ->
         LET m == encode_scndx(r, op, v, k)
         IN  PutPiece(op.reg, m.base) \cup PutPiece(op.ndx, m.index) \cup PutPiece(ScaleBits(op.scale), m.scale)
    [] OTHER -> {}

Tagged(e) == [k \in DOMAIN e.post |-> [op |-> i, v |-> e.v, pfx |-> e.post[k]]]

EncodedKinds == {"REG", "IMM", "REGIND", "PREDSTR", "SCNDX", "IND_SCNDX"}

EncodesAs(op, e, others) ==
  /\ word' = IF e.all THEN {0} ELSE (word \ e.clear) \cup e.set \cup Put(e.v, e.pieces) \cup others
  /\ post' = encode_cpfx(post, Tagged(e))
  /\ placed' = IF db THEN placed \cup {Held(op, e, e.pieces)} ELSE placed
  /\ isize' = e.size
  /\ ipfx' = IF op.kind = "IMM" /\ is_branch(row.f) /\ FarJump(e) # 0 THEN FarJump(e) ELSE ipfx

EffectOf(op) == Part(row, i, op, Value(op), Constant(op), isize)
Encodes(op) ==
  /\ op.kind \in EncodedKinds
  /\ EncodesAs(op, EffectOf(op), Besides(row, i, op, Value(op)))

Skips(op) ==
  /\ op.kind \in {"LK", "VMREG"}
  /\ isize' = CASE row.f \in {"B2", "BL2"} -> row.len
                [] row.f \in {"J3", "JL3"} -> 8
                [] OTHER -> 6
  /\ UNCHANGED <<word, post, ipfx, placed>>

Step(op) == More /\ Advance(op) /\ (Encodes(op) \/ Skips(op))

(* ... and that is all that happens, besides the start of the emitting     *)
(* call and the data items.                                                *)
LEMMA NoVectorRegisters ==
  ASSUME row \in AnyRow, \A k \in 1..Len(ops) : Fills(row.ops[k], ops[k]), i \in 0..Len(row.ops),
         Len(ops) = (IF db THEN Len(row.ops) ELSE i), More, NEW op \in Given
  PROVE  Fills(row.ops[i + 1], op) /\ op.kind # "VREG"
<1>1. CASE db
  <2>1. op = ops[i + 1] /\ i + 1 \in 1..Len(ops)
    BY <1>1, RowLength DEF Given, More
  <2> QED
    BY <2>1, Zenon DEF Fills, Admits, Kinds
<1>2. CASE ~db
  <2>1. op \in Parsed
    BY <1>2 DEF Given
  <2>2. Fills(Taken, op)
    BY <2>1, ParsedFills
  <2> QED
    BY <2>2, Zenon DEF Fills, Admits, Kinds, Taken
<1> QED
  BY <1>1, <1>2

OperandsInv ==
  /\ row \in AnyRow
  /\ pc \in Pcs
  /\ db \in BOOLEAN
  /\ i \in 0..Len(row.ops)
  /\ ops \in Seq(AllOperands)
  /\ Len(ops) = (IF db THEN Len(row.ops) ELSE i)
  /\ \A k \in 1..Len(ops) : Fills(row.ops[k], ops[k])
  /\ ~db => placed = {} /\ relocs = {} /\ sized = 0
  /\ row.f = "DATA" => (db <=> i = 1)

LEMMA Steps ==
  ASSUME OperandsInv, Next
  PROVE  (\E op \in Given : Step(op)) \/ StartEmitting \/ EvalData
<1> USE DEF OperandsInv
<1>1. CASE EncodeRegister
  <2>1. PICK op \in Given :
          /\ More /\ op.kind \in {"REG", "VREG"}
          /\ LET e == encode_reg(row.f, op.reg, i, isize) IN Encoded(op, e, e.pieces, {})
          /\ UNCHANGED <<isize, ipfx>>
          /\ Advance(op)
    BY <1>1 DEF EncodeRegister
  <2>2. op.kind = "REG"
    BY <2>1, NoVectorRegisters
  <2> DEFINE e == encode_reg(row.f, op.reg, i, isize)
  <2>3. EffectOf(op) = e
    BY <2>2 DEF EffectOf, Part
  <2>4. Besides(row, i, op, Value(op)) = {}
    BY <2>2 DEF Besides
  <2>5. e.size = isize
    BY Zenon DEF encode_reg, Effect
  <2> HIDE DEF e
  <2>6. Encoded(op, e, e.pieces, {})
    BY <2>1, <2>5, Zenon DEF e
  <2>7. EncodesAs(op, e, {})
    BY <2>1, <2>2, <2>5, <2>6, Zenon DEF EncodesAs, Encoded, Tagged
  <2>8. Encodes(op)
    BY <2>2, <2>3, <2>4, <2>7 DEF Encodes, EncodedKinds
  <2> QED
    BY <2>1, <2>8 DEF Step
<1>2. CASE EncodeImmediate
  <2>1. PICK op \in Given :
          /\ More /\ op.kind = "IMM" /\ ~is_branch(row.f)
          /\ LET e == IF Constant(op) THEN ConstantImmediate(row, Value(op), i)
                                     ELSE LabelImmediate(row, Value(op), i)
             IN  /\ Encoded(op, e, e.pieces, {})
                 /\ isize' = e.size
          /\ UNCHANGED ipfx
          /\ Advance(op)
    BY <1>2 DEF EncodeImmediate
  <2> DEFINE e == EffectOf(op)
  <2>3. e = IF Constant(op) THEN ConstantImmediate(row, Value(op), i)
                            ELSE LabelImmediate(row, Value(op), i)
    BY <2>1 DEF EffectOf, Part
  <2>4. Besides(row, i, op, Value(op)) = {}
    BY <2>1 DEF Besides
  <2> HIDE DEF e
  <2>5. Encoded(op, e, e.pieces, {}) /\ isize' = e.size
    BY <2>1, <2>3
  <2>7. EncodesAs(op, e, {})
    BY <2>1, <2>5, Zenon DEF EncodesAs, Encoded, Tagged
  <2>8. Encodes(op)
    BY <2>1, <2>4, <2>7 DEF Encodes, EncodedKinds, e
  <2> QED
    BY <2>1, <2>8 DEF Step
<1>3. CASE EncodeBranch
  <2>1. PICK op \in Given :
          /\ More /\ op.kind = "IMM" /\ is_branch(row.f)
          /\ LET e == encode_branch(row, Value(op), i)
             IN  /\ Encoded(op, e, e.pieces, {})
                 /\ isize' = e.size
                 /\ ipfx' = IF FarJump(e) = 0 THEN ipfx ELSE FarJump(e)
          /\ Advance(op)
    BY <1>3 DEF EncodeBranch
  <2> DEFINE e == EffectOf(op)
  <2>3. e = encode_branch(row, Value(op), i)
    BY <2>1 DEF EffectOf, Part
  <2>4. Besides(row, i, op, Value(op)) = {}
    BY <2>1 DEF Besides
  <2> HIDE DEF e
  <2>5. Encoded(op, e, e.pieces, {}) /\ isize' = e.size /\ ipfx' = IF FarJump(e) = 0 THEN ipfx ELSE FarJump(e)
    BY <2>1, <2>3
  <2>7. EncodesAs(op, e, {})
    BY <2>1, <2>5, Zenon DEF EncodesAs, Encoded, Tagged
  <2>8. Encodes(op)
    BY <2>1, <2>4, <2>7 DEF Encodes, EncodedKinds, e
  <2> QED
    BY <2>1, <2>8 DEF Step
<1>4. CASE EncodeIndirectTarget
  <2>1. PICK op \in Given :
          /\ More /\ op.kind = "REGIND" /\ row.f \in {"J2", "J4", "JL2"}
          /\ LET t == IndirectTarget(row.f)
             IN  Encoded(op, Effect(Value(op), {t.disp}, 6), {t.disp}, PutPiece(op.reg, t.base))
          /\ isize' = 6
          /\ UNCHANGED ipfx
          /\ Advance(op)
    BY <1>4 DEF EncodeIndirectTarget
  <2> DEFINE t == IndirectTarget(row.f)
             e == EffectOf(op)
             others == PutPiece(op.reg, t.base)
  <2>3. e = Effect(Value(op), {t.disp}, 6)
    BY <2>1 DEF EffectOf, Part
  <2>4. Besides(row, i, op, Value(op)) = others
    BY <2>1 DEF Besides
  <2>5. e.pieces = {t.disp} /\ e.size = 6
    BY <2>3 DEF Effect
  <2>6. Encoded(op, e, e.pieces, others)
    BY <2>1, <2>3, <2>5, Zenon
  <2> HIDE DEF e, t, others
  <2>7. EncodesAs(op, e, others)
    BY <2>1, <2>5, <2>6, Zenon DEF EncodesAs, Encoded, Tagged
  <2>8. Encodes(op)
    BY <2>1, <2>4, <2>7 DEF Encodes, EncodedKinds, e
  <2> QED
    BY <2>1, <2>8 DEF Step
<1>5. CASE EncodePredicate
  <2>1. PICK op \in Given :
          /\ More /\ op.kind = "PREDSTR"
          /\ LET e == encode_pred(Value(op)) IN Encoded(op, e, e.pieces, {})
          /\ isize' = 6
          /\ UNCHANGED ipfx
          /\ Advance(op)
    BY <1>5 DEF EncodePredicate
  <2> DEFINE e == EffectOf(op)
  <2>3. e = encode_pred(Value(op))
    BY <2>1 DEF EffectOf, Part
  <2>4. Besides(row, i, op, Value(op)) = {}
    BY <2>1 DEF Besides
  <2>5. e.size = 6
    BY <2>3 DEF encode_pred, Effect
  <2> HIDE DEF e
  <2>6. Encoded(op, e, e.pieces, {})
    BY <2>1, <2>3
  <2>7. EncodesAs(op, e, {})
    BY <2>1, <2>5, <2>6, Zenon DEF EncodesAs, Encoded, Tagged
  <2>8. Encodes(op)
    BY <2>1, <2>4, <2>7 DEF Encodes, EncodedKinds, e
  <2> QED
    BY <2>1, <2>8 DEF Step
<1>6. CASE EncodeIndirect
  <2>1. PICK op \in Given :
          /\ More /\ op.kind = "REGIND" /\ row.f \notin {"J2", "J4", "JL2"}
          /\ LET m == encode_regind(row, Value(op), i)
             IN  /\ Encoded(op, m.effect, m.effect.pieces, PutPiece(op.reg, m.base))
                 /\ isize' = m.effect.size
          /\ UNCHANGED ipfx
          /\ Advance(op)
    BY <1>6 DEF EncodeIndirect
  <2> DEFINE m == encode_regind(row, Value(op), i)
             e == EffectOf(op)
             others == PutPiece(op.reg, m.base)
  <2>3. e = m.effect
    BY <2>1 DEF EffectOf, Part
  <2>4. Besides(row, i, op, Value(op)) = others
    BY <2>1 DEF Besides
  <2>6. Encoded(op, e, e.pieces, others) /\ isize' = e.size
    BY <2>1, <2>3
  <2> HIDE DEF e, m, others
  <2>7. EncodesAs(op, e, others)
    BY <2>1, <2>6, Zenon DEF EncodesAs, Encoded, Tagged
  <2>8. Encodes(op)
    BY <2>1, <2>4, <2>7 DEF Encodes, EncodedKinds, e
  <2> QED
    BY <2>1, <2>8 DEF Step
<1>7. CASE EncodeIndexed
  <2>1. PICK op \in Given :
          /\ More /\ op.kind \in {"SCNDX", "IND_SCNDX"}
          /\ LET m == encode_scndx(row, op, Value(op), i)
             IN  /\ Encoded(op, m.effect, m.effect.pieces,
                            PutPiece(op.reg, m.base) \cup PutPiece(op.ndx, m.index)
                               \cup PutPiece(ScaleBits(op.scale), m.scale))
                 /\ isize' = m.effect.size
          /\ UNCHANGED ipfx
          /\ Advance(op)
    BY <1>7, Zenon DEF EncodeIndexed
  <2> DEFINE m == encode_scndx(row, op, Value(op), i)
             e == EffectOf(op)
             others == PutPiece(op.reg, m.base) \cup PutPiece(op.ndx, m.index)
                               \cup PutPiece(ScaleBits(op.scale), m.scale)
  <2>3. e = m.effect
    BY <2>1 DEF EffectOf, Part
  <2>4. Besides(row, i, op, Value(op)) = others
    BY <2>1 DEF Besides
  <2>6. Encoded(op, e, e.pieces, others) /\ isize' = e.size
    BY <2>1, <2>3
  <2> HIDE DEF e, m, others
  <2>7. EncodesAs(op, e, others)
    BY <2>1, <2>6, Zenon DEF EncodesAs, Encoded, Tagged
  <2>8. Encodes(op)
    BY <2>1, <2>4, <2>7 DEF Encodes, EncodedKinds, e
  <2> QED
    BY <2>1, <2>8 DEF Step
<1>8. CASE SkipOperand
  <2>1. PICK op \in Given : More /\ Skips(op) /\ Advance(op)
    BY <1>8 DEF SkipOperand, Skips
  <2> QED
    BY <2>1 DEF Step
<1> QED
  BY <1>1, <1>2, <1>3, <1>4, <1>5, <1>6, <1>7, <1>8 DEF Next

(* A data item is written before anything else.                            *)
LEMMA DataRows ==
  ASSUME row \in AnyRow, row.f = "DATA"
  PROVE  /\ row.fixed = {} /\ row.ops = <<{"DATA"}>>
         /\ \E d \in Directives : row.tags = {qupls_data_operand(d)} /\ row.len = d.bits \div 8
<1>1. "DATA" \notin Formats
  BY NamedFormats
<1> QED
  BY <1>1, AllRows

(* What a step does with the operands                                      *)
LEMMA StepAdvances ==
  ASSUME OperandsInv, NEW op \in Given, Step(op)
  PROVE  /\ i + 1 \in 1..Len(row.ops) /\ i' = i + 1 /\ i \in 0..Len(row.ops) - 1
         /\ row' = row /\ pc' = pc /\ db' = db /\ sized' = sized
         /\ Fills(row.ops[i + 1], op)
         /\ ops' \in Seq(AllOperands) /\ Len(ops') = (IF db THEN Len(row.ops) ELSE i + 1)
         /\ ops'[i + 1] = op
         /\ db => ops' = ops
         /\ \A k \in 1..Len(ops) : ops'[k] = ops[k]
<1>0. More /\ Advance(op) /\ Len(row.ops) \in Nat /\ i \in 0..Len(row.ops)
  BY RowLength DEF Step, OperandsInv
<1>1. i + 1 \in 1..Len(row.ops) /\ i' = i + 1 /\ i \in 0..Len(row.ops) - 1
  BY <1>0 DEF More, Advance
<1>2. row' = row /\ pc' = pc /\ db' = db /\ sized' = sized
  BY <1>0 DEF Advance
<1>3. Fills(row.ops[i + 1], op)
  BY <1>0, NoVectorRegisters DEF OperandsInv
<1>4. CASE db
  <2>1. ops' = ops /\ ops[i + 1] = op
    BY <1>0, <1>4 DEF Advance, Given
  <2> QED
    BY <1>1, <1>2, <1>3, <1>4, <2>1 DEF OperandsInv
<1>5. CASE ~db
  <2>1. ops' = Append(ops, op) /\ op \in Parsed
    BY <1>0, <1>5 DEF Advance, Given
  <2>2. op \in AllOperands
    BY <2>1, ParsedFills
  <2>3. ops \in Seq(AllOperands) /\ Len(ops) = i
    BY <1>5 DEF OperandsInv
  <2>4. ops' \in Seq(AllOperands) /\ Len(ops') = i + 1 /\ ops'[i + 1] = op
    BY <2>1, <2>2, <2>3, <1>0
  <2>5. \A k \in 1..Len(ops) : ops'[k] = ops[k]
    BY <2>1, <2>2, <2>3
  <2> QED
    BY <1>1, <1>2, <1>3, <1>5, <2>4, <2>5
<1> QED
  BY <1>4, <1>5 DEF OperandsInv

LEMMA InitOperands == Init => OperandsInv
<1> SUFFICES ASSUME Init PROVE OperandsInv
  OBVIOUS
<1>1. row \in AnyRow /\ pc \in Pcs /\ ops = <<>> /\ db = FALSE /\ i = 0 /\ placed = {} /\ relocs = {} /\ sized = 0
  BY DEF Init
<1>2. 0 \in 0..Len(row.ops)
  BY <1>1, RowLength
<1>3. ~db /\ ~(i = 1)
  BY <1>1
<1>4. ops \in Seq(AllOperands) /\ Len(ops) = 0 /\ Len(ops) = (IF db THEN Len(row.ops) ELSE i)
  BY <1>1
<1>5. \A k \in 1..Len(ops) : Fills(row.ops[k], ops[k])
  BY <1>4
<1> QED
  BY <1>1, <1>2, <1>3, <1>4, <1>5, Zenon DEF OperandsInv

LEMMA StepOperands ==
  ASSUME OperandsInv, NEW op \in Given, Step(op)
  PROVE  OperandsInv'
<1>1. /\ i + 1 \in 1..Len(row.ops) /\ i' = i + 1 /\ i \in 0..Len(row.ops) - 1
      /\ row' = row /\ pc' = pc /\ db' = db /\ sized' = sized
      /\ Fills(row.ops[i + 1], op)
      /\ ops' \in Seq(AllOperands) /\ Len(ops') = (IF db THEN Len(row.ops) ELSE i + 1)
      /\ ops'[i + 1] = op
      /\ db => ops' = ops
      /\ \A k \in 1..Len(ops) : ops'[k] = ops[k]
  BY StepAdvances
<1>2. /\ row \in AnyRow /\ pc \in Pcs /\ db \in BOOLEAN /\ Len(ops) = (IF db THEN Len(row.ops) ELSE i)
      /\ \A k \in 1..Len(ops) : Fills(row.ops[k], ops[k])
      /\ ~db => placed = {} /\ relocs = {} /\ sized = 0
  BY DEF OperandsInv
<1>3. i' \in 0..Len(row'.ops)
  BY <1>1
<1>4. Len(ops') = (IF db' THEN Len(row'.ops) ELSE i')
  BY <1>1
<1>5. \A k \in 1..Len(ops') : Fills(row'.ops[k], ops'[k])
  <2> SUFFICES ASSUME NEW k \in 1..Len(ops') PROVE Fills(row.ops[k], ops'[k])
    BY <1>1
  <2>1. k \in 1..Len(ops) \/ k = i + 1
    BY <1>1, <1>2
  <2> QED
    BY <1>1, <1>2, <2>1
<1>6. ~db' => placed' = {} /\ relocs' = {} /\ sized' = 0
  <2> SUFFICES ASSUME ~db PROVE placed' = {} /\ relocs' = {} /\ sized' = 0
    BY <1>1
  <2>1. relocs' = relocs
    BY DEF Step, Advance
  <2>2. placed' = placed
    BY DEF Step, Encodes, EncodesAs, Skips
  <2> QED
    BY <1>1, <1>2, <2>1, <2>2
<1>7. row.f # "DATA"
  <2> SUFFICES ASSUME row.f = "DATA" PROVE FALSE
    OBVIOUS
  <2>1. row.ops = <<{"DATA"}>>
    BY <1>2, DataRows
  <2>2. i + 1 = 1 /\ row.ops[1] = {"DATA"}
    BY <1>1, <2>1
  <2>3. op.kind = "DATA"
    BY <1>1, <2>2 DEF Fills
  <2> QED
    BY <2>3 DEF Step, Encodes, Skips, EncodedKinds
<1> QED
  BY <1>1, <1>2, <1>3, <1>4, <1>5, <1>6, <1>7 DEF OperandsInv

LEMMA StartOperands ==
  ASSUME OperandsInv, StartEmitting
  PROVE  OperandsInv'
<1>1. ~More /\ ~db /\ db' = TRUE /\ i' = 0 /\ row' = row /\ pc' = pc /\ ops' = ops
  BY DEF StartEmitting
<1>2. Len(row.ops) \in Nat
  BY RowLength DEF OperandsInv
<1>3. Len(ops) = Len(row.ops)
  BY <1>1, <1>2 DEF OperandsInv, More
<1>4. row.f # "DATA"
  <2> SUFFICES ASSUME row.f = "DATA" PROVE FALSE
    OBVIOUS
  <2>1. row.ops = <<{"DATA"}>>
    BY DataRows DEF OperandsInv
  <2>2. Len(row.ops) = 1
    BY <2>1
  <2>3. i \in 0..Len(row.ops) /\ ~(i = 1)
    BY <1>1 DEF OperandsInv
  <2> QED
    BY <1>1, <2>2, <2>3 DEF More
<1>5. /\ row \in AnyRow /\ pc \in Pcs /\ ops \in Seq(AllOperands)
      /\ \A k \in 1..Len(ops) : Fills(row.ops[k], ops[k])
  BY DEF OperandsInv
<1>6. i' \in 0..Len(row'.ops)
  BY <1>1, <1>2
<1>7. Len(ops') = (IF db' THEN Len(row'.ops) ELSE i')
  BY <1>1, <1>3
<1>8. \A k \in 1..Len(ops') : Fills(row'.ops[k], ops'[k])
  BY <1>1, <1>5
<1> QED
  BY <1>1, <1>4, <1>5, <1>6, <1>7, <1>8 DEF OperandsInv

LEMMA DataOperands ==
  ASSUME OperandsInv, EvalData
  PROVE  /\ OperandsInv' /\ i = 0 /\ ~db /\ Len(row.ops) = 1
         /\ \E op \in Parsed : ops' = <<op>> /\ Fills({"DATA"}, op)
<1>1. More /\ row.f = "DATA" /\ row' = row /\ pc' = pc /\ db' = TRUE /\ i' = 1
  BY DEF EvalData
<1>2. row \in AnyRow /\ i \in 0..Len(row.ops) /\ (db <=> i = 1) /\ pc \in Pcs
  BY <1>1 DEF OperandsInv
<1>3. row.ops = <<{"DATA"}>>
  BY <1>1, <1>2, DataRows
<1>4. Len(row.ops) = 1 /\ row.ops[1] = {"DATA"}
  BY <1>3
<1>5. i = 0 /\ Taken = {"DATA"}
  BY <1>1, <1>2, <1>4 DEF More, Taken
<1>6. PICK op \in Given : ops' = <<op>>
  BY DEF EvalData
<1>7. ~db /\ op \in Parsed
  BY <1>2, <1>5, <1>6 DEF Given
<1>8. Fills({"DATA"}, op) /\ op \in AllOperands
  BY <1>5, <1>7, ParsedFills
<1>9. ops' \in Seq(AllOperands) /\ Len(ops') = 1 /\ ops'[1] = op
  BY <1>6, <1>8
<1>10. \A k \in 1..Len(ops') : Fills(row'.ops[k], ops'[k])
  <2> SUFFICES ASSUME NEW k \in 1..Len(ops') PROVE Fills(row.ops[k], ops'[k])
    BY <1>1
  <2>1. k = 1
    BY <1>9
  <2>2. row.ops[k] = {"DATA"} /\ ops'[k] = op
    BY <1>4, <1>9, <2>1
  <2> QED
    BY <1>8, <2>2
<1>11. OperandsInv'
  BY <1>1, <1>2, <1>4, <1>9, <1>10 DEF OperandsInv
<1> QED
  BY <1>4, <1>5, <1>6, <1>7, <1>8, <1>11

(* The kinds of operand that a format gives a place to.                    *)
LEMMA FilledKinds ==
  ASSUME NEW r \in AnyRow, NEW k \in 1..Len(r.ops), NEW op, Fills(r.ops[k], op)
  PROVE  \/ r.f = "DATA" /\ op.kind = "DATA" /\ op.attr = "NONE"
         \/ /\ r \in mnemonics /\ r.f \in Formats /\ GoodRow(r)
            /\ op.kind \in May(r.f, k)
<1>1. CASE r \in mnemonics /\ r.f \in Formats /\ GoodRow(r)
  <2>1. Slots(r.f, r.ops)
    BY <1>1 DEF GoodRow
  <2>2. r.ops[k] \in Takes /\ Admits(r.ops[k]) \subseteq May(r.f, k)
    BY <2>1 DEF Slots
  <2>3. r.ops[k] # {"DATA"}
    BY <2>2, Zenon DEF Takes, Rg, Im, RgIm, Vr, VrRg, VrRgIm, Ind, Scn, ISc, Lk, Ps, Vs, Vm, Nx
  <2>4. op.kind \in Admits(r.ops[k])
    BY <2>3 DEF Fills
  <2> QED
    BY <1>1, <2>2, <2>4
<1>2. CASE r.f = "DATA" /\ r.ops = <<{"DATA"}>>
  <2>1. k = 1 /\ r.ops[1] = {"DATA"}
    BY <1>2
  <2> QED
    BY <1>2, <2>1 DEF Fills
<1>3. CASE r.ops = <<>>
  BY <1>3
<1> QED
  BY <1>1, <1>2, <1>3, AllRows

LEMMA IndirectPlaces ==
  ASSUME NEW f \in Formats, NEW k, "REGIND" \in May(f, k)
  PROVE  f \in {"REGIND", "J2", "JL2"}
  BY DEF Formats, May, ShapeOf, R, I, RI

(* The relocations.  Their type does not change once they are there, but   *)
(* for an operand in another format than REGIND.                           *)
WellTyped(r) ==
  LET op == ops[r.op + 1]
  IN  row.f # "REGIND" \/ op.kind = "REGIND" =>
        r.type = IF op.kind = "REGIND" /\ op.reg = sdreg THEN "SD"
                 ELSE Attributed(op.attr, {"GOT", "PLT", "SD"})

RelocTypeInv ==
  /\ \A r \in relocs : r.op \in 0..i - 1 /\ DOMAIN r = {"op", "v", "at", "type"}
  /\ ~is_branch(row.f) => \A r \in relocs : WellTyped(r)

LEMMA IndirectPlace ==
  ASSUME NEW k, "REGIND" \in May("REGIND", k)
  PROVE  k = 2
<1>1. ShapeOf("REGIND") = <<RI, {"REGIND"}>>
  BY DEF ShapeOf
<1>2. k \in DOMAIN ShapeOf("REGIND") /\ "REGIND" \in ShapeOf("REGIND")[k]
  BY DEF May
<1>3. k \in {1, 2}
  BY <1>1, <1>2
<1> QED
  BY <1>1, <1>2, <1>3 DEF RI

LEMMA OtherRelocType ==
  \A f, k, attr : ~is_branch(f) => get_reloc_type(f, k, attr) = Attributed(attr, {"GOT", "PLT", "SD"})
  BY DEF is_branch, get_reloc_type

LEMMA StepRelocTypes ==
  ASSUME OperandsInv, RelocTypeInv, NEW op \in Given, Step(op)
  PROVE  RelocTypeInv'
<1>1. /\ i + 1 \in 1..Len(row.ops) /\ row' = row /\ Fills(row.ops[i + 1], op)
      /\ ops'[i + 1] = op /\ (db => ops' = ops) /\ row \in AnyRow /\ db \in BOOLEAN
  BY StepAdvances DEF OperandsInv
<1>0. i' = i + 1 /\ i \in Nat
  BY StepAdvances
<1> SUFFICES ASSUME NEW r \in relocs'
             PROVE  /\ r.op \in 0..i /\ DOMAIN r = {"op", "v", "at", "type"}
                    /\ ~is_branch(row.f) => WellTyped(r)'
  BY <1>0, <1>1 DEF RelocTypeInv
<1>2. PICK sd \in BaseIsSdreg(op) :
        relocs' = IF db THEN fix_reloctype(op, relocs \cup make_reloc(row.f, i, op, row.len, sd)) ELSE relocs
  BY Zenon DEF Step, Advance
<1>3. CASE ~db
  <2>1. relocs' = {}
    BY <1>2, <1>3 DEF OperandsInv
  <2> QED
    BY <2>1
<1>4. CASE db
  <2> DEFINE new == make_reloc(row.f, i, op, row.len, sd)
             A(attr) == Attributed(attr, {"GOT", "PLT", "SD"})
  <2>0. relocs' = fix_reloctype(op, relocs \cup new) /\ ops' = ops /\ ops[i + 1] = op
    BY <1>1, <1>2, <1>4
  <2>1. \A x \in relocs : x.op \in 0..i - 1 /\ DOMAIN x = {"op", "v", "at", "type"}
                           /\ (~is_branch(row.f) => WellTyped(x))
    BY DEF RelocTypeInv
  <2>2. \A x \in new : /\ x.op = i /\ DOMAIN x = {"op", "v", "at", "type"}
                       /\ x.type = (IF row.f = "REGIND" /\ sd THEN "SD" ELSE get_reloc_type(row.f, i, op.attr))
    BY DEF make_reloc
  <2>3. op.kind = "REGIND" /\ ~is_branch(row.f) => row.f = "REGIND" /\ i + 1 = 2
    BY <1>1, FilledKinds, IndirectPlaces, IndirectPlace DEF is_branch
  <2>4. op.kind = "REGIND" => sd = (op.reg = sdreg)
    BY <1>2 DEF BaseIsSdreg
  <2> HIDE DEF new, A
  <2>5. ASSUME ~is_branch(row.f), NEW x \in new PROVE WellTyped(x)
    <3>1. x.op = i /\ x.type = (IF row.f = "REGIND" /\ sd THEN "SD" ELSE A(op.attr))
      BY <2>2, <2>5, OtherRelocType DEF A
    <3>2. ops[x.op + 1] = op
      BY <2>0, <3>1
    <3>3. CASE op.kind = "REGIND"
      BY <2>3, <2>4, <2>5, <3>1, <3>2, <3>3, Zenon DEF WellTyped, A
    <3>4. CASE op.kind # "REGIND"
      BY <3>1, <3>2, <3>4 DEF WellTyped, A
    <3> QED
      BY <3>3, <3>4
  <2>6. CASE ~(op.kind = "REGIND" /\ op.attr = "NONE" /\ op.reg = sdreg)
    <3>1. relocs' = relocs \cup new
      BY <2>0, <2>6 DEF fix_reloctype
    <3>2. r.op \in 0..i /\ DOMAIN r = {"op", "v", "at", "type"}
      BY <1>0, <2>1, <2>2, <3>1
    <3>3. ~is_branch(row.f) => WellTyped(r)
      BY <2>1, <2>5, <3>1
    <3> QED
      BY <1>1, <2>0, <3>2, <3>3 DEF WellTyped
  <2>7. CASE op.kind = "REGIND" /\ op.attr = "NONE" /\ op.reg = sdreg
    <3>1. relocs' = {[x EXCEPT !.type = "SD"] : x \in relocs \cup new}
      BY <2>0, <2>7 DEF fix_reloctype
    <3>2. PICK x \in relocs \cup new : r = [x EXCEPT !.type = "SD"]
      BY <3>1
    <3>3. x.op \in 0..i /\ DOMAIN x = {"op", "v", "at", "type"}
      BY <1>0, <2>1, <2>2
    <3>4. r.op = x.op /\ DOMAIN r = {"op", "v", "at", "type"} /\ r.type = "SD"
      BY <3>2, <3>3
    <3>5. ASSUME ~is_branch(row.f) PROVE WellTyped(r)
      <4>1. row.f = "REGIND" /\ i = 1
        BY <1>0, <2>3, <2>7, <3>5
      <4> SUFFICES ASSUME ops[r.op + 1].kind = "REGIND"
                   PROVE  ops[r.op + 1].reg = sdreg
        BY <3>4, <4>1 DEF WellTyped
      <4>2. r.op \in {0, 1}
        BY <3>3, <3>4, <4>1
      <4>3. CASE r.op = 1
        BY <2>0, <2>7, <4>1, <4>3
      <4>4. CASE r.op = 0
        <5>1. 1 \in 1..Len(row.ops) /\ 1 \in 1..Len(ops)
          BY <1>0, <1>1, <1>4 DEF OperandsInv
        <5>2. Fills(row.ops[1], ops[1])
          BY <5>1 DEF OperandsInv
        <5>3. "REGIND" \in May("REGIND", 1)
          BY <1>1, <4>1, <4>4, <5>1, <5>2, FilledKinds
        <5> QED
          BY <5>3, IndirectPlace
      <4> QED
        BY <4>2, <4>3, <4>4
    <3> QED
      BY <1>1, <2>0, <3>3, <3>4, <3>5 DEF WellTyped
  <2> QED
    BY <2>6, <2>7
<1> QED
  BY <1>3, <1>4

LEMMA DataRelocTypes ==
  ASSUME OperandsInv, EvalData
  PROVE  RelocTypeInv'
<1>1. row' = row /\ row.f = "DATA" /\ i' = 1
  BY DEF EvalData
<1>2. PICK op \in Parsed : ops' = <<op>> /\ Fills({"DATA"}, op)
  BY DataOperands
<1>3. op.kind = "DATA" /\ op.attr = "NONE" /\ ops'[1] = op
  BY <1>2 DEF Fills
<1> SUFFICES ASSUME NEW r \in relocs'
             PROVE  r.op \in 0..0 /\ DOMAIN r = {"op", "v", "at", "type"} /\ WellTyped(r)'
  BY <1>1 DEF RelocTypeInv
<1>4. r.op = 0 /\ r.type = "ABS" /\ DOMAIN r = {"op", "v", "at", "type"}
  BY DEF EvalData
<1>5. ops'[r.op + 1] = op
  BY <1>3, <1>4
<1> QED
  BY <1>1, <1>3, <1>4, <1>5 DEF WellTyped, Attributed

LEMMA RelocTypesHold == RelocTypeInv => RelocTypeAsWritten
<1> SUFFICES ASSUME RelocTypeInv, ~is_branch(row.f), NEW r \in relocs PROVE WellTyped(r)
  BY DEF RelocTypeAsWritten, WellTyped
<1> QED
  BY DEF RelocTypeInv

(* The numbers below 128 and the sets of their bits: Number finds the one  *)
(* number with the bits.                                                   *)
Digit(bits, b) == IF b \in bits THEN 1 ELSE 0
Weight(bits) ==
  Digit(bits, 0) + 2 * Digit(bits, 1) + 4 * Digit(bits, 2) + 8 * Digit(bits, 3)
    + 16 * Digit(bits, 4) + 32 * Digit(bits, 5) + 64 * Digit(bits, 6)

LEMMA WeightOfBits ==
  ASSUME NEW k \in 0..127
  PROVE  BitsOf(k) \subseteq 0..6 /\ Weight(BitsOf(k)) = k
<1>1. k \in Nat
  OBVIOUS
<1>2. (k \div 128) % 2 = 0
  OBVIOUS
<1>3. BitsOf(k) \subseteq 0..6
  BY <1>1, <1>2, ByteBits
<1>4. /\ Digit(BitsOf(k), 0) = k % 2 /\ Digit(BitsOf(k), 1) = (k \div 2) % 2
      /\ Digit(BitsOf(k), 2) = (k \div 4) % 2 /\ Digit(BitsOf(k), 3) = (k \div 8) % 2
      /\ Digit(BitsOf(k), 4) = (k \div 16) % 2 /\ Digit(BitsOf(k), 5) = (k \div 32) % 2
      /\ Digit(BitsOf(k), 6) = (k \div 64) % 2
  BY <1>1, ByteBits DEF Digit
<1>5. k = (k % 2) + 2 * ((k \div 2) % 2) + 4 * ((k \div 4) % 2) + 8 * ((k \div 8) % 2)
            + 16 * ((k \div 16) % 2) + 32 * ((k \div 32) % 2) + 64 * ((k \div 64) % 2)
  OBVIOUS
<1> QED
  BY <1>3, <1>4, <1>5 DEF Weight

LEMMA BitsOfWeight ==
  ASSUME NEW bits \in SUBSET (0..6)
  PROVE  Weight(bits) \in 0..127 /\ BitsOf(Weight(bits)) = bits
<1> DEFINE w == Weight(bits)
           x0 == Digit(bits, 0)
           x1 == Digit(bits, 1)
           x2 == Digit(bits, 2)
           x3 == Digit(bits, 3)
           x4 == Digit(bits, 4)
           x5 == Digit(bits, 5)
           x6 == Digit(bits, 6)
<1>1. /\ x0 \in {0, 1} /\ x1 \in {0, 1} /\ x2 \in {0, 1} /\ x3 \in {0, 1} /\ x4 \in {0, 1}
      /\ x5 \in {0, 1} /\ x6 \in {0, 1}
  BY DEF Digit
<1>2. w = x0 + 2 * x1 + 4 * x2 + 8 * x3 + 16 * x4 + 32 * x5 + 64 * x6
  BY DEF Weight
<1>3. /\ (0 \in bits <=> x0 = 1) /\ (1 \in bits <=> x1 = 1) /\ (2 \in bits <=> x2 = 1)
      /\ (3 \in bits <=> x3 = 1) /\ (4 \in bits <=> x4 = 1) /\ (5 \in bits <=> x5 = 1)
      /\ (6 \in bits <=> x6 = 1)
  BY DEF Digit
<1> HIDE DEF w, x0, x1, x2, x3, x4, x5, x6
<1>4. w \in 0..127 /\ w \in Nat
  BY <1>1, <1>2
<1>5. w % 2 = x0 /\ (w \div 2) % 2 = x1
  BY <1>1, <1>2
<1>6. (w \div 4) % 2 = x2 /\ (w \div 8) % 2 = x3
  BY <1>1, <1>2
<1>7. (w \div 16) % 2 = x4 /\ (w \div 32) % 2 = x5
  BY <1>1, <1>2
<1>8. (w \div 64) % 2 = x6 /\ (w \div 128) % 2 = 0
  BY <1>1, <1>2
<1> DEFINE y0 == w % 2
           y1 == (w \div 2) % 2
           y2 == (w \div 4) % 2
           y3 == (w \div 8) % 2
           y4 == (w \div 16) % 2
           y5 == (w \div 32) % 2
           y6 == (w \div 64) % 2
           y7 == (w \div 128) % 2
<1>9. BitsOf(w) = {b \in 0..7 :
           \/ b = 0 /\ y0 = 1
           \/ b = 1 /\ y1 = 1
           \/ b = 2 /\ y2 = 1
           \/ b = 3 /\ y3 = 1
           \/ b = 4 /\ y4 = 1
           \/ b = 5 /\ y5 = 1
           \/ b = 6 /\ y6 = 1
           \/ b = 7 /\ y7 = 1}
  BY <1>4, ByteBits
<1>10. y0 = x0 /\ y1 = x1 /\ y2 = x2 /\ y3 = x3 /\ y4 = x4 /\ y5 = x5 /\ y6 = x6 /\ y7 = 0
  BY <1>5, <1>6, <1>7, <1>8
<1> HIDE DEF y0, y1, y2, y3, y4, y5, y6, y7
<1>11. \A b \in bits : b = 0 \/ b = 1 \/ b = 2 \/ b = 3 \/ b = 4 \/ b = 5 \/ b = 6
  OBVIOUS
<1>12. BitsOf(w) = bits
  <2>1. ASSUME NEW b \in bits PROVE b \in BitsOf(w)
    <3>1. b \in 0..7
      OBVIOUS
    <3>2. \/ b = 0 /\ y0 = 1
          \/ b = 1 /\ y1 = 1
          \/ b = 2 /\ y2 = 1
          \/ b = 3 /\ y3 = 1
          \/ b = 4 /\ y4 = 1
          \/ b = 5 /\ y5 = 1
          \/ b = 6 /\ y6 = 1
      <4>1. \/ b = 0 /\ x0 = 1
            \/ b = 1 /\ x1 = 1
            \/ b = 2 /\ x2 = 1
            \/ b = 3 /\ x3 = 1
            \/ b = 4 /\ x4 = 1
            \/ b = 5 /\ x5 = 1
            \/ b = 6 /\ x6 = 1
        <5>1. b = 0 \/ b = 1 \/ b = 2 \/ b = 3 \/ b = 4 \/ b = 5 \/ b = 6
          BY <1>11
        <5>2. /\ b = 0 => x0 = 1
              /\ b = 1 => x1 = 1
              /\ b = 2 => x2 = 1
              /\ b = 3 => x3 = 1
              /\ b = 4 => x4 = 1
              /\ b = 5 => x5 = 1
              /\ b = 6 => x6 = 1
          BY <1>3
        <5> QED
          BY <5>1, <5>2
      <4> QED
        BY <1>10, <4>1
    <3> QED
      BY <1>9, <3>1, <3>2
  <2>2. \A b : b \in BitsOf(w) => b \in bits
    BY <1>3, <1>9, <1>10
  <2> QED
    BY <2>1, <2>2, Zenon
<1> QED
  BY <1>4, <1>12 DEF w

LEMMA NumberIsWeight ==
  ASSUME NEW bits \in SUBSET (0..6)
  PROVE  Number(bits) \in 0..127 /\ BitsOf(Number(bits)) = bits /\ Number(bits) = Weight(bits)
<1>1. \E n \in 0..127 : BitsOf(n) = bits
  BY BitsOfWeight
<1> DEFINE n == Number(bits)
<1>2. n \in 0..127 /\ BitsOf(n) = bits
  BY <1>1 DEF Number
<1> HIDE DEF n
<1>3. n = Weight(bits)
  BY <1>2, WeightOfBits
<1> QED
  BY <1>2, <1>3 DEF n

(* Every field lies in the 64 bits of the word.                            *)
InWord(p) == p \in Layout /\ p[3] + p[2] <= 64

LEMMA FieldInWord ==
  ASSUME NEW lo \in Nat, NEW n \in Nat, NEW at \in Nat, at + n <= 64
  PROVE  InWord(<<lo, n, at>>)
  BY DEF InWord, Layout

LEMMA NamedFields ==
  /\ InWord(RD) /\ InWord(RS1) /\ InWord(RS2) /\ InWord(RS3) /\ InWord(RS4) /\ InWord(RS5) /\ InWord(RS6)
  /\ InWord(LSDISP) /\ InWord(NoField)
  /\ \A n, at \in Nat : n + at <= 64 => InWord(Field(n, at))
<1>1. \A n, at \in Nat : n + at <= 64 => InWord(Field(n, at))
  BY FieldInWord DEF Field
<1> QED
  BY <1>1 DEF RD, RS1, RS2, RS3, RS4, RS5, RS6, LSDISP, NoField

LEMMA PutInWord ==
  ASSUME NEW v, NEW pieces, \A p \in pieces : InWord(p)
  PROVE  Put(v, pieces) \subseteq 0..63 /\ Span(pieces) \subseteq 0..63
<1>1. \A p \in pieces : p[1] \in Nat /\ p[2] \in Nat /\ p[3] \in Nat /\ p[3] + p[2] <= 64
  BY DEF InWord, Layout
<1>2. \A p \in pieces : p[3]..p[3] + p[2] - 1 \subseteq 0..63
  BY <1>1
<1>3. \A p \in pieces : PutPiece(v, p) \subseteq p[3]..p[3] + p[2] - 1
  BY DEF PutPiece
<1> QED
  BY <1>2, <1>3 DEF Put, Span

(* The tables of registers                                                 *)
AllIn(fields) == \A k \in DOMAIN fields : InWord(fields[k])

LEMMA OneField ==
  ASSUME NEW a, InWord(a)
  PROVE  AllIn(<<a>>)
  BY DEF AllIn

LEMMA TwoFields ==
  ASSUME NEW a, InWord(a), NEW b, InWord(b)
  PROVE  AllIn(<<a, b>>)
  BY DEF AllIn

LEMMA ThreeFields ==
  ASSUME NEW a, InWord(a), NEW b, InWord(b), NEW c, InWord(c)
  PROVE  AllIn(<<a, b, c>>)
  BY DEF AllIn

LEMMA FourFields ==
  ASSUME NEW a, InWord(a), NEW b, InWord(b), NEW c, InWord(c), NEW d, InWord(d)
  PROVE  AllIn(<<a, b, c, d>>)
  BY DEF AllIn

LEMMA SevenFields == AllIn(SevenRegisters)
<1>1. DOMAIN SevenRegisters = 1..7
  BY DEF SevenRegisters
<1>2. /\ SevenRegisters[1] = RD /\ SevenRegisters[2] = RS1 /\ SevenRegisters[3] = RS2
      /\ SevenRegisters[4] = RS3 /\ SevenRegisters[5] = RS4 /\ SevenRegisters[6] = RS5
      /\ SevenRegisters[7] = RS6
  BY DEF SevenRegisters
<1> QED
  BY <1>1, <1>2, NamedFields DEF AllIn

LEMMA RegistersA == \A f \in DOMAIN RegFieldsA : AllIn(RegFieldsA[f])
<1>1. DOMAIN RegFieldsA = {"PRED", "R2", "R2S", "R3", "ENTER", "LEAVE", "RI", "RIA", "RIB", "B", "REGIND", "SCNDX"}
  BY DEF RegFieldsA
<1>2. AllIn(RegFieldsA["PRED"])
  <2>1. RegFieldsA["PRED"] = <<RS1, RS1, RS1>>
    BY DEF RegFieldsA
  <2>2. AllIn(<<RS1, RS1, RS1>>)
    BY NamedFields, ThreeFields
  <2> QED
    BY <2>1, <2>2
<1>3. AllIn(RegFieldsA["R2"]) /\ AllIn(RegFieldsA["REGIND"])
  <2>1. RegFieldsA["R2"] = <<RD, RS1, RS2>> /\ RegFieldsA["REGIND"] = <<RD, RS1, RS2>>
    BY DEF RegFieldsA
  <2>2. AllIn(<<RD, RS1, RS2>>)
    BY NamedFields, ThreeFields
  <2> QED
    BY <2>1, <2>2
<1>4. AllIn(RegFieldsA["R2S"])
  <2>1. RegFieldsA["R2S"] = <<Field(5, 7), Field(5, 14), Field(5, 21)>>
    BY DEF RegFieldsA
  <2>2. AllIn(<<Field(5, 7), Field(5, 14), Field(5, 21)>>)
    BY NamedFields, ThreeFields
  <2> QED
    BY <2>1, <2>2
<1>5. AllIn(RegFieldsA["R3"]) /\ AllIn(RegFieldsA["ENTER"]) /\ AllIn(RegFieldsA["LEAVE"])
  <2>1. RegFieldsA["R3"] = <<RD, RS1, RS2, RS3>> /\ RegFieldsA["ENTER"] = <<RD, RS1, RS2, RS3>> /\ RegFieldsA["LEAVE"] = <<RD, RS1, RS2, RS3>>
    BY DEF RegFieldsA
  <2>2. AllIn(<<RD, RS1, RS2, RS3>>)
    BY NamedFields, FourFields
  <2> QED
    BY <2>1, <2>2
<1>6. AllIn(RegFieldsA["RI"]) /\ AllIn(RegFieldsA["SCNDX"])
  <2>1. RegFieldsA["RI"] = <<RD, RS1>> /\ RegFieldsA["SCNDX"] = <<RD, RS1>>
    BY DEF RegFieldsA
  <2>2. AllIn(<<RD, RS1>>)
    BY NamedFields, TwoFields
  <2> QED
    BY <2>1, <2>2
<1>7. AllIn(RegFieldsA["RIA"])
  <2>1. RegFieldsA["RIA"] = <<RD, NoField, RS2>>
    BY DEF RegFieldsA
  <2>2. AllIn(<<RD, NoField, RS2>>)
    BY NamedFields, ThreeFields
  <2> QED
    BY <2>1, <2>2
<1>8. AllIn(RegFieldsA["RIB"])
  <2>1. RegFieldsA["RIB"] = <<RD, RS1, NoField>>
    BY DEF RegFieldsA
  <2>2. AllIn(<<RD, RS1, NoField>>)
    BY NamedFields, ThreeFields
  <2> QED
    BY <2>1, <2>2
<1>9. AllIn(RegFieldsA["B"])
  <2>1. RegFieldsA["B"] = <<RS1, RS2, RS3, RS4>>
    BY DEF RegFieldsA
  <2>2. AllIn(<<RS1, RS2, RS3, RS4>>)
    BY NamedFields, FourFields
  <2> QED
    BY <2>1, <2>2
<1> QED
  BY <1>1, <1>2, <1>3, <1>4, <1>5, <1>6, <1>7, <1>8, <1>9

LEMMA RegistersB == \A f \in DOMAIN RegFieldsB : AllIn(RegFieldsB[f])
<1>1. DOMAIN RegFieldsB = {"RII", "RTDI", "RIM", "RISH", "RISM", "RIV", "RIS", "RIMV", "BFR3IR", "SI", "R1", "BFR3II", "RI6", "SH", "CSR", "R3RI", "BFR3RI", "SHIFTI", "MV", "RTDR"}
  BY DEF RegFieldsB
<1>2. AllIn(RegFieldsB["RII"]) /\ AllIn(RegFieldsB["RTDI"]) /\ AllIn(RegFieldsB["RIM"]) /\ AllIn(RegFieldsB["R1"]) /\ AllIn(RegFieldsB["BFR3II"]) /\ AllIn(RegFieldsB["RI6"]) /\ AllIn(RegFieldsB["RTDR"]) /\ AllIn(RegFieldsB["MV"])
  <2>1. RegFieldsB["RII"] = <<RD, RS1>> /\ RegFieldsB["RTDI"] = <<RD, RS1>> /\ RegFieldsB["RIM"] = <<RD, RS1>> /\ RegFieldsB["R1"] = <<RD, RS1>> /\ RegFieldsB["BFR3II"] = <<RD, RS1>> /\ RegFieldsB["RI6"] = <<RD, RS1>> /\ RegFieldsB["RTDR"] = <<RD, RS1>> /\ RegFieldsB["MV"] = <<RD, RS1>>
    BY DEF RegFieldsB
  <2>2. AllIn(<<RD, RS1>>)
    BY NamedFields, TwoFields
  <2> QED
    BY <2>1, <2>2
<1>3. AllIn(RegFieldsB["RISH"]) /\ AllIn(RegFieldsB["RISM"])
  <2>1. RegFieldsB["RISH"] = <<RD>> /\ RegFieldsB["RISM"] = <<RD>>
    BY DEF RegFieldsB
  <2>2. AllIn(<<RD>>)
    BY NamedFields, OneField
  <2> QED
    BY <2>1, <2>2
<1>4. AllIn(RegFieldsB["RIV"]) /\ AllIn(RegFieldsB["RIS"]) /\ AllIn(RegFieldsB["RIMV"])
  <2>1. RegFieldsB["RIV"] = <<RD, NoField, RS1>> /\ RegFieldsB["RIS"] = <<RD, NoField, RS1>> /\ RegFieldsB["RIMV"] = <<RD, NoField, RS1>>
    BY DEF RegFieldsB
  <2>2. AllIn(<<RD, NoField, RS1>>)
    BY NamedFields, ThreeFields
  <2> QED
    BY <2>1, <2>2
<1>5. AllIn(RegFieldsB["BFR3IR"])
  <2>1. RegFieldsB["BFR3IR"] = <<RD, RS1, NoField, RS3>>
    BY DEF RegFieldsB
  <2>2. AllIn(<<RD, RS1, NoField, RS3>>)
    BY NamedFields, FourFields
  <2> QED
    BY <2>1, <2>2
<1>6. AllIn(RegFieldsB["SI"])
  <2>1. RegFieldsB["SI"] = <<Field(8, 9), Field(8, 15), Field(8, 21)>>
    BY DEF RegFieldsB
  <2>2. AllIn(<<Field(8, 9), Field(8, 15), Field(8, 21)>>)
    BY NamedFields, ThreeFields
  <2> QED
    BY <2>1, <2>2
<1>7. AllIn(RegFieldsB["SH"]) /\ AllIn(RegFieldsB["CSR"]) /\ AllIn(RegFieldsB["R3RI"]) /\ AllIn(RegFieldsB["BFR3RI"]) /\ AllIn(RegFieldsB["SHIFTI"])
  <2>1. RegFieldsB["SH"] = <<RD, RS1, RS2, RS3>> /\ RegFieldsB["CSR"] = <<RD, RS1, RS2, RS3>> /\ RegFieldsB["R3RI"] = <<RD, RS1, RS2, RS3>> /\ RegFieldsB["BFR3RI"] = <<RD, RS1, RS2, RS3>> /\ RegFieldsB["SHIFTI"] = <<RD, RS1, RS2, RS3>>
    BY DEF RegFieldsB
  <2>2. AllIn(<<RD, RS1, RS2, RS3>>)
    BY NamedFields, FourFields
  <2> QED
    BY <2>1, <2>2
<1> QED
  BY <1>1, <1>2, <1>3, <1>4, <1>5, <1>6, <1>7

LEMMA RegistersC == \A f \in DOMAIN RegFieldsC : AllIn(RegFieldsC[f])
<1>1. DOMAIN RegFieldsC = {"R7", "R6", "R5", "R4", "R3RR", "BI", "BZ", "BL2", "J3", "BL", "JL3", "JSCNDX", "DIRECT"}
  BY DEF RegFieldsC
<1>2. AllIn(RegFieldsC["R7"]) /\ AllIn(RegFieldsC["R6"]) /\ AllIn(RegFieldsC["R5"]) /\ AllIn(RegFieldsC["R4"]) /\ AllIn(RegFieldsC["R3RR"])
  BY SevenFields DEF RegFieldsC
<1>3. AllIn(RegFieldsC["BI"])
  <2>1. RegFieldsC["BI"] = <<RS1, RS2>>
    BY DEF RegFieldsC
  <2>2. AllIn(<<RS1, RS2>>)
    BY NamedFields, TwoFields
  <2> QED
    BY <2>1, <2>2
<1>4. AllIn(RegFieldsC["BZ"]) /\ AllIn(RegFieldsC["J3"])
  <2>1. RegFieldsC["BZ"] = <<RS1>> /\ RegFieldsC["J3"] = <<RS1>>
    BY DEF RegFieldsC
  <2>2. AllIn(<<RS1>>)
    BY NamedFields, OneField
  <2> QED
    BY <2>1, <2>2
<1>5. AllIn(RegFieldsC["BL2"]) /\ AllIn(RegFieldsC["DIRECT"])
  <2>1. RegFieldsC["BL2"] = <<RD>> /\ RegFieldsC["DIRECT"] = <<RD>>
    BY DEF RegFieldsC
  <2>2. AllIn(<<RD>>)
    BY NamedFields, OneField
  <2> QED
    BY <2>1, <2>2
<1>6. AllIn(RegFieldsC["BL"])
  <2>1. RegFieldsC["BL"] = <<NoField, RS1, RS2, RS3>>
    BY DEF RegFieldsC
  <2>2. AllIn(<<NoField, RS1, RS2, RS3>>)
    BY NamedFields, FourFields
  <2> QED
    BY <2>1, <2>2
<1>7. AllIn(RegFieldsC["JL3"])
  <2>1. RegFieldsC["JL3"] = <<NoField, RS1>>
    BY DEF RegFieldsC
  <2>2. AllIn(<<NoField, RS1>>)
    BY NamedFields, TwoFields
  <2> QED
    BY <2>1, <2>2
<1>8. AllIn(RegFieldsC["JSCNDX"])
  <2>1. RegFieldsC["JSCNDX"] = <<RD, RS1>>
    BY DEF RegFieldsC
  <2>2. AllIn(<<RD, RS1>>)
    BY NamedFields, TwoFields
  <2> QED
    BY <2>1, <2>2
<1> QED
  BY <1>1, <1>2, <1>3, <1>4, <1>5, <1>6, <1>7, <1>8

LEMMA RegisterInWord ==
  ASSUME NEW f, NEW k
  PROVE  InWord(RegField(f, k))
<1>1. ASSUME NEW fields, AllIn(fields) PROVE InWord(Nth(fields, k))
  BY <1>1, NamedFields DEF Nth, AllIn
<1>2. InWord(NoField)
  BY NamedFields
<1> QED
  BY <1>1, <1>2, RegistersA, RegistersB, RegistersC DEF RegField

(* The tables of immediates                                                *)
InWords(pieces) == \A p \in pieces : InWord(p)
EntryIn(entry) == \A k \in DOMAIN entry : InWords(entry[k])

LEMMA PlainPieces ==
  /\ InWords({}) /\ InWords(None) /\ InWords(Scale) /\ InWords(BFOFFS) /\ InWords(BFWID)
  /\ \A p : InWord(p) => InWords({p})
  /\ \A p, q : InWord(p) /\ InWord(q) => InWords({p, q})
  BY NamedFields DEF InWords, None, Scale, BFOFFS, BFWID

LEMMA EachIn == \A pieces : InWords(pieces) => EntryIn(Each(pieces))
  BY DEF EntryIn, Each

LEMMA ThreeIn ==
  ASSUME NEW a, InWords(a), NEW b, InWords(b), NEW c, InWords(c)
  PROVE  EntryIn(<<a, b, c>>)
  BY DEF EntryIn

LEMMA FourIn ==
  ASSUME NEW a, InWords(a), NEW b, InWords(b), NEW c, InWords(c), NEW d, InWords(d)
  PROVE  EntryIn(<<a, b, c, d>>)
  BY DEF EntryIn

LEMMA ConstantsIn == \A f \in DOMAIN ConstantPieces : EntryIn(ConstantPieces[f])
<1>1. DOMAIN ConstantPieces = {"SI", "ATOM", "CSR", "RTDR", "RTS", "R2", "R2S", "R3", "BFR3RI", "BFR3IR", "BFR3II", "SHIFTI", "RI6", "RII", "CSRI", "ENTER", "LEAVE", "RIS", "RISM", "RISH", "SYNC", "RIL", "RTDI", "REP"}
  BY DEF ConstantPieces
<1>2. EntryIn(ConstantPieces["SI"])
  <2>1. ConstantPieces["SI"] = Each({Field(7, 30)})
    BY DEF ConstantPieces
  <2>2. InWords({Field(7, 30)})
    <3>1. InWord(Field(7, 30))
      BY NamedFields, FieldInWord
    <3> QED
      BY <3>1, PlainPieces
  <2>3. EntryIn(Each({Field(7, 30)}))
    BY <2>2, PlainPieces, EachIn
  <2> QED
    BY <2>1, <2>3
<1>3. EntryIn(ConstantPieces["ATOM"])
  <2>1. ConstantPieces["ATOM"] = Each({Field(24, 7)})
    BY DEF ConstantPieces
  <2>2. InWords({Field(24, 7)})
    <3>1. InWord(Field(24, 7))
      BY NamedFields, FieldInWord
    <3> QED
      BY <3>1, PlainPieces
  <2>3. EntryIn(Each({Field(24, 7)}))
    BY <2>2, PlainPieces, EachIn
  <2> QED
    BY <2>1, <2>3
<1>4. EntryIn(ConstantPieces["CSR"])
  <2>1. ConstantPieces["CSR"] = Each({Field(8, 24), <<8, 31, 33>>})
    BY DEF ConstantPieces
  <2>2. InWords({Field(8, 24), <<8, 31, 33>>})
    <3>1. InWord(Field(8, 24)) /\ InWord(<<8, 31, 33>>)
      BY NamedFields, FieldInWord
    <3> QED
      BY <3>1, PlainPieces
  <2>3. EntryIn(Each({Field(8, 24), <<8, 31, 33>>}))
    BY <2>2, PlainPieces, EachIn
  <2> QED
    BY <2>1, <2>3
<1>5. EntryIn(ConstantPieces["RTDR"])
  <2>1. ConstantPieces["RTDR"] = <<None, {Field(32, 32)}, {Field(3, 7)}>>
    BY DEF ConstantPieces
  <2>2. InWords({Field(3, 7)})
    <3>1. InWord(Field(3, 7))
      BY NamedFields, FieldInWord
    <3> QED
      BY <3>1, PlainPieces
  <2>3. InWords({Field(32, 32)})
    <3>1. InWord(Field(32, 32))
      BY NamedFields, FieldInWord
    <3> QED
      BY <3>1, PlainPieces
  <2>4. EntryIn(<<None, {Field(32, 32)}, {Field(3, 7)}>>)
    BY <2>2, <2>3, PlainPieces, ThreeIn
  <2> QED
    BY <2>1, <2>4
<1>6. EntryIn(ConstantPieces["RTS"])
  <2>1. ConstantPieces["RTS"] = Each({Field(6, 11)})
    BY DEF ConstantPieces
  <2>2. InWords({Field(6, 11)})
    <3>1. InWord(Field(6, 11))
      BY NamedFields, FieldInWord
    <3> QED
      BY <3>1, PlainPieces
  <2>3. EntryIn(Each({Field(6, 11)}))
    BY <2>2, PlainPieces, EachIn
  <2> QED
    BY <2>1, <2>3
<1>7. EntryIn(ConstantPieces["R2"]) /\ EntryIn(ConstantPieces["R2S"])
  <2>1. ConstantPieces["R2"] = Each({RS2}) /\ ConstantPieces["R2S"] = Each({RS2})
    BY DEF ConstantPieces
  <2>2. InWords({RS2})
    <3>1. InWord(RS2)
      BY NamedFields, FieldInWord
    <3> QED
      BY <3>1, PlainPieces
  <2>3. EntryIn(Each({RS2}))
    BY <2>2, PlainPieces, EachIn
  <2> QED
    BY <2>1, <2>3
<1>8. EntryIn(ConstantPieces["R3"])
  <2>1. ConstantPieces["R3"] = <<None, None, {RS2}, {RS3}>>
    BY DEF ConstantPieces
  <2>2. InWords({RS2})
    <3>1. InWord(RS2)
      BY NamedFields, FieldInWord
    <3> QED
      BY <3>1, PlainPieces
  <2>3. InWords({RS3})
    <3>1. InWord(RS3)
      BY NamedFields, FieldInWord
    <3> QED
      BY <3>1, PlainPieces
  <2>4. EntryIn(<<None, None, {RS2}, {RS3}>>)
    BY <2>2, <2>3, PlainPieces, FourIn, Zenon
  <2> QED
    BY <2>1, <2>4
<1>9. EntryIn(ConstantPieces["BFR3RI"]) /\ EntryIn(ConstantPieces["BFR3IR"]) /\ EntryIn(ConstantPieces["BFR3II"])
  <2>1. ConstantPieces["BFR3RI"] = <<None, None, BFOFFS, BFWID>> /\ ConstantPieces["BFR3IR"] = <<None, None, BFOFFS, BFWID>> /\ ConstantPieces["BFR3II"] = <<None, None, BFOFFS, BFWID>>
    BY DEF ConstantPieces
  <2>2. EntryIn(<<None, None, BFOFFS, BFWID>>)
    BY PlainPieces, FourIn
  <2> QED
    BY <2>1, <2>2
<1>10. EntryIn(ConstantPieces["SHIFTI"])
  <2>1. ConstantPieces["SHIFTI"] = Each({Field(7, 29)})
    BY DEF ConstantPieces
  <2>2. InWords({Field(7, 29)})
    <3>1. InWord(Field(7, 29))
      BY NamedFields, FieldInWord
    <3> QED
      BY <3>1, PlainPieces
  <2>3. EntryIn(Each({Field(7, 29)}))
    BY <2>2, PlainPieces, EachIn
  <2> QED
    BY <2>1, <2>3
<1>11. EntryIn(ConstantPieces["RI6"])
  <2>1. ConstantPieces["RI6"] = Each({Field(6, 19)})
    BY DEF ConstantPieces
  <2>2. InWords({Field(6, 19)})
    <3>1. InWord(Field(6, 19))
      BY NamedFields, FieldInWord
    <3> QED
      BY <3>1, PlainPieces
  <2>3. EntryIn(Each({Field(6, 19)}))
    BY <2>2, PlainPieces, EachIn
  <2> QED
    BY <2>1, <2>3
<1>12. EntryIn(ConstantPieces["RII"])
  <2>1. ConstantPieces["RII"] = <<None, None, {Field(7, 23)}, {Field(7, 30)}>>
    BY DEF ConstantPieces
  <2>2. InWords({Field(7, 23)})
    <3>1. InWord(Field(7, 23))
      BY NamedFields, FieldInWord
    <3> QED
      BY <3>1, PlainPieces
  <2>3. InWords({Field(7, 30)})
    <3>1. InWord(Field(7, 30))
      BY NamedFields, FieldInWord
    <3> QED
      BY <3>1, PlainPieces
  <2>4. EntryIn(<<None, None, {Field(7, 23)}, {Field(7, 30)}>>)
    BY <2>2, <2>3, PlainPieces, FourIn
  <2> QED
    BY <2>1, <2>4
<1>13. EntryIn(ConstantPieces["CSRI"])
  <2>1. ConstantPieces["CSRI"] = <<None, {Field(7, 16)}, {Field(8, 25), <<8, 5, 34>>}>>
    BY DEF ConstantPieces
  <2>2. InWords({Field(7, 16)})
    <3>1. InWord(Field(7, 16))
      BY NamedFields, FieldInWord
    <3> QED
      BY <3>1, PlainPieces
  <2>3. InWords({Field(8, 25), <<8, 5, 34>>})
    <3>1. InWord(Field(8, 25)) /\ InWord(<<8, 5, 34>>)
      BY NamedFields, FieldInWord
    <3> QED
      BY <3>1, PlainPieces
  <2>4. EntryIn(<<None, {Field(7, 16)}, {Field(8, 25), <<8, 5, 34>>}>>)
    BY <2>2, <2>3, PlainPieces, ThreeIn, Zenon
  <2> QED
    BY <2>1, <2>4
<1>14. EntryIn(ConstantPieces["ENTER"]) /\ EntryIn(ConstantPieces["LEAVE"])
  <2>1. ConstantPieces["ENTER"] = <<None, None, None, {<<3, 22, 25>>}>> /\ ConstantPieces["LEAVE"] = <<None, None, None, {<<3, 22, 25>>}>>
    BY DEF ConstantPieces
  <2>2. InWords({<<3, 22, 25>>})
    <3>1. InWord(<<3, 22, 25>>)
      BY NamedFields, FieldInWord
    <3> QED
      BY <3>1, PlainPieces
  <2>3. EntryIn(<<None, None, None, {<<3, 22, 25>>}>>)
    BY <2>2, PlainPieces, FourIn
  <2> QED
    BY <2>1, <2>3
<1>15. EntryIn(ConstantPieces["RIS"])
  <2>1. ConstantPieces["RIS"] = <<None, {Field(37, 27)}, Scale>>
    BY DEF ConstantPieces
  <2>2. InWords({Field(37, 27)})
    <3>1. InWord(Field(37, 27))
      BY NamedFields, FieldInWord
    <3> QED
      BY <3>1, PlainPieces
  <2>3. EntryIn(<<None, {Field(37, 27)}, Scale>>)
    BY <2>2, PlainPieces, ThreeIn
  <2> QED
    BY <2>1, <2>3
<1>16. EntryIn(ConstantPieces["RISM"])
  <2>1. ConstantPieces["RISM"] = <<None, {<<32, 36, 27>>}, Scale>>
    BY DEF ConstantPieces
  <2>2. InWords({<<32, 36, 27>>})
    <3>1. InWord(<<32, 36, 27>>)
      BY NamedFields, FieldInWord
    <3> QED
      BY <3>1, PlainPieces
  <2>3. EntryIn(<<None, {<<32, 36, 27>>}, Scale>>)
    BY <2>2, PlainPieces, ThreeIn
  <2> QED
    BY <2>1, <2>3
<1>17. EntryIn(ConstantPieces["RISH"])
  <2>1. ConstantPieces["RISH"] = <<None, {<<64, 32, 27>>}, Scale>>
    BY DEF ConstantPieces
  <2>2. InWords({<<64, 32, 27>>})
    <3>1. InWord(<<64, 32, 27>>)
      BY NamedFields, FieldInWord
    <3> QED
      BY <3>1, PlainPieces
  <2>3. EntryIn(<<None, {<<64, 32, 27>>}, Scale>>)
    BY <2>2, PlainPieces, ThreeIn
  <2> QED
    BY <2>1, <2>3
<1>18. EntryIn(ConstantPieces["SYNC"])
  <2>1. ConstantPieces["SYNC"] = Each({Field(19, 10)})
    BY DEF ConstantPieces
  <2>2. InWords({Field(19, 10)})
    <3>1. InWord(Field(19, 10))
      BY NamedFields, FieldInWord
    <3> QED
      BY <3>1, PlainPieces
  <2>3. EntryIn(Each({Field(19, 10)}))
    BY <2>2, PlainPieces, EachIn
  <2> QED
    BY <2>1, <2>3
<1>19. EntryIn(ConstantPieces["RIL"]) /\ EntryIn(ConstantPieces["RTDI"]) /\ EntryIn(ConstantPieces["REP"])
  <2>1. ConstantPieces["RIL"] = Each(None) /\ ConstantPieces["RTDI"] = Each(None) /\ ConstantPieces["REP"] = Each(None)
    BY DEF ConstantPieces
  <2>2. EntryIn(Each(None))
    BY PlainPieces, EachIn
  <2> QED
    BY <2>1, <2>2
<1> QED
  BY <1>1, <1>2, <1>3, <1>4, <1>5, <1>6, <1>7, <1>8, <1>9, <1>10, <1>11, <1>12, <1>13, <1>14, <1>15, <1>16, <1>17, <1>18, <1>19

LEMMA LabelsIn == \A f \in DOMAIN LabelPieces : EntryIn(LabelPieces[f])
<1>1. DOMAIN LabelPieces = {"SI", "ATOM", "CSRI", "RTDR", "CSR", "SHIFTI", "RI6", "R2", "BFR3RI", "BFR3IR", "BFR3II", "RIS", "RISM", "RISH", "RIL", "RII", "REP"}
  BY DEF LabelPieces
<1>2. EntryIn(LabelPieces["SI"])
  <2>1. LabelPieces["SI"] = Each({Field(7, 30)})
    BY DEF LabelPieces
  <2>2. InWords({Field(7, 30)})
    <3>1. InWord(Field(7, 30))
      BY NamedFields, FieldInWord
    <3> QED
      BY <3>1, PlainPieces
  <2>3. EntryIn(Each({Field(7, 30)}))
    BY <2>2, PlainPieces, EachIn
  <2> QED
    BY <2>1, <2>3
<1>3. EntryIn(LabelPieces["ATOM"])
  <2>1. LabelPieces["ATOM"] = Each({Field(24, 7)})
    BY DEF LabelPieces
  <2>2. InWords({Field(24, 7)})
    <3>1. InWord(Field(24, 7))
      BY NamedFields, FieldInWord
    <3> QED
      BY <3>1, PlainPieces
  <2>3. EntryIn(Each({Field(24, 7)}))
    BY <2>2, PlainPieces, EachIn
  <2> QED
    BY <2>1, <2>3
<1>4. EntryIn(LabelPieces["CSRI"])
  <2>1. LabelPieces["CSRI"] = <<None, {Field(7, 16)}, {Field(8, 23), <<8, 6, 32>>}>>
    BY DEF LabelPieces
  <2>2. InWords({Field(7, 16)})
    <3>1. InWord(Field(7, 16))
      BY NamedFields, FieldInWord
    <3> QED
      BY <3>1, PlainPieces
  <2>3. InWords({Field(8, 23), <<8, 6, 32>>})
    <3>1. InWord(Field(8, 23)) /\ InWord(<<8, 6, 32>>)
      BY NamedFields, FieldInWord
    <3> QED
      BY <3>1, PlainPieces
  <2>4. EntryIn(<<None, {Field(7, 16)}, {Field(8, 23), <<8, 6, 32>>}>>)
    BY <2>2, <2>3, PlainPieces, ThreeIn, Zenon
  <2> QED
    BY <2>1, <2>4
<1>5. EntryIn(LabelPieces["RTDR"])
  <2>1. LabelPieces["RTDR"] = <<None, {Field(32, 32)}, {Field(3, 7)}>>
    BY DEF LabelPieces
  <2>2. InWords({Field(3, 7)})
    <3>1. InWord(Field(3, 7))
      BY NamedFields, FieldInWord
    <3> QED
      BY <3>1, PlainPieces
  <2>3. InWords({Field(32, 32)})
    <3>1. InWord(Field(32, 32))
      BY NamedFields, FieldInWord
    <3> QED
      BY <3>1, PlainPieces
  <2>4. EntryIn(<<None, {Field(32, 32)}, {Field(3, 7)}>>)
    BY <2>2, <2>3, PlainPieces, ThreeIn
  <2> QED
    BY <2>1, <2>4
<1>6. EntryIn(LabelPieces["CSR"]) /\ EntryIn(LabelPieces["RIL"]) /\ EntryIn(LabelPieces["REP"])
  <2>1. LabelPieces["CSR"] = Each(None) /\ LabelPieces["RIL"] = Each(None) /\ LabelPieces["REP"] = Each(None)
    BY DEF LabelPieces
  <2>2. EntryIn(Each(None))
    BY PlainPieces, EachIn
  <2> QED
    BY <2>1, <2>2
<1>7. EntryIn(LabelPieces["SHIFTI"])
  <2>1. LabelPieces["SHIFTI"] = Each({Field(7, 26)})
    BY DEF LabelPieces
  <2>2. InWords({Field(7, 26)})
    <3>1. InWord(Field(7, 26))
      BY NamedFields, FieldInWord
    <3> QED
      BY <3>1, PlainPieces
  <2>3. EntryIn(Each({Field(7, 26)}))
    BY <2>2, PlainPieces, EachIn
  <2> QED
    BY <2>1, <2>3
<1>8. EntryIn(LabelPieces["RI6"])
  <2>1. LabelPieces["RI6"] = Each({Field(6, 26)})
    BY DEF LabelPieces
  <2>2. InWords({Field(6, 26)})
    <3>1. InWord(Field(6, 26))
      BY NamedFields, FieldInWord
    <3> QED
      BY <3>1, PlainPieces
  <2>3. EntryIn(Each({Field(6, 26)}))
    BY <2>2, PlainPieces, EachIn
  <2> QED
    BY <2>1, <2>3
<1>9. EntryIn(LabelPieces["R2"])
  <2>1. LabelPieces["R2"] = Each({RS2})
    BY DEF LabelPieces
  <2>2. InWords({RS2})
    <3>1. InWord(RS2)
      BY NamedFields, FieldInWord
    <3> QED
      BY <3>1, PlainPieces
  <2>3. EntryIn(Each({RS2}))
    BY <2>2, PlainPieces, EachIn
  <2> QED
    BY <2>1, <2>3
<1>10. EntryIn(LabelPieces["BFR3RI"]) /\ EntryIn(LabelPieces["BFR3IR"]) /\ EntryIn(LabelPieces["BFR3II"])
  <2>1. LabelPieces["BFR3RI"] = <<None, None, BFOFFS, BFWID>> /\ LabelPieces["BFR3IR"] = <<None, None, BFOFFS, BFWID>> /\ LabelPieces["BFR3II"] = <<None, None, BFOFFS, BFWID>>
    BY DEF LabelPieces
  <2>2. EntryIn(<<None, None, BFOFFS, BFWID>>)
    BY PlainPieces, FourIn
  <2> QED
    BY <2>1, <2>2
<1>11. EntryIn(LabelPieces["RIS"])
  <2>1. LabelPieces["RIS"] = <<None, {Field(37, 27)}, Scale>>
    BY DEF LabelPieces
  <2>2. InWords({Field(37, 27)})
    <3>1. InWord(Field(37, 27))
      BY NamedFields, FieldInWord
    <3> QED
      BY <3>1, PlainPieces
  <2>3. EntryIn(<<None, {Field(37, 27)}, Scale>>)
    BY <2>2, PlainPieces, ThreeIn
  <2> QED
    BY <2>1, <2>3
<1>12. EntryIn(LabelPieces["RISM"])
  <2>1. LabelPieces["RISM"] = <<None, {<<32, 32, 27>>}, Scale>>
    BY DEF LabelPieces
  <2>2. InWords({<<32, 32, 27>>})
    <3>1. InWord(<<32, 32, 27>>)
      BY NamedFields, FieldInWord
    <3> QED
      BY <3>1, PlainPieces
  <2>3. EntryIn(<<None, {<<32, 32, 27>>}, Scale>>)
    BY <2>2, PlainPieces, ThreeIn
  <2> QED
    BY <2>1, <2>3
<1>13. EntryIn(LabelPieces["RISH"])
  <2>1. LabelPieces["RISH"] = <<None, {<<64, 36, 27>>}, Scale>>
    BY DEF LabelPieces
  <2>2. InWords({<<64, 36, 27>>})
    <3>1. InWord(<<64, 36, 27>>)
      BY NamedFields, FieldInWord
    <3> QED
      BY <3>1, PlainPieces
  <2>3. EntryIn(<<None, {<<64, 36, 27>>}, Scale>>)
    BY <2>2, PlainPieces, ThreeIn
  <2> QED
    BY <2>1, <2>3
<1>14. EntryIn(LabelPieces["RII"])
  <2>1. LabelPieces["RII"] = <<None, None, {Field(7, 23)}, {Field(7, 30)}>>
    BY DEF LabelPieces
  <2>2. InWords({Field(7, 23)})
    <3>1. InWord(Field(7, 23))
      BY NamedFields, FieldInWord
    <3> QED
      BY <3>1, PlainPieces
  <2>3. InWords({Field(7, 30)})
    <3>1. InWord(Field(7, 30))
      BY NamedFields, FieldInWord
    <3> QED
      BY <3>1, PlainPieces
  <2>4. EntryIn(<<None, None, {Field(7, 23)}, {Field(7, 30)}>>)
    BY <2>2, <2>3, PlainPieces, FourIn
  <2> QED
    BY <2>1, <2>4
<1> QED
  BY <1>1, <1>2, <1>3, <1>4, <1>5, <1>6, <1>7, <1>8, <1>9, <1>10, <1>11, <1>12, <1>13, <1>14

LEMMA PiecesIn ==
  ASSUME NEW f, NEW k
  PROVE  /\ f \in DOMAIN ConstantPieces => InWords(Pieces(ConstantPieces, f, k))
         /\ f \in DOMAIN LabelPieces => InWords(Pieces(LabelPieces, f, k))
<1>1. ASSUME NEW entry, EntryIn(entry)
      PROVE  InWords(IF k + 1 \in DOMAIN entry THEN entry[k + 1] ELSE None)
  BY <1>1, PlainPieces DEF EntryIn
<1>2. ASSUME f \in DOMAIN ConstantPieces PROVE InWords(Pieces(ConstantPieces, f, k))
  BY <1>1, <1>2, ConstantsIn DEF Pieces
<1>3. ASSUME f \in DOMAIN LabelPieces PROVE InWords(Pieces(LabelPieces, f, k))
  BY <1>1, <1>3, LabelsIn DEF Pieces
<1> QED
  BY <1>2, <1>3

(* What an operand does to the instruction stays in the word, and appends  *)
(* a sequence of postfixes.                                                *)
IsSeq(s) == \E S : s \in Seq(S)

LEMMA ShortSeqs == IsSeq(<<>>) /\ (\A a : IsSeq(<<a>>)) /\ (\A a, b : IsSeq(<<a, b>>))
<1>1. IsSeq(<<>>)
  <2>1. <<>> \in Seq({})
    OBVIOUS
  <2> QED
    BY <2>1 DEF IsSeq
<1>2. ASSUME NEW a PROVE IsSeq(<<a>>)
  <2>1. <<a>> \in Seq({a})
    OBVIOUS
  <2> QED
    BY <2>1, Zenon DEF IsSeq
<1>3. ASSUME NEW a, NEW b PROVE IsSeq(<<a, b>>)
  <2>1. <<a, b>> \in Seq({a, b})
    OBVIOUS
  <2> QED
    BY <2>1 DEF IsSeq
<1> QED
  BY <1>1, <1>2, <1>3

LEMMA Cat ==
  ASSUME NEW s, IsSeq(s), NEW t, IsSeq(t)
  PROVE  /\ IsSeq(s \o t) /\ Len(s) \in Nat /\ Len(t) \in Nat /\ Len(s \o t) = Len(s) + Len(t)
<1>1. PICK S : s \in Seq(S)
  BY DEF IsSeq
<1>2. PICK T : t \in Seq(T)
  BY DEF IsSeq
<1>3. s \in Seq(S \cup T) /\ t \in Seq(S \cup T)
  BY <1>1, <1>2
<1>4. /\ s \o t \in Seq(S \cup T) /\ Len(s) \in Nat /\ Len(t) \in Nat
      /\ Len(s \o t) = Len(s) + Len(t)
  BY <1>3
<1> QED
  BY <1>4 DEF IsSeq

(* A fifth postfix is dropped.                                             *)
AtMost4(n) == IF n < 4 THEN n ELSE 4

LEMMA Cpfx ==
  ASSUME NEW s, IsSeq(s), NEW t, IsSeq(t)
  PROVE  /\ IsSeq(encode_cpfx(s, t)) /\ Len(encode_cpfx(s, t)) = AtMost4(Len(s) + Len(t))
         /\ Len(encode_cpfx(s, t)) \in 0..4
<1> DEFINE all == s \o t
           n == IF Len(all) < 4 THEN Len(all) ELSE 4
<1>1. IsSeq(all) /\ Len(all) \in Nat /\ Len(all) = Len(s) + Len(t)
  BY Cat
<1>2. PICK S : all \in Seq(S)
  BY <1>1 DEF IsSeq
<1>3. encode_cpfx(s, t) = SubSeq(all, 1, n)
  BY DEF encode_cpfx
<1> HIDE DEF all
<1>4. n \in 0..Len(all)
  BY <1>1
<1>5. SubSeq(all, 1, n) \in Seq(S) /\ Len(SubSeq(all, 1, n)) = n
  BY <1>2, <1>4
<1>6. n = AtMost4(Len(s) + Len(t)) /\ n \in 0..4
  BY <1>1 DEF AtMost4
<1> HIDE DEF n
<1> QED
  BY <1>3, <1>5, <1>6, Zenon DEF IsSeq

LEMMA TaggedPosts ==
  ASSUME NEW e, IsSeq(e.post)
  PROVE  IsSeq(Tagged(e)) /\ Len(Tagged(e)) = Len(e.post)
<1>1. PICK S : e.post \in Seq(S)
  BY DEF IsSeq
<1>2. DOMAIN e.post = 1..Len(e.post) /\ Len(e.post) \in Nat
  BY <1>1
<1>3. Tagged(e) = [k \in 1..Len(e.post) |-> [op |-> i, v |-> e.v, pfx |-> e.post[k]]]
  BY <1>2 DEF Tagged
<1> DEFINE t(k) == [op |-> i, v |-> e.v, pfx |-> e.post[k]]
           T == {t(k) : k \in 1..Len(e.post)}
<1>4. \A k \in 1..Len(e.post) : t(k) \in T
  OBVIOUS
<1>5. Tagged(e) = [k \in 1..Len(e.post) |-> t(k)]
  BY <1>3
<1> HIDE DEF t, T
<1>6. Tagged(e) \in Seq(T) /\ Len(Tagged(e)) = Len(e.post)
  BY <1>2, <1>4, <1>5
<1> QED
  BY <1>6 DEF IsSeq

Sane(e) == InWords(e.pieces) /\ e.set \subseteq 0..63 /\ IsSeq(e.post) /\ e.size \in 0..64

WithPost(e, s) == [e EXCEPT !.post = s]

LEMMA PlainEffect ==
  ASSUME NEW v, NEW pieces, InWords(pieces), NEW size \in 0..64
  PROVE  /\ Sane(Effect(v, pieces, size))
         /\ \A s : IsSeq(s) => Sane(WithPost(Effect(v, pieces, size), s))
<1> DEFINE e == Effect(v, pieces, size)
           w(s) == WithPost(e, s)
<1>1. e.pieces = pieces /\ e.set = {} /\ e.post = <<>> /\ e.size = size
  BY DEF Effect
<1>2. \A s : w(s).pieces = pieces /\ w(s).set = {} /\ w(s).post = s /\ w(s).size = size
  BY DEF Effect, WithPost
<1> HIDE DEF e, w
<1>3. Sane(e)
  BY <1>1, ShortSeqs DEF Sane
<1>4. \A s : IsSeq(s) => Sane(w(s))
  BY <1>2 DEF Sane
<1> QED
  BY <1>3, <1>4 DEF e, w

LEMMA WordOfSize == \A r : GoodRow(r) => r.len \in 0..64
  BY DEF GoodRow, Lengths

LEMMA SaneRI ==
  ASSUME NEW r, GoodRow(r), NEW v, NEW k
  PROVE  Sane(encode_immed_RI(r, v, k))
<1>1. r.len \in 0..64
  BY WordOfSize
<1>2. InWords({<<0, 25, 21>>}) /\ InWords({LSDISP}) /\ InWords({})
  <2>1. InWord(<<0, 25, 21>>) /\ InWord(LSDISP)
    BY FieldInWord, NamedFields
  <2> QED
    BY <2>1, PlainPieces
<1> DEFINE p2 == IF is_nbit(v, 25) THEN <<>> ELSE <<First(61, 25, 39)>>
           p3 == IF is_nbit(v, 16) THEN <<>>
                         ELSE IF is_nbit(v, 55) THEN <<First(62, 16, 39)>>
                         ELSE <<First(62, 16, 36), Second(62, 55, 9)>>
<1>3. IsSeq(p2) /\ IsSeq(p3)
  BY ShortSeqs
<1>4. \/ encode_immed_RI(r, v, k) = WithPost(Effect(v, {<<0, 25, 21>>}, r.len), p2)
      \/ encode_immed_RI(r, v, k) = WithPost(Effect(v, {LSDISP}, r.len), p3)
      \/ encode_immed_RI(r, v, k) = Effect(v, {}, r.len)
  BY DEF encode_immed_RI, WithPost
<1> HIDE DEF p2, p3
<1> QED
  BY <1>1, <1>2, <1>3, <1>4, PlainEffect

LEMMA SaneSeven ==
  ASSUME NEW field, InWord(field), NEW size \in 0..64, NEW v, NEW code
  PROVE  Sane(SevenBits(v, field, code, size))
<1> DEFINE p == IF is_nbit(v, 7) THEN <<>>
                 ELSE IF is_nbit(v, 46) THEN <<First(code, 7, 39)>>
                 ELSE <<First(code, 7, 39), Second(code, 46, 18)>>
<1>1. IsSeq(p)
  BY ShortSeqs
<1>2. SevenBits(v, field, code, size) = WithPost(Effect(v, {field}, size), p)
  BY DEF SevenBits, WithPost
<1>3. InWords({field})
  BY PlainPieces
<1> HIDE DEF p
<1> QED
  BY <1>1, <1>2, <1>3, PlainEffect

LEMMA SaneConstant ==
  ASSUME NEW r, GoodRow(r), NEW value, NEW k
  PROVE  Sane(ConstantImmediate(r, value, k)) /\ Sane(LabelImmediate(r, value, k))
<1> DEFINE v == Negated(r, value)
<1>0. r.len \in 0..64
  BY WordOfSize
<1>1. ASSUME NEW size \in 0..64, NEW w, NEW pieces, InWords(pieces) PROVE Sane(Effect(w, pieces, size))
  BY <1>1, PlainEffect
<1>2. Sane(encode_immed_RIA(r, v)) /\ Sane(encode_immed_RIB(r, v)) /\ Sane(encode_immed_RID(r, v))
  BY <1>0, NamedFields, SaneSeven, Zenon DEF encode_immed_RIA, encode_immed_RIB, encode_immed_RID
<1>3. Sane(encode_immed_RI(r, v, k))
  BY SaneRI
<1>4. Sane(encode_direct(r, v)) /\ Sane(Effect(v, None, 6)) /\ Sane(Effect(v, None, r.len))
  <2>1. InWords(None) /\ InWords({LSDISP}) /\ 6 \in 0..64
    BY NamedFields, PlainPieces
  <2> QED
    BY <2>1, <1>0, <1>1 DEF encode_direct
<1>5. InWords(OtherConstant) /\ InWords({Field(8, 8)})
  <2>1. InWord(Field(8, 23)) /\ InWord(<<8, 7, 33>>) /\ InWord(Field(8, 8))
    BY NamedFields, FieldInWord
  <2> QED
    BY <2>1, PlainPieces DEF OtherConstant
<1>b. 6 \in 0..64 /\ (IF r.f = "CSR" THEN 8 ELSE 6) \in 0..64
      /\ (IF r.f \in {"CSRI", "BFR3RI", "BFR3IR", "BFR3II"} THEN 8 ELSE 6) \in 0..64
  OBVIOUS
<1>6. /\ \A f, w, size : f \in DOMAIN ConstantPieces /\ size \in 0..64 =>
            Sane(Effect(w, Pieces(ConstantPieces, f, k), size))
      /\ \A f, w, size : f \in DOMAIN LabelPieces /\ size \in 0..64 =>
            Sane(Effect(w, Pieces(LabelPieces, f, k), size))
  BY <1>1, PiecesIn
<1>7. Sane([Effect(v, None, 6) EXCEPT !.all = TRUE])
  <2>1. /\ [Effect(v, None, 6) EXCEPT !.all = TRUE].pieces = None
        /\ [Effect(v, None, 6) EXCEPT !.all = TRUE].set = {}
        /\ [Effect(v, None, 6) EXCEPT !.all = TRUE].post = <<>>
        /\ [Effect(v, None, 6) EXCEPT !.all = TRUE].size = 6
    BY DEF Effect
  <2> QED
    BY <2>1, PlainPieces, ShortSeqs DEF Sane
<1>a. "RISH" \in DOMAIN ConstantPieces /\ "ENTER" \in DOMAIN ConstantPieces /\ "RISH" \in DOMAIN LabelPieces
  BY DEF ConstantPieces, LabelPieces
<1>8. Sane(ConstantImmediate(r, value, k))
  <2>1. \/ ConstantImmediate(r, value, k) = encode_immed_RIA(r, v)
        \/ ConstantImmediate(r, value, k) = encode_immed_RIB(r, v)
        \/ ConstantImmediate(r, value, k) = encode_immed_RID(r, v)
        \/ ConstantImmediate(r, value, k) = encode_immed_RI(r, v, k)
        \/ ConstantImmediate(r, value, k) = encode_direct(r, v)
        \/ ConstantImmediate(r, value, k) = Effect(v, None, 6)
        \/ ConstantImmediate(r, value, k) = Effect(v, None, r.len)
        \/ ConstantImmediate(r, value, k) = Effect(Wide(v), Pieces(ConstantPieces, "RISH", k), 6)
        \/ ConstantImmediate(r, value, k) = Effect(Neg(v), Pieces(ConstantPieces, "ENTER", k), 6)
        \/ /\ r.f \in DOMAIN ConstantPieces
           /\ ConstantImmediate(r, value, k) =
                 Effect(v, Pieces(ConstantPieces, r.f, k), IF r.f = "CSR" THEN 8 ELSE 6)
        \/ ConstantImmediate(r, value, k) = Effect(v, OtherConstant, 6)
    BY DEF ConstantImmediate
  <2> HIDE DEF v
  <2> QED
    BY <2>1, <1>1, <1>2, <1>3, <1>4, <1>5, <1>6, <1>a, <1>b
<1>9. Sane(LabelImmediate(r, value, k))
  <2>1. \/ LabelImmediate(r, value, k) = encode_immed_RI(r, v, k)
        \/ LabelImmediate(r, value, k) = encode_direct(r, v)
        \/ LabelImmediate(r, value, k) = Effect(v, None, r.len)
        \/ LabelImmediate(r, value, k) = Effect(Wide(v), Pieces(LabelPieces, "RISH", k), 6)
        \/ /\ r.f \in DOMAIN LabelPieces
           /\ LabelImmediate(r, value, k) =
                 Effect(v, Pieces(LabelPieces, r.f, k),
                       IF r.f \in {"CSRI", "BFR3RI", "BFR3IR", "BFR3II"} THEN 8 ELSE 6)
        \/ LabelImmediate(r, value, k) = [Effect(v, None, 6) EXCEPT !.all = TRUE]
        \/ LabelImmediate(r, value, k) = Effect(v, {Field(8, 8)}, 6)
    BY DEF LabelImmediate
  <2> HIDE DEF v
  <2> QED
    BY <2>1, <1>1, <1>3, <1>4, <1>5, <1>6, <1>7, <1>a, <1>b, ZenonT(30)
<1> QED
  BY <1>8, <1>9

LEMMA SaneComparand ==
  ASSUME NEW v, NEW code, NEW ms \in 0..63, NEW at \in 0..57
  PROVE  Sane(Comparand(v, code, ms, at))
<1> DEFINE p == IF FitsSigned(v, 7) THEN <<>>
                 ELSE IF is_nbit(v, 46) THEN <<First(code, 7, 39)>>
                 ELSE <<First(code, 7, 39), Second(code, 46, 18)>>
           e == Comparand(v, code, ms, at)
<1>1. IsSeq(p)
  BY ShortSeqs
<1>2. e.pieces = {Field(7, at)} /\ e.set = {ms} /\ e.post = p /\ e.size = 6
  BY DEF Comparand, Effect
<1> HIDE DEF p, e
<1>3. InWords({Field(7, at)})
  <2>1. InWord(Field(7, at))
    BY NamedFields
  <2> QED
    BY <2>1, PlainPieces
<1>4. Sane(e)
  BY <1>1, <1>2, <1>3 DEF Sane
<1> QED
  BY <1>4 DEF e

LEMMA SaneBranchB ==
  ASSUME NEW r, NEW v, NEW k
  PROVE  Sane(encode_branch_B(r, v, k))
<1> DEFINE b1 == [Effect(v, {Field(19, 28)}, 6) EXCEPT !.clear = 28..46 \cup 48..63]
           p == IF is_nbit(v, 17) THEN <<>>
                             ELSE IF is_nbit(v, 56) THEN <<First(62, 17, 39)>>
                             ELSE <<First(62, 17, 39), Second(62, 56, 8)>>
<1>1. Sane(b1)
  <2>1. b1.pieces = {Field(19, 28)} /\ b1.set = {} /\ b1.post = <<>> /\ b1.size = 6
    BY DEF Effect
  <2> HIDE DEF b1
  <2>2. InWord(Field(19, 28))
    BY NamedFields
  <2> QED
    BY <2>1, <2>2, PlainPieces, ShortSeqs DEF Sane
<1>2. IsSeq(p)
  BY ShortSeqs
<1>3. \/ encode_branch_B(r, v, k) = Comparand(v, 60, 11, 14)
      \/ encode_branch_B(r, v, k) = b1
      \/ encode_branch_B(r, v, k) = Comparand(v, 61, 12, 21)
      \/ encode_branch_B(r, v, k) = WithPost(Effect(v, {Field(17, 28)}, 6), p)
      \/ encode_branch_B(r, v, k) = Effect(v, None, 6)
  <2>1. CASE k = 0
    BY <2>1 DEF encode_branch_B
  <2>2. CASE k = 1
    BY <2>2 DEF encode_branch_B
  <2>3. CASE k = 2
    BY <2>3 DEF encode_branch_B, WithPost
  <2>4. CASE k \notin {0, 1, 2}
    BY <2>4 DEF encode_branch_B
  <2> QED
    BY <2>1, <2>2, <2>3, <2>4, Zenon
<1>4. Sane(Comparand(v, 60, 11, 14)) /\ Sane(Comparand(v, 61, 12, 21))
  <2>1. 11 \in 0..63 /\ 12 \in 0..63 /\ 14 \in 0..57 /\ 21 \in 0..57
    OBVIOUS
  <2> QED
    BY <2>1, SaneComparand, Zenon
<1> HIDE DEF b1, p
<1>5. InWords({Field(17, 28)}) /\ InWords(None) /\ 6 \in 0..64
  <2>1. InWord(Field(17, 28))
    BY NamedFields
  <2> QED
    BY <2>1, PlainPieces
<1>6. Sane(WithPost(Effect(v, {Field(17, 28)}, 6), p)) /\ Sane(Effect(v, None, 6))
  BY <1>2, <1>5, PlainEffect
<1> QED
  BY <1>1, <1>3, <1>4, <1>6

LEMMA SaneBL2 ==
  ASSUME NEW r, GoodRow(r), NEW v, NEW k
  PROVE  Sane(encode_branch_BL2(r, v, k))
<1> DEFINE p == IF is_nbit(v, 35) THEN <<>> ELSE <<First(60, 35, 29)>>
<1>1. IsSeq(p)
  BY ShortSeqs
<1>2. \/ encode_branch_BL2(r, v, k) = Effect(v, None, r.len)
      \/ encode_branch_BL2(r, v, k) = WithPost(Effect(v, {<<1, 35, 14>>}, r.len), p)
  BY DEF encode_branch_BL2, WithPost
<1> HIDE DEF p
<1>3. InWords({<<1, 35, 14>>}) /\ InWords(None) /\ r.len \in 0..64
  <2>1. InWord(<<1, 35, 14>>)
    BY FieldInWord
  <2> QED
    BY <2>1, PlainPieces, WordOfSize
<1> QED
  BY <1>1, <1>2, <1>3, PlainEffect

FarSizes == {6, 9, 12, 15}

LEMMA SaneFar ==
  ASSUME NEW v
  PROVE  /\ Sane(encode_J2(v)) /\ encode_J2(v).size \in FarSizes
         /\ Sane(encode_J4(v)) /\ encode_J4(v).size \in FarSizes
<1> DEFINE s2 == 6 + (IF is_nbit(v, 34) THEN 0 ELSE encode_ipfx(v))
           s4 == 6 + (IF is_nbit(v, 35) THEN 0 ELSE encode_ipfx(v))
<1>1. s2 \in FarSizes /\ s4 \in FarSizes
  BY DEF encode_ipfx, FarSizes
<1>2. encode_J2(v) = Effect(v, {<<1, 34, 15>>}, s2) /\ encode_J4(v) = Effect(v, {<<1, 34, 14>>}, s4)
  BY DEF encode_J2, encode_J4
<1> HIDE DEF s2, s4
<1>3. InWords({<<1, 34, 15>>}) /\ InWords({<<1, 34, 14>>})
  <2>1. InWord(<<1, 34, 15>>) /\ InWord(<<1, 34, 14>>)
    BY FieldInWord
  <2> QED
    BY <2>1, PlainPieces
<1>4. s2 \in 0..64 /\ s4 \in 0..64
  BY <1>1 DEF FarSizes
<1>5. Sane(Effect(v, {<<1, 34, 15>>}, s2)) /\ Sane(Effect(v, {<<1, 34, 14>>}, s4))
  BY <1>3, <1>4, PlainEffect
<1>6. Effect(v, {<<1, 34, 15>>}, s2).size = s2 /\ Effect(v, {<<1, 34, 14>>}, s4).size = s4
  BY DEF Effect
<1> QED
  BY <1>1, <1>2, <1>5, <1>6

LEMMA BranchRows ==
  ASSUME NEW f \in Formats, is_branch(f)
  PROVE  f \in {"B", "BI", "BZ", "B2", "BL2", "J2", "JL2", "J4", "JL4"}
  BY DEF Formats, is_branch

LEMMA SaneBranch ==
  ASSUME NEW r, GoodRow(r), is_branch(r.f), NEW v, NEW k
  PROVE  /\ Sane(encode_branch(r, v, k))
         /\ r.f \in {"J2", "J4"} => encode_branch(r, v, k).size \in FarSizes
<1>1. r.f \in {"B", "BI", "BZ", "B2", "BL2", "J2", "JL2", "J4", "JL4"}
  BY BranchRows DEF GoodRow
<1> DEFINE e == encode_branch(r, v, k)
<1>2. \/ r.f \notin {"J2", "J4"} /\ e = encode_branch_B(r, v, k)
      \/ r.f \notin {"J2", "J4"} /\ e = encode_branch_B(r, v, k + 1)
      \/ r.f \notin {"J2", "J4"} /\ e = encode_branch_BL2(r, v, k + 1)
      \/ r.f \notin {"J2", "J4"} /\ e = encode_branch_BL2(r, v, k)
      \/ e = encode_J2(v) \/ e = encode_J4(v)
      \/ r.f \notin {"J2", "J4"} /\ e = Effect(v, {Field(32, 32)}, 6)
      \/ r.f \notin {"J2", "J4"} /\ e = Effect(v, {<<3, 46, 14>>}, 6)
  BY <1>1, Zenon DEF encode_branch
<1> HIDE DEF e
<1>3. InWords({Field(32, 32)}) /\ InWords({<<3, 46, 14>>}) /\ 6 \in 0..64
  <2>1. InWord(Field(32, 32)) /\ InWord(<<3, 46, 14>>)
    BY NamedFields, FieldInWord
  <2> QED
    BY <2>1, PlainPieces
<1>4. Sane(Effect(v, {Field(32, 32)}, 6)) /\ Sane(Effect(v, {<<3, 46, 14>>}, 6))
  BY <1>3, PlainEffect
<1>5. /\ Sane(encode_branch_B(r, v, k)) /\ Sane(encode_branch_B(r, v, k + 1))
      /\ Sane(encode_branch_BL2(r, v, k)) /\ Sane(encode_branch_BL2(r, v, k + 1))
  BY SaneBranchB, SaneBL2
<1>6. Sane(e) /\ (r.f \in {"J2", "J4"} => e.size \in FarSizes)
  BY <1>2, <1>4, <1>5, SaneFar
<1> QED
  BY <1>6 DEF e

LEMMA SaneMemory ==
  ASSUME NEW r, GoodRow(r), NEW op, NEW v, NEW k
  PROVE  /\ Sane(encode_regind(r, v, k).effect) /\ InWord(encode_regind(r, v, k).base)
         /\ Sane(encode_scndx(r, op, v, k).effect) /\ InWord(encode_scndx(r, op, v, k).base)
         /\ InWord(encode_scndx(r, op, v, k).index) /\ InWord(encode_scndx(r, op, v, k).scale)
<1>1. r.len \in 0..64 /\ InWords(None) /\ InWords({LSDISP})
  BY WordOfSize, NamedFields, PlainPieces
<1>2. InWord(Field(4, 44))
  BY NamedFields
<1>3. Sane(encode_regind(r, v, k).effect)
  <2>1. encode_regind(r, v, k).effect = IF k = 1 THEN encode_direct(r, v) ELSE Effect(v, None, r.len)
    BY DEF encode_regind
  <2>2. Sane(Effect(v, None, r.len)) /\ Sane(Effect(v, {LSDISP}, r.len))
    BY <1>1, PlainEffect
  <2> QED
    BY <2>1, <2>2 DEF encode_direct
<1>4. InWord(encode_regind(r, v, k).base)
  BY NamedFields DEF encode_regind
<1>5. Sane(encode_scndx(r, op, v, k).effect)
  <2> DEFINE p == IF is_nbit(v, 16) THEN <<>>
                             ELSE IF is_nbit(v, 55) THEN <<Raw(FALSE, 0, 48)>>
                             ELSE <<Raw(FALSE, 0, 48), Raw(TRUE, 55, 9)>>
             pieces == IF k = 1 THEN {LSDISP} ELSE None
  <2>1. IsSeq(p)
    BY ShortSeqs
  <2>2. encode_scndx(r, op, v, k).effect = WithPost(Effect(v, pieces, r.len), p)
    BY DEF encode_scndx, WithPost
  <2>3. InWords(pieces)
    BY <1>1
  <2> HIDE DEF p, pieces
  <2> QED
    BY <1>1, <2>1, <2>2, <2>3, PlainEffect
<1>6. InWord(encode_scndx(r, op, v, k).base)
  BY NamedFields DEF encode_scndx
<1>7. InWord(encode_scndx(r, op, v, k).index)
  BY NamedFields DEF encode_scndx
<1>8. InWord(encode_scndx(r, op, v, k).scale)
  BY <1>2, NamedFields DEF encode_scndx
<1> QED
  BY <1>3, <1>4, <1>5, <1>6, <1>7, <1>8

(* A register: besides its field, the predicate that goes with the first   *)
WithSet(e, bits) == [e EXCEPT !.set = bits]
FirstBits(f, k) == IF k = 0 THEN Span({Always(f)}) ELSE {}

LEMMA OneSpan == \A p : Span({p}) = p[3]..p[3]+p[2]-1
  BY DEF Span

LEMMA PredicateBits ==
  /\ Span({PREDI}) = 25..27 /\ Span({PREDSI}) = 16..18 /\ Span({PREDF}) = 54..56 /\ Span({NoField}) = {}
<1>1. PREDI = <<0, 3, 25>> /\ PREDSI = <<0, 3, 16>> /\ PREDF = <<0, 3, 54>> /\ NoField = <<0, 0, 0>>
  BY DEF PREDI, PREDSI, PREDF, NoField, Field
<1>2. \A p : Span({p}) = p[3]..p[3]+p[2]-1
  BY OneSpan
<1> QED
  BY <1>1, <1>2

LEMMA NoPredicateOperand ==
  ASSUME NEW f \in Formats, NEW k, k \in Nat, "REG" \in May(f, k + 1)
  PROVE  k # PredicateOperand(f).i
<1>1. PredicateOperand(f).i \in {2, 3, 4, 7}
  BY DEF PredicateOperand
<1>2. ASSUME k = PredicateOperand(f).i PROVE FALSE
  <2>1. CASE f = "RII"
    <3>1. ShapeOf(f) = <<R, R, I, I>>
      BY <2>1 DEF ShapeOf
    <3>2. k = 2
      BY <1>2, <2>1 DEF PredicateOperand
    <3> QED
      BY <3>1, <3>2 DEF May, I
  <2>2. CASE f = "MV"
    <3>1. ShapeOf(f) = <<R, R>>
      BY <2>2 DEF ShapeOf
    <3>2. k = 2
      BY <1>2, <2>2 DEF PredicateOperand
    <3> QED
      BY <3>1, <3>2 DEF May
  <2>3. CASE f = "BI"
    <3>1. ShapeOf(f) = <<R, I, I>>
      BY <2>3 DEF ShapeOf
    <3>2. k = 3
      BY <1>2, <2>3 DEF PredicateOperand
    <3> QED
      BY <3>1, <3>2 DEF May
  <2>4. CASE f \in {"RIV", "RIS", "R1", "BFR3II", "R3RI"}
    <3>1. 5 \notin DOMAIN ShapeOf(f)
      <4>1. f = "RIV" => ShapeOf(f) = <<R, I, R>>
        BY DEF ShapeOf
      <4>2. f = "RIS" => ShapeOf(f) = <<R, I, I>>
        BY DEF ShapeOf
      <4>3. f = "R1" => ShapeOf(f) = <<R, R>>
        BY DEF ShapeOf
      <4>4. f = "BFR3II" => ShapeOf(f) = <<R, R, I, I>>
        BY DEF ShapeOf
      <4>5. f = "R3RI" => ShapeOf(f) = <<R, R, RI, I>>
        BY DEF ShapeOf
      <4> QED
        BY <2>4, <4>1, <4>2, <4>3, <4>4, <4>5
    <3>2. k = 4
      BY <1>2, <2>4 DEF PredicateOperand
    <3> QED
      BY <3>1, <3>2 DEF May
  <2>5. CASE f \notin {"RII", "MV", "BI", "RIV", "RIS", "R1", "BFR3II", "R3RI"}
    <3>1. k = 7
      BY <1>2, <2>5 DEF PredicateOperand, Formats
    <3>2. 8 \notin DOMAIN ShapeOf(f)
      BY DEF ShapeOf, Formats
    <3> QED
      BY <3>1, <3>2 DEF May
  <2> QED
    BY <2>1, <2>2, <2>3, <2>4, <2>5
<1> QED
  BY <1>2

LEMMA RegisterEffect ==
  ASSUME NEW f \in Formats, NEW k, k \in Nat, "REG" \in May(f, k + 1), NEW reg, NEW size
  PROVE  encode_reg(f, reg, k, size) = WithSet(Effect(reg, {RegField(f, k)}, size), FirstBits(f, k))
<1>1. k # PredicateOperand(f).i
  BY NoPredicateOperand
<1> QED
  BY <1>1, Zenon DEF encode_reg, FirstBits, WithSet

LEMMA SaneRegister ==
  ASSUME NEW f, NEW k, NEW reg, NEW size \in 0..64, encode_reg(f, reg, k, size) =
           WithSet(Effect(reg, {RegField(f, k)}, size), FirstBits(f, k))
  PROVE  Sane(encode_reg(f, reg, k, size))
<1>1. InWords({RegField(f, k)})
  BY RegisterInWord, PlainPieces
<1>2. Always(f) \in {PREDI, PREDSI, PREDF, NoField}
  BY DEF Always
<1>3. FirstBits(f, k) \subseteq 0..63
  BY <1>2, PredicateBits DEF FirstBits
<1> DEFINE e == WithSet(Effect(reg, {RegField(f, k)}, size), FirstBits(f, k))
<1>4. e.pieces = {RegField(f, k)} /\ e.set = FirstBits(f, k) /\ e.post = <<>> /\ e.size = size
  BY DEF WithSet, Effect
<1> HIDE DEF e
<1>5. Sane(e)
  BY <1>1, <1>3, <1>4, ShortSeqs DEF Sane
<1> QED
  BY <1>5 DEF e

LEMMA SanePart ==
  ASSUME NEW r, GoodRow(r), NEW op, op.kind \in EncodedKinds, NEW v, NEW c \in BOOLEAN, NEW k, NEW size \in 0..64,
         k \in Nat, op.kind \in May(r.f, k + 1)
  PROVE  /\ Sane(Part(r, k, op, v, c, size)) /\ Besides(r, k, op, v) \subseteq 0..63
         /\ op.kind = "IMM" /\ r.f \in {"J2", "J4"} => Part(r, k, op, v, c, size).size \in FarSizes
<1>0. \A p, w : InWord(p) => PutPiece(w, p) \subseteq 0..63
  <2> SUFFICES ASSUME NEW p, NEW w, InWord(p) PROVE PutPiece(w, p) \subseteq 0..63
    OBVIOUS
  <2>1. \A q \in {p} : InWord(q)
    OBVIOUS
  <2>2. Put(w, {p}) \subseteq 0..63
    BY <2>1, PutInWord
  <2> QED
    BY <2>2 DEF Put
<1>1. CASE op.kind = "REG"
  <2>1. Part(r, k, op, v, c, size) = encode_reg(r.f, op.reg, k, size)
    BY <1>1 DEF Part
  <2>2. r.f \in Formats /\ "REG" \in May(r.f, k + 1)
    BY <1>1 DEF GoodRow
  <2>3. Sane(encode_reg(r.f, op.reg, k, size))
    BY <2>2, RegisterEffect, SaneRegister, Zenon
  <2>4. Besides(r, k, op, v) = {}
    BY <1>1 DEF Besides
  <2> QED
    BY <1>1, <2>1, <2>3, <2>4
<1>2. CASE op.kind = "IMM"
  <2>1. Besides(r, k, op, v) = {}
    BY <1>2 DEF Besides
  <2>2. CASE ~is_branch(r.f)
    <3>1. \/ Part(r, k, op, v, c, size) = ConstantImmediate(r, v, k)
          \/ Part(r, k, op, v, c, size) = LabelImmediate(r, v, k)
      BY <1>2, <2>2 DEF Part
    <3>2. r.f \notin {"J2", "J4"}
      BY <2>2 DEF is_branch
    <3> QED
      BY <2>1, <3>1, <3>2, SaneConstant
  <2>3. CASE is_branch(r.f)
    <3>1. Part(r, k, op, v, c, size) = encode_branch(r, v, k)
      BY <1>2, <2>3 DEF Part
    <3> QED
      BY <2>1, <2>3, <3>1, SaneBranch
  <2> QED
    BY <2>2, <2>3
<1>3. CASE op.kind = "REGIND" /\ r.f \in {"J2", "J4", "JL2"}
  <2> DEFINE t == IndirectTarget(r.f)
  <2>1. /\ Part(r, k, op, v, c, size) = Effect(v, {t.disp}, 6)
        /\ Besides(r, k, op, v) = PutPiece(op.reg, t.base)
    BY <1>3 DEF Part, Besides
  <2>2. t.disp = Field(32, 32) /\ t.base \in {RS1, RS3}
    BY DEF IndirectTarget
  <2> HIDE DEF t
  <2>3. InWord(t.disp) /\ InWord(t.base)
    BY <2>2, NamedFields
  <2>4. InWords({t.disp}) /\ 6 \in 0..64
    BY <2>3, PlainPieces
  <2> QED
    BY <1>0, <1>3, <2>1, <2>3, <2>4, PlainEffect
<1>4. CASE op.kind = "REGIND" /\ r.f \notin {"J2", "J4", "JL2"}
  <2>1. /\ Part(r, k, op, v, c, size) = encode_regind(r, v, k).effect
        /\ Besides(r, k, op, v) = PutPiece(op.reg, encode_regind(r, v, k).base)
    BY <1>4 DEF Part, Besides
  <2> QED
    BY <1>0, <1>4, <2>1, SaneMemory
<1>5. CASE op.kind = "PREDSTR"
  <2>1. /\ Part(r, k, op, v, c, size) = Effect(v, {Field(16, 22)}, 6)
        /\ Besides(r, k, op, v) = {}
    BY <1>5 DEF Part, Besides, encode_pred
  <2>2. InWords({Field(16, 22)}) /\ 6 \in 0..64
    <3>1. InWord(Field(16, 22))
      BY NamedFields
    <3> QED
      BY <3>1, PlainPieces
  <2> QED
    BY <1>5, <2>1, <2>2, PlainEffect
<1>6. CASE op.kind \in {"SCNDX", "IND_SCNDX"}
  <2> DEFINE m == encode_scndx(r, op, v, k)
  <2>1. /\ Part(r, k, op, v, c, size) = m.effect
        /\ Besides(r, k, op, v) = PutPiece(op.reg, m.base) \cup PutPiece(op.ndx, m.index)
                                    \cup PutPiece(ScaleBits(op.scale), m.scale)
    BY <1>6 DEF Part, Besides
  <2>2. Sane(m.effect) /\ InWord(m.base) /\ InWord(m.index) /\ InWord(m.scale)
    BY SaneMemory
  <2> HIDE DEF m
  <2>3. /\ PutPiece(op.reg, m.base) \subseteq 0..63 /\ PutPiece(op.ndx, m.index) \subseteq 0..63
        /\ PutPiece(ScaleBits(op.scale), m.scale) \subseteq 0..63
    BY <1>0, <2>2
  <2> QED
    BY <1>6, <2>1, <2>2, <2>3
<1> QED
  BY <1>1, <1>2, <1>3, <1>4, <1>5, <1>6 DEF EncodedKinds

-----------------------------------------------------------------------------
(* The types.                                                              *)
TypesInv ==
  /\ word \subseteq 0..63
  /\ IsSeq(post) /\ Len(post) \in 0..4
  /\ isize \in 0..64
  /\ ipfx \in {0, 3, 6, 9}
  /\ sized \in 0..97

LEMMA Starts ==
  ASSUME NEW r \in AnyRow, NEW at
  PROVE  StartSize(r, at) \in 0..64
<1>1. 64 - Number(at \cap 0..5) \in 0..64
  <2> DEFINE bits == at \cap 0..5
  <2>1. bits \in SUBSET (0..6) /\ 6 \notin bits
    OBVIOUS
  <2> HIDE DEF bits
  <2>2. Number(bits) = Weight(bits)
    BY <2>1, NumberIsWeight
  <2>3. Digit(bits, 6) = 0
    BY <2>1 DEF Digit
  <2>4. Weight(bits) \in 0..63
    <3>1. \A b : Digit(bits, b) \in {0, 1}
      BY DEF Digit
    <3> HIDE DEF Digit
    <3> QED
      BY <2>3, <3>1 DEF Weight
  <2> QED
    BY <2>2, <2>4 DEF bits
<1>2. r.len \in 0..64
  <2>1. \A d \in Directives : d.bits \div 8 \in 0..64
    <3> SUFFICES ASSUME NEW d \in Directives PROVE d.bits \div 8 \in 0..64
      OBVIOUS
    <3>1. d.bits \in {8, 16, 32, 64}
      BY Zenon DEF Directives
    <3> QED
      BY <3>1
  <2>2. CASE GoodRow(r)
    BY <2>2, WordOfSize
  <2>3. CASE \E d \in Directives : r.len = d.bits \div 8
    BY <2>1, <2>3
  <2> QED
    BY <2>2, <2>3, AllRows
<1> QED
  BY <1>1, <1>2 DEF StartSize

LEMMA InitTypes == Init => TypesInv
<1> SUFFICES ASSUME Init PROVE TypesInv
  OBVIOUS
<1>1. row \in AnyRow /\ word = {} /\ post = <<>> /\ isize = StartSize(row, pc) /\ ipfx = 0 /\ sized = 0
  BY DEF Init
<1>2. word \subseteq 0..63 /\ isize \in 0..64
  BY <1>1, Starts, Zenon
<1>3. Len(post) = 0 /\ IsSeq(post)
  BY <1>1, ShortSeqs
<1> QED
  BY <1>1, <1>2, <1>3 DEF TypesInv

LEMMA EncodedRow ==
  ASSUME OperandsInv, NEW op \in Given, Step(op)
  PROVE  row \in mnemonics /\ row.f \in Formats /\ GoodRow(row) /\ op.kind \in May(row.f, i + 1)
<1>1. i + 1 \in 1..Len(row.ops) /\ Fills(row.ops[i + 1], op) /\ row \in AnyRow
  BY StepAdvances DEF OperandsInv
<1>2. op.kind # "DATA"
  BY DEF Step, Encodes, Skips, EncodedKinds
<1> QED
  BY <1>1, <1>2, FilledKinds

LEMMA StepTypes ==
  ASSUME OperandsInv, TypesInv, NEW op \in Given, Step(op)
  PROVE  TypesInv'
<1>1. GoodRow(row) /\ sized' = sized /\ op.kind \in May(row.f, i + 1) /\ i \in Nat
  BY EncodedRow, StepAdvances DEF OperandsInv
<1>2. CASE Encodes(op)
  <2> DEFINE e == EffectOf(op)
             others == Besides(row, i, op, Value(op))
  <2>0. op.kind \in EncodedKinds /\ EncodesAs(op, e, others)
    BY <1>2 DEF Encodes
  <2>1. Constant(op) \in BOOLEAN
    BY DEF Constant, IsConstant
  <2>2. /\ Sane(e) /\ others \subseteq 0..63
        /\ op.kind = "IMM" /\ row.f \in {"J2", "J4"} => e.size \in FarSizes
    BY <1>1, <2>0, <2>1, SanePart, ZenonT(30) DEF TypesInv, EffectOf
  <2> HIDE DEF e, others
  <2>3. word' \subseteq 0..63
    <3>1. Put(e.v, e.pieces) \subseteq 0..63 /\ e.set \subseteq 0..63 /\ word \subseteq 0..63
      BY <2>2, PutInWord, Zenon DEF Sane, InWords, TypesInv
    <3>2. word' = IF e.all THEN {0} ELSE (word \ e.clear) \cup e.set \cup Put(e.v, e.pieces) \cup others
      BY <2>0 DEF EncodesAs
    <3>3. CASE e.all
      BY <3>2, <3>3
    <3>4. CASE ~e.all
      BY <2>2, <3>1, <3>2, <3>4, Zenon
    <3> QED
      BY <3>3, <3>4
  <2>4. IsSeq(post') /\ Len(post') \in 0..4
    <3>1. IsSeq(Tagged(e)) /\ IsSeq(post)
      BY <2>2, TaggedPosts DEF Sane, TypesInv
    <3>2. post' = encode_cpfx(post, Tagged(e))
      BY <2>0 DEF EncodesAs
    <3> QED
      BY <3>1, <3>2, Cpfx
  <2>5. isize' \in 0..64
    BY <2>0, <2>2 DEF EncodesAs, Sane
  <2>6. ipfx' \in {0, 3, 6, 9}
    <3>1. FarJump(e) # 0 /\ op.kind = "IMM" => FarJump(e) \in {0, 3, 6, 9}
      BY <2>2 DEF FarJump, FarSizes
    <3> QED
      BY <2>0, <3>1 DEF EncodesAs, TypesInv
  <2> QED
    BY <1>1, <2>3, <2>4, <2>5, <2>6 DEF TypesInv
<1>3. CASE Skips(op)
  <2>1. isize' \in 0..64
    BY <1>1, <1>3, WordOfSize DEF Skips
  <2>2. UNCHANGED <<word, post, ipfx>>
    BY <1>3 DEF Skips
  <2> QED
    BY <1>1, <2>1, <2>2 DEF TypesInv
<1> QED
  BY <1>2, <1>3 DEF Step

LEMMA StartTypes ==
  ASSUME OperandsInv, TypesInv, StartEmitting
  PROVE  TypesInv'
<1>1. /\ word' = {} /\ post' = <<>> /\ isize' = StartSize(row, pc) /\ ipfx' = 0
      /\ sized' = isize + 6 * Len(post) + ipfx
  BY DEF StartEmitting, instruction_size
<1>2. word' \subseteq 0..63 /\ isize' \in 0..64
  BY <1>1, Starts, Zenon DEF OperandsInv
<1>3. Len(post') = 0 /\ IsSeq(post')
  BY <1>1, ShortSeqs
<1>4. sized' \in 0..97
  <2>1. isize \in 0..64 /\ Len(post) \in 0..4 /\ ipfx \in 0..9
    BY DEF TypesInv
  <2> DEFINE m == Len(post)
  <2>2. m \in 0..4 /\ sized' = isize + 6 * m + ipfx
    BY <1>1, <2>1
  <2> HIDE DEF m
  <2> QED
    BY <2>1, <2>2
<1> QED
  BY <1>1, <1>2, <1>3, <1>4 DEF TypesInv

LEMMA DataLength ==
  ASSUME row \in AnyRow, row.f = "DATA"
  PROVE  row.len \in {1, 2, 4, 8}
<1>1. PICK d \in Directives : row.len = d.bits \div 8
  BY DataRows
<1>2. d.bits \in {8, 16, 32, 64}
  BY Zenon DEF Directives
<1> QED
  BY <1>1, <1>2

LEMMA DataTypes ==
  ASSUME OperandsInv, TypesInv, EvalData
  PROVE  TypesInv'
<1>1. row \in AnyRow /\ row.f = "DATA" /\ isize' = row.len /\ sized' = row.len /\ UNCHANGED <<post, ipfx>>
  BY DEF EvalData, OperandsInv
<1>2. row.len \in {1, 2, 4, 8}
  BY <1>1, DataLength
<1>3. PICK op : word' \in QuplsData(op.form, op.v, 8 * row.len)
  BY DEF EvalData
<1> DEFINE n == 8 * row.len
<1>4. n \in {8, 16, 32, 64}
  BY <1>2
<1> HIDE DEF n
<1>5. word' \subseteq 0..63
  <2>1. \A p \in setval(FALSE, n) : InWord(p)
    <3> SUFFICES ASSUME NEW k \in 0..(n \div 8) - 1 PROVE InWord(<<8 * k, 8, 8 * k>>)
      BY DEF setval
    <3>1. 8 * k \in Nat /\ 8 * k + 8 <= 64
      BY <1>4
    <3> QED
      BY <3>1, FieldInWord
  <2>2. Put(op.v, setval(FALSE, n)) \subseteq 0..63
    BY <2>1, PutInWord, Zenon
  <2>3. word' \in {{}, 0..n - 1, Put(op.v, setval(FALSE, n))}
    BY <1>3, Zenon DEF QuplsData, n
  <2>4. 0..n - 1 \subseteq 0..63
    BY <1>4
  <2> QED
    BY <2>2, <2>3, <2>4, Zenon
<1>6. isize' \in 0..64 /\ sized' \in 0..97
  BY <1>1, <1>2
<1> QED
  BY <1>1, <1>5, <1>6 DEF TypesInv

LEMMA TypesHold == OperandsInv /\ TypesInv => TypeOK
<1> SUFFICES ASSUME OperandsInv, TypesInv PROVE TypeOK
  OBVIOUS
<1>1. /\ row \in AnyRow /\ pc \in Pcs /\ db \in BOOLEAN /\ i \in 0..Len(row.ops)
      /\ Len(ops) = (IF db THEN Len(row.ops) ELSE i)
  BY DEF OperandsInv
<1>2. word \subseteq 0..63 /\ isize \in 0..64 /\ ipfx \in {0, 3, 6, 9} /\ sized \in 0..97
  BY DEF TypesInv
<1>3. Len(post) <= 4
  <2> DEFINE m == Len(post)
  <2>1. m \in 0..4
    BY DEF TypesInv
  <2> HIDE DEF m
  <2>2. m <= 4
    BY <2>1
  <2> QED
    BY <2>2 DEF m
<1> QED
  BY <1>1, <1>2, <1>3 DEF TypeOK

(* The size.  The sizing call and the emitting call give a number the same *)
(* value in every row but those of format BI, so that they append as many  *)
(* postfixes for it.                                                       *)
LEMMA ShortBranches ==
  ASSUME NEW k \in Nat
  PROVE  /\ May("B", k + 1) # {} => k \in 0..2
         /\ May("BZ", k + 1) # {} => k \in 0..1
         /\ May("B2", k + 1) # {} => k = 0
         /\ May("BL2", k + 1) # {} => k \in 0..1
<1>1. ShapeOf("B") = <<RI, RI, I>> /\ ShapeOf("BZ") = <<R, I>>
  BY DEF ShapeOf
<1>2. ShapeOf("B2") = <<I>> /\ ShapeOf("BL2") = <<{"REG", "LK"}, I>>
  BY DEF ShapeOf
<1>3. May("B", k + 1) # {} => k + 1 \in 1..3
  BY <1>1 DEF May
<1>4. May("BZ", k + 1) # {} => k + 1 \in 1..2
  BY <1>1 DEF May
<1>5. May("B2", k + 1) # {} => k + 1 \in 1..1
  BY <1>2 DEF May
<1>6. May("BL2", k + 1) # {} => k + 1 \in 1..2
  BY <1>2 DEF May
<1> QED
  BY <1>3, <1>4, <1>5, <1>6

LEMMA SameValue ==
  ASSUME NEW f \in Formats, f # "BI", NEW k \in Nat, May(f, k + 1) # {}, NEW op, op.form = "num", NEW at
  PROVE  EmittedValue(f, k, op, at) = SizingValue(f, k, op, at)
<1>1. CASE f = "B"
  <2>1. k \in {0, 1, 2}
    BY <1>1, ShortBranches
  <2> QED
    BY <1>1, <2>1 DEF EmittedValue, SizingValue, Displaced, Resolved, is_branch_target_oper, get_reloc_type
<1>2. CASE f = "BZ"
  <2>1. k \in {0, 1}
    BY <1>2, ShortBranches
  <2> QED
    BY <1>2, <2>1 DEF EmittedValue, SizingValue, Displaced, Resolved, is_branch_target_oper, get_reloc_type
<1>3. CASE f = "B2"
  <2>1. k = 0
    BY <1>3, ShortBranches
  <2> QED
    BY <1>3, <2>1 DEF EmittedValue, SizingValue, Displaced, Resolved, is_branch_target_oper, get_reloc_type
<1>4. CASE f = "BL2"
  <2>1. k \in {0, 1}
    BY <1>4, ShortBranches
  <2> QED
    BY <1>4, <2>1 DEF EmittedValue, SizingValue, Displaced, Resolved, is_branch_target_oper, get_reloc_type
<1>5. CASE f \notin {"B", "BZ", "B2", "BL2"}
  <2>1. ~is_branch_target_oper(f, k)
    BY <1>5 DEF is_branch_target_oper
  <2>2. Displaced(f, k, op.v, at) = op.v
    BY <1>5 DEF Displaced
  <2> QED
    BY <2>1, <2>2 DEF EmittedValue, SizingValue
<1> QED
  BY <1>1, <1>2, <1>3, <1>4, <1>5

(* ... and the size of the instruction itself stays six.                   *)
LEMMA NamedRows ==
  "CSR" \notin Formats /\ "J3" \notin Formats /\ "JL3" \notin Formats /\ "LDI" \notin Formats
  /\ "BFR3RI" \notin Formats /\ "BFR3IR" \notin Formats
  BY DEF Formats

LEMMA SixStays ==
  ASSUME NEW r, GoodRow(r), r.len = 6, r.f \notin {"J2", "J4"}, NEW op, op.kind \in EncodedKinds, NEW v, NEW k
  PROVE  Part(r, k, op, v, TRUE, 6).size = 6
<1>0. \A w, pieces : Effect(w, pieces, 6).size = 6
  BY DEF Effect
<1>1. CASE op.kind = "REG"
  <2>1. Part(r, k, op, v, TRUE, 6) = encode_reg(r.f, op.reg, k, 6)
    BY <1>1 DEF Part
  <2>2. encode_reg(r.f, op.reg, k, 6).size = 6
    BY DEF encode_reg, Effect
  <2> QED
    BY <2>1, <2>2
<1>2. CASE op.kind = "IMM" /\ ~is_branch(r.f)
  <2> DEFINE w == Negated(r, v)
  <2>1. Part(r, k, op, v, TRUE, 6) = ConstantImmediate(r, v, k)
    BY <1>2 DEF Part
  <2>2. r.f # "CSR"
    BY NamedRows DEF GoodRow
  <2>3. \/ ConstantImmediate(r, v, k) = encode_immed_RIA(r, w)
        \/ ConstantImmediate(r, v, k) = encode_immed_RIB(r, w)
        \/ ConstantImmediate(r, v, k) = encode_immed_RID(r, w)
        \/ ConstantImmediate(r, v, k) = encode_immed_RI(r, w, k)
        \/ ConstantImmediate(r, v, k) = encode_direct(r, w)
        \/ \E x, pieces : ConstantImmediate(r, v, k) = Effect(x, pieces, 6)
    BY <2>2 DEF ConstantImmediate
  <2>4. encode_immed_RI(r, w, k).size = 6
    BY DEF encode_immed_RI, Effect
  <2>5. /\ encode_immed_RIA(r, w).size = 6 /\ encode_immed_RIB(r, w).size = 6
        /\ encode_immed_RID(r, w).size = 6
    BY DEF encode_immed_RIA, encode_immed_RIB, encode_immed_RID, SevenBits, Effect
  <2>6. encode_direct(r, w).size = 6
    BY DEF encode_direct, Effect
  <2> QED
    BY <1>0, <2>1, <2>3, <2>4, <2>5, <2>6, Zenon
<1>3. CASE op.kind = "IMM" /\ is_branch(r.f)
  <2>1. Part(r, k, op, v, TRUE, 6) = encode_branch(r, v, k)
    BY <1>3 DEF Part
  <2>2. r.f \in {"B", "BI", "BZ", "B2", "BL2", "JL2", "JL4"}
    BY <1>3, BranchRows DEF GoodRow
  <2>3. \A j : encode_branch_B(r, v, j).size = 6
    <3> SUFFICES ASSUME NEW j PROVE encode_branch_B(r, v, j).size = 6
      OBVIOUS
    <3>1. Comparand(v, 60, 11, 14).size = 6 /\ Comparand(v, 61, 12, 21).size = 6
      BY DEF Comparand, Effect
    <3>2. \/ encode_branch_B(r, v, j) = Comparand(v, 60, 11, 14)
          \/ encode_branch_B(r, v, j) = Comparand(v, 61, 12, 21)
          \/ encode_branch_B(r, v, j).size = 6
      BY DEF encode_branch_B, Effect
    <3> QED
      BY <3>1, <3>2
  <2>4. \A j : encode_branch_BL2(r, v, j).size = 6
    BY DEF encode_branch_BL2, Effect
  <2>5. \/ \E j : encode_branch(r, v, k) = encode_branch_B(r, v, j)
        \/ \E j : encode_branch(r, v, k) = encode_branch_BL2(r, v, j)
        \/ \E pieces : encode_branch(r, v, k) = Effect(v, pieces, 6)
    <3>1. CASE r.f \in {"B", "BI"}
      <4>1. encode_branch(r, v, k) = encode_branch_B(r, v, k)
        BY <3>1 DEF encode_branch
      <4> QED
        BY <4>1
    <3>2. CASE r.f = "BZ"
      <4>1. encode_branch(r, v, k) = encode_branch_B(r, v, k + 1)
        BY <3>2 DEF encode_branch
      <4> QED
        BY <4>1
    <3>3. CASE r.f = "B2"
      <4>1. encode_branch(r, v, k) = encode_branch_BL2(r, v, k + 1)
        BY <3>3 DEF encode_branch
      <4> QED
        BY <4>1
    <3>4. CASE r.f = "BL2"
      <4>1. encode_branch(r, v, k) = encode_branch_BL2(r, v, k)
        BY <3>4 DEF encode_branch
      <4> QED
        BY <4>1
    <3>5. CASE r.f = "JL2"
      <4>1. encode_branch(r, v, k) = Effect(v, {Field(32, 32)}, 6)
        BY <3>5 DEF encode_branch
      <4> QED
        BY <4>1
    <3>6. CASE r.f = "JL4"
      <4>1. encode_branch(r, v, k) = Effect(v, {<<3, 46, 14>>}, 6)
        BY <3>6 DEF encode_branch
      <4> QED
        BY <4>1
    <3> QED
      BY <2>2, <3>1, <3>2, <3>3, <3>4, <3>5, <3>6
  <2> QED
    BY <1>0, <2>1, <2>3, <2>4, <2>5, Zenon
<1>4. CASE op.kind = "REGIND"
  <2>1. \/ Part(r, k, op, v, TRUE, 6) = Effect(v, {IndirectTarget(r.f).disp}, 6)
        \/ Part(r, k, op, v, TRUE, 6) = encode_regind(r, v, k).effect
    BY <1>4 DEF Part
  <2>2. encode_regind(r, v, k).effect.size = 6
    BY DEF encode_regind, encode_direct, Effect
  <2> QED
    BY <1>0, <2>1, <2>2, Zenon
<1>5. CASE op.kind = "PREDSTR"
  BY <1>0, <1>5 DEF Part, encode_pred
<1>6. CASE op.kind \in {"SCNDX", "IND_SCNDX"}
  <2>1. Part(r, k, op, v, TRUE, 6) = encode_scndx(r, op, v, k).effect
    BY <1>6 DEF Part
  <2>2. encode_scndx(r, op, v, k).effect.size = 6
    BY DEF encode_scndx, Effect
  <2> QED
    BY <2>1, <2>2, Zenon
<1> QED
  BY <1>1, <1>2, <1>3, <1>4, <1>5, <1>6, Zenon DEF EncodedKinds

(* The postfixes after each operand                                        *)
PostsOf(r, at, k, op) ==
  IF op.kind \in EncodedKinds
  THEN Len(Part(r, k, op, SizingValue(r.f, k, op, at), TRUE, 6).post) ELSE 0

Chain(c, s, r, at) ==
  /\ c \in [Nat -> 0..4] /\ c[0] = 0
  /\ \A k \in 0..Len(s) - 1 : c[k + 1] = AtMost4(c[k] + PostsOf(r, at, k, s[k + 1]))

Numbers == \A k \in 1..Len(ops) : ops[k].form = "num"
PlainRow == row.len = 6 /\ row.f \notin {"BI", "J2", "J4"}

SizeInv ==
  PlainRow /\ Numbers =>
    /\ isize = 6 /\ ipfx = 0
    /\ \E c : /\ Chain(c, ops, row, pc)
              /\ Len(post) = c[i]
              /\ db => sized = 6 + 6 * c[Len(row.ops)]

LEMMA InitSize == Init => SizeInv
<1> SUFFICES ASSUME Init, PlainRow PROVE SizeInv
  BY DEF SizeInv
<1>1. row \in AnyRow /\ ops = <<>> /\ ~db /\ i = 0 /\ post = <<>> /\ isize = StartSize(row, pc) /\ ipfx = 0
  BY DEF Init
<1>2. row.f # "PADI"
  <2>1. GoodRow(row) /\ row.f = "PADI" => row.len = 0
    BY DEF GoodRow
  <2> QED
    BY <1>1, <2>1, AllRows DEF PlainRow
<1>3. isize = 6
  BY <1>1, <1>2 DEF StartSize, PlainRow
<1> DEFINE c == [k \in Nat |-> 0]
<1>4. Len(ops) = 0 /\ Len(post) = c[i] /\ Chain(c, ops, row, pc)
  <2>1. Len(ops) = 0 /\ Len(post) = 0 /\ c[i] = 0
    BY <1>1
  <2>2. c \in [Nat -> 0..4] /\ c[0] = 0
    OBVIOUS
  <2>3. \A k : k \notin 0..Len(ops) - 1
    BY <2>1
  <2> HIDE DEF c
  <2>4. Chain(c, ops, row, pc)
    BY <2>2, <2>3, Zenon DEF Chain
  <2> QED
    BY <2>1, <2>4
<1> HIDE DEF c
<1> QED
  BY <1>1, <1>3, <1>4 DEF SizeInv

LEMMA StepSize ==
  ASSUME OperandsInv, TypesInv, SizeInv, NEW op \in Given, Step(op)
  PROVE  SizeInv'
<1>1. /\ i + 1 \in 1..Len(row.ops) /\ i' = i + 1 /\ i \in 0..Len(row.ops) - 1
      /\ row' = row /\ pc' = pc /\ db' = db /\ sized' = sized
      /\ Len(ops') = (IF db THEN Len(row.ops) ELSE i + 1)
      /\ ops'[i + 1] = op
      /\ db => ops' = ops
      /\ \A k \in 1..Len(ops) : ops'[k] = ops[k]
  BY StepAdvances
<1>2. Len(ops) = (IF db THEN Len(row.ops) ELSE i)
  BY DEF OperandsInv
<1>3. GoodRow(row) /\ row.f \in Formats /\ May(row.f, i + 1) # {}
  BY EncodedRow
<1>4. i \in Nat /\ i + 1 \in 1..Len(ops') /\ Len(ops') \in Nat /\ Len(ops) \in Nat /\ Len(row.ops) \in Nat
  <2>1. Len(row.ops) \in Nat
    BY RowLength DEF OperandsInv
  <2> QED
    BY <2>1, <1>1, <1>2
<1> SUFFICES ASSUME PlainRow', Numbers'
             PROVE  /\ isize' = 6 /\ ipfx' = 0
                    /\ \E c : /\ Chain(c, ops', row', pc')
                              /\ Len(post') = c[i']
                              /\ db' => sized' = 6 + 6 * c[Len(row'.ops)]
  BY DEF SizeInv
<1>5. PlainRow /\ Numbers /\ op.form = "num"
  <2>1. PlainRow /\ op.form = "num"
    BY <1>1, <1>4 DEF PlainRow, Numbers
  <2>2. ASSUME NEW k \in 1..Len(ops) PROVE ops[k].form = "num"
    <3>1. k \in 1..Len(ops') /\ ops'[k] = ops[k]
      BY <1>1, <1>2, <1>4
    <3> QED
      BY <3>1 DEF Numbers
  <2> QED
    BY <2>1, <2>2 DEF Numbers
<1>6. isize = 6 /\ ipfx = 0
  BY <1>5 DEF SizeInv
<1>7. PICK c : Chain(c, ops, row, pc) /\ Len(post) = c[i] /\ (db => sized = 6 + 6 * c[Len(row.ops)])
  BY <1>5 DEF SizeInv
<1>8. c \in [Nat -> 0..4] /\ c[0] = 0
      /\ \A k \in 0..Len(ops) - 1 : c[k + 1] = AtMost4(c[k] + PostsOf(row, pc, k, ops[k + 1]))
  BY <1>7 DEF Chain
<1>9. isize' = 6 /\ ipfx' = 0 /\ Len(post') = AtMost4(c[i] + PostsOf(row, pc, i, op))
  <2>1. CASE Encodes(op)
    <3> DEFINE e == EffectOf(op)
    <3>1. op.kind \in EncodedKinds /\ EncodesAs(op, e, Besides(row, i, op, Value(op)))
      BY <2>1 DEF Encodes
    <3>2. Value(op) = SizingValue(row.f, i, op, pc)
      BY <1>3, <1>4, <1>5, SameValue DEF Value, PlainRow
    <3>3. Constant(op) = TRUE
      BY <1>5 DEF Constant, IsConstant
    <3>4. e = Part(row, i, op, SizingValue(row.f, i, op, pc), TRUE, 6)
      BY <1>6, <3>2, <3>3 DEF EffectOf
    <3>5. e.size = 6
      BY <1>3, <1>5, <3>1, <3>4, SixStays, Zenon DEF PlainRow
    <3>6. Len(e.post) = PostsOf(row, pc, i, op)
      BY <3>1, <3>4 DEF PostsOf
    <3>7. IsSeq(e.post)
      <4>0. i \in Nat /\ op.kind \in May(row.f, i + 1)
        BY EncodedRow DEF OperandsInv
      <4>1. 6 \in 0..64 /\ TRUE \in BOOLEAN
        OBVIOUS
      <4>2. Sane(e)
        BY <1>3, <3>1, <3>4, <4>0, <4>1, SanePart, Zenon
      <4> QED
        BY <4>2 DEF Sane
    <3> HIDE DEF e
    <3>8. isize' = 6 /\ ipfx' = 0
      BY <1>5, <1>6, <3>1, <3>5 DEF EncodesAs, FarJump, PlainRow
    <3>9. post' = encode_cpfx(post, Tagged(e)) /\ IsSeq(post)
      BY <3>1 DEF EncodesAs, TypesInv
    <3>10. Len(post') = AtMost4(Len(post) + Len(Tagged(e)))
      BY <3>7, <3>9, TaggedPosts, Cpfx
    <3> QED
      BY <1>7, <3>6, <3>7, <3>8, <3>10, TaggedPosts
  <2>2. CASE Skips(op)
    <3>1. op.kind \notin EncodedKinds /\ post' = post /\ ipfx' = ipfx
      BY <2>2 DEF Skips, EncodedKinds
    <3>2. isize' = 6
      BY <1>3, <1>5, <2>2, NamedRows DEF Skips, PlainRow
    <3>3. PostsOf(row, pc, i, op) = 0
      BY <3>1 DEF PostsOf
    <3>4. c[i] \in 0..4
      BY <1>4, <1>8
    <3>5. AtMost4(c[i] + 0) = c[i]
      BY <3>4 DEF AtMost4
    <3> QED
      BY <1>6, <1>7, <3>1, <3>2, <3>3, <3>5
  <2> QED
    BY <2>1, <2>2 DEF Step
<1>10. CASE db
  <2>1. ops' = ops /\ ops[i + 1] = op /\ i \in 0..Len(ops) - 1
    BY <1>1, <1>2, <1>10
  <2>2. c[i + 1] = AtMost4(c[i] + PostsOf(row, pc, i, op))
    BY <1>8, <2>1
  <2>3. Len(post') = c[i'] /\ (db' => sized' = 6 + 6 * c[Len(row'.ops)])
    BY <1>1, <1>7, <1>9, <2>2
  <2>4. Chain(c, ops', row', pc')
    <3>1. ops' = ops /\ row' = row /\ pc' = pc
      BY <1>1, <2>1
    <3> QED
      BY <1>7, <3>1
  <2> QED
    BY <1>9, <2>3, <2>4
<1>11. CASE ~db
  <2> DEFINE x == AtMost4(c[i] + PostsOf(row, pc, i, op))
             d == [c EXCEPT ![i + 1] = x]
  <2>1. Len(ops) = i /\ Len(ops') = i + 1
    BY <1>1, <1>2, <1>11
  <2>2. x \in 0..4
    <3>1. Len(post') \in 0..4
      <4>1. IsSeq(post') /\ Len(post') \in 0..4
        BY StepTypes DEF TypesInv
      <4> QED
        BY <4>1
    <3> QED
      BY <1>9, <3>1
  <2> HIDE DEF x
  <2>3. d \in [Nat -> 0..4] /\ d[0] = 0 /\ d[i + 1] = x /\ \A k \in 0..i : d[k] = c[k]
    BY <1>4, <1>8, <2>2
  <2> HIDE DEF d
  <2>4. ASSUME NEW k \in 0..Len(ops') - 1
        PROVE  d[k + 1] = AtMost4(d[k] + PostsOf(row, pc, k, ops'[k + 1]))
    <3>1. CASE k = i
      BY <1>1, <1>4, <2>1, <2>3, <3>1 DEF x
    <3>2. CASE k # i
      <4>1. k \in 0..Len(ops) - 1 /\ k \in 0..i /\ k + 1 \in 0..i /\ k + 1 \in 1..Len(ops)
        BY <1>4, <2>1, <3>2
      <4>2. c[k + 1] = AtMost4(c[k] + PostsOf(row, pc, k, ops[k + 1]))
        BY <1>8, <4>1
      <4> QED
        BY <1>1, <2>3, <4>1, <4>2
    <3> QED
      BY <3>1, <3>2
  <2>6. Chain(d, ops', row', pc')
    <3>1. row' = row /\ pc' = pc
      BY <1>1
    <3> QED
      BY <2>3, <2>4, <3>1 DEF Chain
  <2>7. Len(post') = d[i']
    BY <1>1, <1>9, <2>3 DEF x
  <2>8. ~db'
    BY <1>1, <1>11
  <2> QED
    BY <1>9, <2>6, <2>7, <2>8
<1> QED
  BY <1>1, <1>10, <1>11 DEF OperandsInv

LEMMA StartSizes ==
  ASSUME OperandsInv, TypesInv, SizeInv, StartEmitting
  PROVE  SizeInv'
<1>1. /\ ~More /\ ~db /\ db' = TRUE /\ i' = 0 /\ row' = row /\ pc' = pc /\ ops' = ops
      /\ post' = <<>> /\ isize' = StartSize(row, pc) /\ ipfx' = 0
      /\ sized' = isize + 6 * Len(post) + ipfx
  BY DEF StartEmitting, instruction_size
<1>2. i = Len(row.ops)
  <2>1. Len(row.ops) \in Nat
    BY RowLength DEF OperandsInv
  <2> QED
    BY <1>1, <2>1 DEF OperandsInv, More
<1> SUFFICES ASSUME PlainRow, Numbers
             PROVE  /\ isize' = 6 /\ ipfx' = 0
                    /\ \E c : /\ Chain(c, ops', row', pc')
                              /\ Len(post') = c[i']
                              /\ db' => sized' = 6 + 6 * c[Len(row'.ops)]
  BY <1>1 DEF SizeInv, PlainRow, Numbers
<1>3. PICK c : Chain(c, ops, row, pc) /\ Len(post) = c[i]
  BY DEF SizeInv
<1>4. isize = 6 /\ ipfx = 0
  BY DEF SizeInv
<1>5. sized' = 6 + 6 * c[Len(row'.ops)]
  <2>1. c[i] \in 0..4
    <3>1. c \in [Nat -> 0..4] /\ i \in Nat
      BY <1>2, <1>3, RowLength DEF Chain, OperandsInv
    <3> QED
      BY <3>1
  <2>2. sized' = 6 + 6 * c[i] + 0
    BY <1>1, <1>3, <1>4
  <2> QED
    BY <1>1, <1>2, <2>1, <2>2
<1>6. isize' = 6
  <2>1. row.f # "PADI"
    <3>1. GoodRow(row) /\ row.f = "PADI" => row.len = 0
      BY DEF GoodRow
    <3> QED
      BY <3>1, AllRows DEF PlainRow, OperandsInv
  <2> QED
    BY <1>1, <2>1 DEF StartSize, PlainRow
<1>7. Len(post') = c[i'] /\ Chain(c, ops', row', pc')
  <2>1. Len(post') = 0 /\ c[0] = 0
    BY <1>1, <1>3 DEF Chain
  <2>2. ops' = ops /\ row' = row /\ pc' = pc
    BY <1>1
  <2>4. Chain(c, ops', row', pc')
    BY <1>3, <2>2
  <2> QED
    BY <1>1, <2>1, <2>4
<1> QED
  BY <1>1, <1>5, <1>6, <1>7

LEMMA DataSize ==
  ASSUME OperandsInv, EvalData
  PROVE  SizeInv'
<1>1. row.f = "DATA" /\ row' = row /\ row \in AnyRow
  BY DEF EvalData, OperandsInv
<1>2. row.len \in {1, 2, 4, 8}
  BY <1>1, DataLength
<1> QED
  BY <1>1, <1>2 DEF SizeInv, PlainRow

LEMMA SizesHold ==
  ASSUME OperandsInv, SizeInv
  PROVE  SizesAgree
<1> SUFFICES ASSUME Done, row.len = 6, row.f \notin {"BI", "J2", "J4"},
                    \A k \in DOMAIN ops : ops[k].form = "num"
             PROVE  sized = 6 + 6 * Len(post)
  BY DEF SizesAgree
<1>1. DOMAIN ops = 1..Len(ops)
  BY DEF OperandsInv
<1>2. PlainRow /\ Numbers
  BY <1>1 DEF PlainRow, Numbers
<1>3. i = Len(row.ops) /\ db
  <2>1. Len(row.ops) \in Nat
    BY RowLength DEF OperandsInv
  <2> QED
    BY <2>1 DEF OperandsInv, Done, More
<1>4. PICK c : Len(post) = c[i] /\ (db => sized = 6 + 6 * c[Len(row.ops)])
  BY <1>2 DEF SizeInv
<1> QED
  BY <1>3, <1>4

(* Where the operands go.  In the formats that OperandsReadBack speaks of, *)
(* each operand has a lane of the word to itself.                          *)
Open ==
  {"R1", "MV", "R2", "R4", "SH", "R2S", "R3", "RIA", "RIB", "RI", "R3RR", "ATOM", "SYNC",
   "BITS16", "BITS40", "PFX", "REX", "J4", "PRED", "B", "BI", "BZ", "REGIND", "DIRECT", "SCNDX",
   "RIL", "REP", "PADI", "RTS", "VMASK"}

Lanes(f, n) ==
  CASE f \in OfRegisters -> <<7..13, 14..20, 21..27, 28..34>>
    [] f = "RI" -> <<7..13, 14..20, 21..45>>
    [] f = "R3RR" -> <<7..13, 14..20, IF n = 4 THEN 21..27 ELSE 21..39, IF n = 4 THEN 28..34 ELSE {}>>
    [] f = "ATOM" -> <<7..30>>
    [] f = "SYNC" -> <<10..28>>
    [] f \in {"BITS16", "BITS40", "PFX", "REX"} -> <<23..39>>
    [] f = "J4" -> <<14..47>>
    [] f = "PRED" -> <<14..20, 22..37>>
    [] f = "B" -> <<{11} \cup 14..20, {12} \cup 21..27, 28..44>>
    [] f = "BI" -> <<14..20, {12} \cup 21..27, 28..44>>
    [] f = "BZ" -> <<14..20, 28..44>>
    [] f = "REGIND" -> <<7..13, 14..20 \cup 28..43>>
    [] f = "DIRECT" -> <<7..13, 28..43>>
    [] f = "SCNDX" -> <<7..13, 14..47>>
    [] OTHER -> <<>>

Lane(f, n, k) == IF k + 1 \in DOMAIN Lanes(f, n) THEN Lanes(f, n)[k + 1] ELSE {}

(* The lanes are apart, and behind the opcode.                             *)
Disjoint(s) ==
  /\ \A j \in DOMAIN s : s[j] \subseteq 7..47
  /\ \A j, k \in DOMAIN s : j # k => s[j] \cap s[k] = {}

LEMMA NoneDisjoint == Disjoint(<<>>)
  BY DEF Disjoint

LEMMA OneDisjoint ==
  ASSUME NEW a,
         a \subseteq 7..47
  PROVE  Disjoint(<<a>>)
<1> DEFINE s == <<a>>
           z == 7..47
<1>1. DOMAIN s = {1} /\ s[1] = a
  OBVIOUS
<1>2. a \subseteq z
  OBVIOUS
<1> HIDE DEF s, z
<1>3. \A j \in DOMAIN s : s[j] \subseteq z
  BY <1>1, <1>2, Zenon
<1>4. \A j, k \in DOMAIN s : j # k => s[j] \cap s[k] = {}
  BY <1>1
<1>5. Disjoint(s)
  BY <1>3, <1>4, Zenon DEF Disjoint, z
<1> QED
  BY <1>5 DEF s

LEMMA TwoDisjoint ==
  ASSUME NEW a, NEW b,
         a \subseteq 7..47, b \subseteq 7..47,
         a \cap b = {}
  PROVE  Disjoint(<<a, b>>)
<1> DEFINE s == <<a, b>>
           z == 7..47
<1>1. DOMAIN s = {1, 2} /\ s[1] = a /\ s[2] = b
  OBVIOUS
<1>2. a \subseteq z /\ b \subseteq z
  OBVIOUS
<1> HIDE DEF s, z
<1>3. \A j \in DOMAIN s : s[j] \subseteq z
  BY <1>1, <1>2, Zenon
<1>4. \A j, k \in DOMAIN s : j # k => s[j] \cap s[k] = {}
  BY <1>1
<1>5. Disjoint(s)
  BY <1>3, <1>4, Zenon DEF Disjoint, z
<1> QED
  BY <1>5 DEF s

LEMMA ThreeDisjoint ==
  ASSUME NEW a, NEW b, NEW c,
         a \subseteq 7..47, b \subseteq 7..47, c \subseteq 7..47,
         a \cap b = {}, a \cap c = {}, b \cap c = {}
  PROVE  Disjoint(<<a, b, c>>)
<1> DEFINE s == <<a, b, c>>
           z == 7..47
<1>1. DOMAIN s = {1, 2, 3} /\ s[1] = a /\ s[2] = b /\ s[3] = c
  OBVIOUS
<1>2. a \subseteq z /\ b \subseteq z /\ c \subseteq z
  OBVIOUS
<1> HIDE DEF s, z
<1>3. \A j \in DOMAIN s : s[j] \subseteq z
  BY <1>1, <1>2, Zenon
<1>4. \A j, k \in DOMAIN s : j # k => s[j] \cap s[k] = {}
  BY <1>1
<1>5. Disjoint(s)
  BY <1>3, <1>4, Zenon DEF Disjoint, z
<1> QED
  BY <1>5 DEF s

LEMMA FourDisjoint ==
  ASSUME NEW a, NEW b, NEW c, NEW d,
         a \subseteq 7..47, b \subseteq 7..47, c \subseteq 7..47, d \subseteq 7..47,
         a \cap b = {}, a \cap c = {}, a \cap d = {}, b \cap c = {}, b \cap d = {}, c \cap d = {}
  PROVE  Disjoint(<<a, b, c, d>>)
<1> DEFINE s == <<a, b, c, d>>
           z == 7..47
<1>1. DOMAIN s = {1, 2, 3, 4} /\ s[1] = a /\ s[2] = b /\ s[3] = c /\ s[4] = d
  OBVIOUS
<1>2. a \subseteq z /\ b \subseteq z /\ c \subseteq z /\ d \subseteq z
  OBVIOUS
<1> HIDE DEF s, z
<1>3. \A j \in DOMAIN s : s[j] \subseteq z
  BY <1>1, <1>2, Zenon
<1>4. \A j, k \in DOMAIN s : j # k => s[j] \cap s[k] = {}
  <2> DEFINE meet(j, k) == s[j] \cap s[k]
  <2>1. /\ meet(1, 2) = {} /\ meet(1, 3) = {} /\ meet(1, 4) = {}
        /\ meet(2, 3) = {} /\ meet(2, 4) = {} /\ meet(3, 4) = {}
    BY <1>1
  <2>2. \A j, k : meet(j, k) = meet(k, j)
    OBVIOUS
  <2> HIDE DEF meet
  <2>3. \A j, k \in {1, 2, 3, 4} : j # k => meet(j, k) = {}
    BY <2>1, <2>2
  <2> QED
    BY <1>1, <2>3 DEF meet
<1>5. Disjoint(s)
  BY <1>3, <1>4, Zenon DEF Disjoint, z
<1> QED
  BY <1>5 DEF s

LEMMA LanesDisjoint == \A f, n : Disjoint(Lanes(f, n))
<1> SUFFICES ASSUME NEW f, NEW n PROVE Disjoint(Lanes(f, n))
  OBVIOUS

<1>1. CASE f \in OfRegisters
  <2> DEFINE a == 7..13
             b == 14..20
             c == 21..27
             d == 28..34
  <2>1. Lanes(f, n) = <<a, b, c, d>>
    BY <1>1, ZenonT(30) DEF Lanes, OfRegisters
  <2>2. a \subseteq 7..47 /\ b \subseteq 7..47 /\ c \subseteq 7..47 /\ d \subseteq 7..47
    OBVIOUS
  <2>3. a \cap b = {} /\ a \cap c = {} /\ a \cap d = {} /\ b \cap c = {} /\ b \cap d = {} /\ c \cap d = {}
    OBVIOUS
  <2> HIDE DEF a, b, c, d
  <2>4. Disjoint(<<a, b, c, d>>)
    BY <2>2, <2>3, FourDisjoint, Zenon
  <2> QED
    BY <2>1, <2>4
<1>2. CASE f = "RI"
  <2> DEFINE a == 7..13
             b == 14..20
             c == 21..45
  <2>1. Lanes(f, n) = <<a, b, c>>
    BY <1>2 DEF Lanes, OfRegisters
  <2>2. a \subseteq 7..47 /\ b \subseteq 7..47 /\ c \subseteq 7..47
    OBVIOUS
  <2>3. a \cap b = {} /\ a \cap c = {} /\ b \cap c = {}
    OBVIOUS
  <2> HIDE DEF a, b, c
  <2>4. Disjoint(<<a, b, c>>)
    BY <2>2, <2>3, ThreeDisjoint, Zenon
  <2> QED
    BY <2>1, <2>4
<1>4. CASE f = "R3RR" /\ n = 4
  <2> DEFINE a == 7..13
             b == 14..20
             c == 21..27
             d == 28..34
  <2>1. Lanes(f, n) = <<a, b, c, d>>
    BY <1>4 DEF Lanes, OfRegisters
  <2>2. a \subseteq 7..47 /\ b \subseteq 7..47 /\ c \subseteq 7..47 /\ d \subseteq 7..47
    OBVIOUS
  <2>3. a \cap b = {} /\ a \cap c = {} /\ a \cap d = {} /\ b \cap c = {} /\ b \cap d = {} /\ c \cap d = {}
    OBVIOUS
  <2> HIDE DEF a, b, c, d
  <2>4. Disjoint(<<a, b, c, d>>)
    BY <2>2, <2>3, FourDisjoint
  <2> QED
    BY <2>1, <2>4
<1>5. CASE f = "R3RR" /\ n # 4
  <2> DEFINE a == 7..13
             b == 14..20
             c == 21..39
             d == {}
  <2>1. Lanes(f, n) = <<a, b, c, d>>
    BY <1>5 DEF Lanes, OfRegisters
  <2>2. a \subseteq 7..47 /\ b \subseteq 7..47 /\ c \subseteq 7..47 /\ d \subseteq 7..47
    OBVIOUS
  <2>3. a \cap b = {} /\ a \cap c = {} /\ a \cap d = {} /\ b \cap c = {} /\ b \cap d = {} /\ c \cap d = {}
    OBVIOUS
  <2> HIDE DEF a, b, c, d
  <2>4. Disjoint(<<a, b, c, d>>)
    BY <2>2, <2>3, FourDisjoint
  <2> QED
    BY <2>1, <2>4
<1>6. CASE f = "ATOM"
  <2> DEFINE a == 7..30
  <2>1. Lanes(f, n) = <<a>>
    BY <1>6 DEF Lanes, OfRegisters
  <2>2. a \subseteq 7..47
    OBVIOUS
  <2> HIDE DEF a
  <2>4. Disjoint(<<a>>)
    BY <2>2, OneDisjoint, Zenon
  <2> QED
    BY <2>1, <2>4
<1>7. CASE f = "SYNC"
  <2> DEFINE a == 10..28
  <2>1. Lanes(f, n) = <<a>>
    BY <1>7 DEF Lanes, OfRegisters
  <2>2. a \subseteq 7..47
    OBVIOUS
  <2> HIDE DEF a
  <2>4. Disjoint(<<a>>)
    BY <2>2, OneDisjoint
  <2> QED
    BY <2>1, <2>4
<1>8. CASE f \in {"BITS16", "BITS40", "PFX", "REX"}
  <2> DEFINE a == 23..39
  <2>1. Lanes(f, n) = <<a>>
    BY <1>8 DEF Lanes, OfRegisters
  <2>2. a \subseteq 7..47
    OBVIOUS
  <2> HIDE DEF a
  <2>4. Disjoint(<<a>>)
    BY <2>2, OneDisjoint
  <2> QED
    BY <2>1, <2>4
<1>9. CASE f = "J4"
  <2> DEFINE a == 14..47
  <2>1. Lanes(f, n) = <<a>>
    BY <1>9 DEF Lanes, OfRegisters
  <2>2. a \subseteq 7..47
    OBVIOUS
  <2> HIDE DEF a
  <2>4. Disjoint(<<a>>)
    BY <2>2, OneDisjoint
  <2> QED
    BY <2>1, <2>4
<1>10. CASE f = "PRED"
  <2> DEFINE a == 14..20
             b == 22..37
  <2>1. Lanes(f, n) = <<a, b>>
    BY <1>10 DEF Lanes, OfRegisters
  <2>2. a \subseteq 7..47 /\ b \subseteq 7..47
    OBVIOUS
  <2>3. a \cap b = {}
    OBVIOUS
  <2> HIDE DEF a, b
  <2>4. Disjoint(<<a, b>>)
    BY <2>2, <2>3, TwoDisjoint, Zenon
  <2> QED
    BY <2>1, <2>4
<1>11. CASE f = "B"
  <2> DEFINE a == {11} \cup 14..20
             b == {12} \cup 21..27
             c == 28..44
  <2>1. Lanes(f, n) = <<a, b, c>>
    BY <1>11 DEF Lanes, OfRegisters
  <2>2. a \subseteq 7..47 /\ b \subseteq 7..47 /\ c \subseteq 7..47
    OBVIOUS
  <2>3. a \cap b = {} /\ a \cap c = {} /\ b \cap c = {}
    OBVIOUS
  <2> HIDE DEF a, b, c
  <2>4. Disjoint(<<a, b, c>>)
    BY <2>2, <2>3, ThreeDisjoint
  <2> QED
    BY <2>1, <2>4
<1>12. CASE f = "BI"
  <2> DEFINE a == 14..20
             b == {12} \cup 21..27
             c == 28..44
  <2>1. Lanes(f, n) = <<a, b, c>>
    BY <1>12 DEF Lanes, OfRegisters
  <2>2. a \subseteq 7..47 /\ b \subseteq 7..47 /\ c \subseteq 7..47
    OBVIOUS
  <2>3. a \cap b = {} /\ a \cap c = {} /\ b \cap c = {}
    OBVIOUS
  <2> HIDE DEF a, b, c
  <2>4. Disjoint(<<a, b, c>>)
    BY <2>2, <2>3, ThreeDisjoint
  <2> QED
    BY <2>1, <2>4
<1>13. CASE f = "BZ"
  <2> DEFINE a == 14..20
             b == 28..44
  <2>1. Lanes(f, n) = <<a, b>>
    BY <1>13 DEF Lanes, OfRegisters
  <2>2. a \subseteq 7..47 /\ b \subseteq 7..47
    OBVIOUS
  <2>3. a \cap b = {}
    OBVIOUS
  <2> HIDE DEF a, b
  <2>4. Disjoint(<<a, b>>)
    BY <2>2, <2>3, TwoDisjoint
  <2> QED
    BY <2>1, <2>4
<1>14. CASE f = "REGIND"
  <2> DEFINE a == 7..13
             b == 14..20 \cup 28..43
  <2>1. Lanes(f, n) = <<a, b>>
    BY <1>14 DEF Lanes, OfRegisters
  <2>2. a \subseteq 7..47 /\ b \subseteq 7..47
    OBVIOUS
  <2>3. a \cap b = {}
    OBVIOUS
  <2> HIDE DEF a, b
  <2>4. Disjoint(<<a, b>>)
    BY <2>2, <2>3, TwoDisjoint
  <2> QED
    BY <2>1, <2>4
<1>15. CASE f = "DIRECT"
  <2> DEFINE a == 7..13
             b == 28..43
  <2>1. Lanes(f, n) = <<a, b>>
    BY <1>15 DEF Lanes, OfRegisters
  <2>2. a \subseteq 7..47 /\ b \subseteq 7..47
    OBVIOUS
  <2>3. a \cap b = {}
    OBVIOUS
  <2> HIDE DEF a, b
  <2>4. Disjoint(<<a, b>>)
    BY <2>2, <2>3, TwoDisjoint
  <2> QED
    BY <2>1, <2>4
<1>16. CASE f = "SCNDX"
  <2> DEFINE a == 7..13
             b == 14..47
  <2>1. Lanes(f, n) = <<a, b>>
    BY <1>16 DEF Lanes, OfRegisters
  <2>2. a \subseteq 7..47 /\ b \subseteq 7..47
    OBVIOUS
  <2>3. a \cap b = {}
    OBVIOUS
  <2> HIDE DEF a, b
  <2>4. Disjoint(<<a, b>>)
    BY <2>2, <2>3, TwoDisjoint
  <2> QED
    BY <2>1, <2>4
<1>o. CASE f \notin OfRegisters \cup {"RI", "R3RR", "ATOM", "SYNC", "BITS16", "BITS40", "PFX", "REX",
                                      "J4", "PRED", "B", "BI", "BZ", "REGIND", "DIRECT", "SCNDX"}
  <2>1. Lanes(f, n) = <<>>
    BY <1>o DEF Lanes
  <2> QED
    BY <2>1, NoneDisjoint
<1> QED
  BY <1>1, <1>2, <1>4, <1>5, <1>6, <1>7, <1>8, <1>9, <1>10, <1>11, <1>12, <1>13, <1>14, <1>15, <1>16, <1>o

LEMMA LanesApart ==
  ASSUME NEW f, NEW n, NEW j \in Nat, NEW k \in Nat
  PROVE  /\ Lane(f, n, k) \subseteq 7..47
         /\ j # k => Lane(f, n, j) \cap Lane(f, n, k) = {}
<1>1. Disjoint(Lanes(f, n))
  BY LanesDisjoint
<1>2. j # k => j + 1 # k + 1
  OBVIOUS
<1> QED
  BY <1>1, <1>2 DEF Disjoint, Lane

LEMMA LaneValues ==
  ASSUME NEW f, NEW n
  PROVE  /\ f \in OfRegisters => Lane(f, n, 0) = 7..13 /\ Lane(f, n, 1) = 14..20 /\ Lane(f, n, 2) = 21..27 /\ Lane(f, n, 3) = 28..34
         /\ f = "RI" => Lane(f, n, 0) = 7..13 /\ Lane(f, n, 1) = 14..20 /\ Lane(f, n, 2) = 21..45
         /\ f = "R3RR" /\ n = 4 => Lane(f, n, 0) = 7..13 /\ Lane(f, n, 1) = 14..20 /\ Lane(f, n, 2) = 21..27 /\ Lane(f, n, 3) = 28..34
         /\ f = "R3RR" /\ n # 4 => Lane(f, n, 0) = 7..13 /\ Lane(f, n, 1) = 14..20 /\ Lane(f, n, 2) = 21..39 /\ Lane(f, n, 3) = {}
         /\ f = "ATOM" => Lane(f, n, 0) = 7..30
         /\ f = "SYNC" => Lane(f, n, 0) = 10..28
         /\ f \in {"BITS16", "BITS40", "PFX", "REX"} => Lane(f, n, 0) = 23..39
         /\ f = "J4" => Lane(f, n, 0) = 14..47
         /\ f = "PRED" => Lane(f, n, 0) = 14..20 /\ Lane(f, n, 1) = 22..37
         /\ f = "B" => Lane(f, n, 0) = ({11} \cup 14..20) /\ Lane(f, n, 1) = ({12} \cup 21..27) /\ Lane(f, n, 2) = 28..44
         /\ f = "BI" => Lane(f, n, 0) = 14..20 /\ Lane(f, n, 1) = ({12} \cup 21..27) /\ Lane(f, n, 2) = 28..44
         /\ f = "BZ" => Lane(f, n, 0) = 14..20 /\ Lane(f, n, 1) = 28..44
         /\ f = "REGIND" => Lane(f, n, 0) = 7..13 /\ Lane(f, n, 1) = (14..20 \cup 28..43)
         /\ f = "DIRECT" => Lane(f, n, 0) = 7..13 /\ Lane(f, n, 1) = 28..43
         /\ f = "SCNDX" => Lane(f, n, 0) = 7..13 /\ Lane(f, n, 1) = 14..47
<1>1. 0 + 1 = 1 /\ 1 + 1 = 2 /\ 2 + 1 = 3 /\ 3 + 1 = 4
  OBVIOUS
<1>2. ASSUME NEW a, Lanes(f, n) = <<a>> PROVE Lane(f, n, 0) = a
  BY <1>1, <1>2 DEF Lane
<1>3. ASSUME NEW a, NEW b, Lanes(f, n) = <<a, b>> PROVE Lane(f, n, 0) = a /\ Lane(f, n, 1) = b
  BY <1>1, <1>3 DEF Lane
<1>4. ASSUME NEW a, NEW b, NEW c, Lanes(f, n) = <<a, b, c>>
      PROVE  Lane(f, n, 0) = a /\ Lane(f, n, 1) = b /\ Lane(f, n, 2) = c
  BY <1>1, <1>4 DEF Lane
<1>5. ASSUME NEW a, NEW b, NEW c, NEW d, Lanes(f, n) = <<a, b, c, d>>
      PROVE  Lane(f, n, 0) = a /\ Lane(f, n, 1) = b /\ Lane(f, n, 2) = c /\ Lane(f, n, 3) = d
  BY <1>1, <1>5 DEF Lane
<1>6. ASSUME f \in OfRegisters PROVE Lane(f, n, 0) = 7..13 /\ Lane(f, n, 1) = 14..20 /\ Lane(f, n, 2) = 21..27 /\ Lane(f, n, 3) = 28..34
  <2> DEFINE a == 7..13
             b == 14..20
             c == 21..27
             d == 28..34
  <2>1. Lanes(f, n) = <<a, b, c, d>>
    BY <1>6, ZenonT(40) DEF Lanes, OfRegisters
  <2> HIDE DEF a, b, c, d
  <2>2. Lane(f, n, 0) = a /\ Lane(f, n, 1) = b /\ Lane(f, n, 2) = c /\ Lane(f, n, 3) = d
    BY <2>1, <1>5
  <2> QED
    BY <2>2 DEF a, b, c, d
<1>7. ASSUME f = "RI" PROVE Lane(f, n, 0) = 7..13 /\ Lane(f, n, 1) = 14..20 /\ Lane(f, n, 2) = 21..45
  <2> DEFINE a == 7..13
             b == 14..20
             c == 21..45
  <2>1. Lanes(f, n) = <<a, b, c>>
    BY <1>7 DEF Lanes, OfRegisters
  <2> HIDE DEF a, b, c
  <2>2. Lane(f, n, 0) = a /\ Lane(f, n, 1) = b /\ Lane(f, n, 2) = c
    BY <2>1, <1>4
  <2> QED
    BY <2>2 DEF a, b, c
<1>9. ASSUME f = "R3RR" /\ n = 4 PROVE Lane(f, n, 0) = 7..13 /\ Lane(f, n, 1) = 14..20 /\ Lane(f, n, 2) = 21..27 /\ Lane(f, n, 3) = 28..34
  <2> DEFINE a == 7..13
             b == 14..20
             c == 21..27
             d == 28..34
  <2>1. Lanes(f, n) = <<a, b, c, d>>
    BY <1>9 DEF Lanes, OfRegisters
  <2> HIDE DEF a, b, c, d
  <2>2. Lane(f, n, 0) = a /\ Lane(f, n, 1) = b /\ Lane(f, n, 2) = c /\ Lane(f, n, 3) = d
    BY <2>1, <1>5
  <2> QED
    BY <2>2 DEF a, b, c, d
<1>10. ASSUME f = "R3RR" /\ n # 4 PROVE Lane(f, n, 0) = 7..13 /\ Lane(f, n, 1) = 14..20 /\ Lane(f, n, 2) = 21..39 /\ Lane(f, n, 3) = {}
  <2> DEFINE a == 7..13
             b == 14..20
             c == 21..39
             d == {}
  <2>1. Lanes(f, n) = <<a, b, c, d>>
    BY <1>10 DEF Lanes, OfRegisters
  <2> HIDE DEF a, b, c, d
  <2>2. Lane(f, n, 0) = a /\ Lane(f, n, 1) = b /\ Lane(f, n, 2) = c /\ Lane(f, n, 3) = d
    BY <2>1, <1>5
  <2> QED
    BY <2>2 DEF a, b, c, d
<1>11. ASSUME f = "ATOM" PROVE Lane(f, n, 0) = 7..30
  <2> DEFINE a == 7..30
  <2>1. Lanes(f, n) = <<a>>
    BY <1>11 DEF Lanes, OfRegisters
  <2> HIDE DEF a
  <2>2. Lane(f, n, 0) = a
    BY <2>1, <1>2
  <2> QED
    BY <2>2 DEF a
<1>12. ASSUME f = "SYNC" PROVE Lane(f, n, 0) = 10..28
  <2> DEFINE a == 10..28
  <2>1. Lanes(f, n) = <<a>>
    BY <1>12 DEF Lanes, OfRegisters
  <2> HIDE DEF a
  <2>2. Lane(f, n, 0) = a
    BY <2>1, <1>2
  <2> QED
    BY <2>2 DEF a
<1>13. ASSUME f \in {"BITS16", "BITS40", "PFX", "REX"} PROVE Lane(f, n, 0) = 23..39
  <2> DEFINE a == 23..39
  <2>1. Lanes(f, n) = <<a>>
    BY <1>13 DEF Lanes, OfRegisters
  <2> HIDE DEF a
  <2>2. Lane(f, n, 0) = a
    BY <2>1, <1>2
  <2> QED
    BY <2>2 DEF a
<1>14. ASSUME f = "J4" PROVE Lane(f, n, 0) = 14..47
  <2> DEFINE a == 14..47
  <2>1. Lanes(f, n) = <<a>>
    BY <1>14 DEF Lanes, OfRegisters
  <2> HIDE DEF a
  <2>2. Lane(f, n, 0) = a
    BY <2>1, <1>2
  <2> QED
    BY <2>2 DEF a
<1>15. ASSUME f = "PRED" PROVE Lane(f, n, 0) = 14..20 /\ Lane(f, n, 1) = 22..37
  <2> DEFINE a == 14..20
             b == 22..37
  <2>1. Lanes(f, n) = <<a, b>>
    BY <1>15 DEF Lanes, OfRegisters
  <2> HIDE DEF a, b
  <2>2. Lane(f, n, 0) = a /\ Lane(f, n, 1) = b
    BY <2>1, <1>3
  <2> QED
    BY <2>2 DEF a, b
<1>16. ASSUME f = "B" PROVE Lane(f, n, 0) = ({11} \cup 14..20) /\ Lane(f, n, 1) = ({12} \cup 21..27) /\ Lane(f, n, 2) = 28..44
  <2> DEFINE a == {11} \cup 14..20
             b == {12} \cup 21..27
             c == 28..44
  <2>1. Lanes(f, n) = <<a, b, c>>
    BY <1>16 DEF Lanes, OfRegisters
  <2> HIDE DEF a, b, c
  <2>2. Lane(f, n, 0) = a /\ Lane(f, n, 1) = b /\ Lane(f, n, 2) = c
    BY <2>1, <1>4
  <2> QED
    BY <2>2 DEF a, b, c
<1>17. ASSUME f = "BI" PROVE Lane(f, n, 0) = 14..20 /\ Lane(f, n, 1) = ({12} \cup 21..27) /\ Lane(f, n, 2) = 28..44
  <2> DEFINE a == 14..20
             b == {12} \cup 21..27
             c == 28..44
  <2>1. Lanes(f, n) = <<a, b, c>>
    BY <1>17 DEF Lanes, OfRegisters
  <2> HIDE DEF a, b, c
  <2>2. Lane(f, n, 0) = a /\ Lane(f, n, 1) = b /\ Lane(f, n, 2) = c
    BY <2>1, <1>4
  <2> QED
    BY <2>2 DEF a, b, c
<1>18. ASSUME f = "BZ" PROVE Lane(f, n, 0) = 14..20 /\ Lane(f, n, 1) = 28..44
  <2> DEFINE a == 14..20
             b == 28..44
  <2>1. Lanes(f, n) = <<a, b>>
    BY <1>18 DEF Lanes, OfRegisters
  <2> HIDE DEF a, b
  <2>2. Lane(f, n, 0) = a /\ Lane(f, n, 1) = b
    BY <2>1, <1>3
  <2> QED
    BY <2>2 DEF a, b
<1>19. ASSUME f = "REGIND" PROVE Lane(f, n, 0) = 7..13 /\ Lane(f, n, 1) = (14..20 \cup 28..43)
  <2> DEFINE a == 7..13
             b == 14..20 \cup 28..43
  <2>1. Lanes(f, n) = <<a, b>>
    BY <1>19 DEF Lanes, OfRegisters
  <2> HIDE DEF a, b
  <2>2. Lane(f, n, 0) = a /\ Lane(f, n, 1) = b
    BY <2>1, <1>3
  <2> QED
    BY <2>2 DEF a, b
<1>20. ASSUME f = "DIRECT" PROVE Lane(f, n, 0) = 7..13 /\ Lane(f, n, 1) = 28..43
  <2> DEFINE a == 7..13
             b == 28..43
  <2>1. Lanes(f, n) = <<a, b>>
    BY <1>20 DEF Lanes, OfRegisters
  <2> HIDE DEF a, b
  <2>2. Lane(f, n, 0) = a /\ Lane(f, n, 1) = b
    BY <2>1, <1>3
  <2> QED
    BY <2>2 DEF a, b
<1>21. ASSUME f = "SCNDX" PROVE Lane(f, n, 0) = 7..13 /\ Lane(f, n, 1) = 14..47
  <2> DEFINE a == 7..13
             b == 14..47
  <2>1. Lanes(f, n) = <<a, b>>
    BY <1>21 DEF Lanes, OfRegisters
  <2> HIDE DEF a, b
  <2>2. Lane(f, n, 0) = a /\ Lane(f, n, 1) = b
    BY <2>1, <1>3
  <2> QED
    BY <2>2 DEF a, b
<1> QED
  BY <1>6, <1>7, <1>9, <1>10, <1>11, <1>12, <1>13, <1>14, <1>15, <1>16, <1>17, <1>18, <1>19, <1>20, <1>21

LEMMA TableDomains ==
  /\ DOMAIN RegFieldsA = {"PRED", "R2", "R2S", "R3", "ENTER", "LEAVE", "RI", "RIA", "RIB", "B", "REGIND", "SCNDX"}
  /\ DOMAIN RegFieldsB = {"RII", "RTDI", "RIM", "RISH", "RISM", "RIV", "RIS", "RIMV", "BFR3IR", "SI", "R1",
                          "BFR3II", "RI6", "SH", "CSR", "R3RI", "BFR3RI", "SHIFTI", "MV", "RTDR"}
  /\ DOMAIN RegFieldsC = {"R7", "R6", "R5", "R4", "R3RR", "BI", "BZ", "BL2", "J3", "BL", "JL3", "JSCNDX", "DIRECT"}
<1>1. DOMAIN RegFieldsA = {"PRED", "R2", "R2S", "R3", "ENTER", "LEAVE", "RI", "RIA", "RIB", "B", "REGIND", "SCNDX"}
  BY DEF RegFieldsA
<1>2. DOMAIN RegFieldsB = {"RII", "RTDI", "RIM", "RISH", "RISM", "RIV", "RIS", "RIMV", "BFR3IR", "SI", "R1",
                          "BFR3II", "RI6", "SH", "CSR", "R3RI", "BFR3RI", "SHIFTI", "MV", "RTDR"}
  BY DEF RegFieldsB
<1>3. DOMAIN RegFieldsC = {"R7", "R6", "R5", "R4", "R3RR", "BI", "BZ", "BL2", "J3", "BL", "JL3", "JSCNDX", "DIRECT"}
  BY DEF RegFieldsC
<1> QED
  BY <1>1, <1>2, <1>3

LEMMA RegisterFields ==
  /\ RegField("PRED", 0) = RS1 /\ RegField("PRED", 1) = RS1 /\ RegField("PRED", 2) = RS1
  /\ RegField("R2", 0) = RD /\ RegField("R2", 1) = RS1 /\ RegField("R2", 2) = RS2
  /\ RegField("R2S", 0) = Field(5, 7) /\ RegField("R2S", 1) = Field(5, 14) /\ RegField("R2S", 2) = Field(5, 21)
  /\ RegField("R3", 0) = RD /\ RegField("R3", 1) = RS1 /\ RegField("R3", 2) = RS2 /\ RegField("R3", 3) = RS3
  /\ RegField("RI", 0) = RD /\ RegField("RI", 1) = RS1
  /\ RegField("RIA", 0) = RD /\ RegField("RIA", 1) = NoField /\ RegField("RIA", 2) = RS2
  /\ RegField("RIB", 0) = RD /\ RegField("RIB", 1) = RS1 /\ RegField("RIB", 2) = NoField
  /\ RegField("B", 0) = RS1 /\ RegField("B", 1) = RS2 /\ RegField("B", 2) = RS3 /\ RegField("B", 3) = RS4
  /\ RegField("REGIND", 0) = RD /\ RegField("REGIND", 1) = RS1 /\ RegField("REGIND", 2) = RS2
  /\ RegField("SCNDX", 0) = RD /\ RegField("SCNDX", 1) = RS1
  /\ RegField("R1", 0) = RD /\ RegField("R1", 1) = RS1
  /\ RegField("MV", 0) = RD /\ RegField("MV", 1) = RS1
  /\ RegField("SH", 0) = RD /\ RegField("SH", 1) = RS1 /\ RegField("SH", 2) = RS2 /\ RegField("SH", 3) = RS3
  /\ RegField("R4", 0) = RD /\ RegField("R4", 1) = RS1 /\ RegField("R4", 2) = RS2 /\ RegField("R4", 3) = RS3
  /\ RegField("R3RR", 0) = RD /\ RegField("R3RR", 1) = RS1 /\ RegField("R3RR", 2) = RS2 /\ RegField("R3RR", 3) = RS3
  /\ RegField("BI", 0) = RS1 /\ RegField("BI", 1) = RS2
  /\ RegField("BZ", 0) = RS1
  /\ RegField("DIRECT", 0) = RD
  /\ \A k : RegField("REX", k) = NoField /\ RegField("RIL", k) = NoField
<1>1. /\ \A a, b : Nth(<<a, b>>, 0) = a /\ Nth(<<a, b>>, 1) = b
      /\ \A a : Nth(<<a>>, 0) = a
  BY DEF Nth
<1>2. \A a, b, c : Nth(<<a, b, c>>, 0) = a /\ Nth(<<a, b, c>>, 1) = b /\ Nth(<<a, b, c>>, 2) = c
  BY DEF Nth
<1>3. \A a, b, c, d : /\ Nth(<<a, b, c, d>>, 0) = a /\ Nth(<<a, b, c, d>>, 1) = b
                    /\ Nth(<<a, b, c, d>>, 2) = c /\ Nth(<<a, b, c, d>>, 3) = d
  BY DEF Nth
<1>s. /\ Nth(SevenRegisters, 0) = RD /\ Nth(SevenRegisters, 1) = RS1
      /\ Nth(SevenRegisters, 2) = RS2 /\ Nth(SevenRegisters, 3) = RS3
  BY DEF Nth, SevenRegisters
<1>4. RegField("PRED", 0) = RS1 /\ RegField("PRED", 1) = RS1 /\ RegField("PRED", 2) = RS1
  <2>1. RegFieldsA["PRED"] = <<RS1, RS1, RS1>>
    BY DEF RegFieldsA
  <2>2. \A k : RegField("PRED", k) = Nth(RegFieldsA["PRED"], k)
    BY TableDomains DEF RegField
  <2> QED
    BY <2>1, <2>2, <1>2
<1>5. RegField("R2", 0) = RD /\ RegField("R2", 1) = RS1 /\ RegField("R2", 2) = RS2
  <2>1. RegFieldsA["R2"] = <<RD, RS1, RS2>>
    BY DEF RegFieldsA
  <2>2. \A k : RegField("R2", k) = Nth(RegFieldsA["R2"], k)
    BY TableDomains DEF RegField
  <2> QED
    BY <2>1, <2>2, <1>2
<1>6. RegField("R2S", 0) = Field(5, 7) /\ RegField("R2S", 1) = Field(5, 14) /\ RegField("R2S", 2) = Field(5, 21)
  <2>1. RegFieldsA["R2S"] = <<Field(5, 7), Field(5, 14), Field(5, 21)>>
    BY DEF RegFieldsA
  <2>2. \A k : RegField("R2S", k) = Nth(RegFieldsA["R2S"], k)
    BY TableDomains DEF RegField
  <2> QED
    BY <2>1, <2>2, <1>2
<1>7. RegField("R3", 0) = RD /\ RegField("R3", 1) = RS1 /\ RegField("R3", 2) = RS2 /\ RegField("R3", 3) = RS3
  <2>1. RegFieldsA["R3"] = <<RD, RS1, RS2, RS3>>
    BY DEF RegFieldsA
  <2>2. \A k : RegField("R3", k) = Nth(RegFieldsA["R3"], k)
    BY TableDomains DEF RegField
  <2> QED
    BY <2>1, <2>2, <1>3
<1>8. RegField("RI", 0) = RD /\ RegField("RI", 1) = RS1
  <2>1. RegFieldsA["RI"] = <<RD, RS1>>
    BY DEF RegFieldsA
  <2>2. \A k : RegField("RI", k) = Nth(RegFieldsA["RI"], k)
    BY TableDomains DEF RegField
  <2> QED
    BY <2>1, <2>2, <1>1
<1>9. RegField("RIA", 0) = RD /\ RegField("RIA", 1) = NoField /\ RegField("RIA", 2) = RS2
  <2>1. RegFieldsA["RIA"] = <<RD, NoField, RS2>>
    BY DEF RegFieldsA
  <2>2. \A k : RegField("RIA", k) = Nth(RegFieldsA["RIA"], k)
    BY TableDomains DEF RegField
  <2> QED
    BY <2>1, <2>2, <1>2
<1>10. RegField("RIB", 0) = RD /\ RegField("RIB", 1) = RS1 /\ RegField("RIB", 2) = NoField
  <2>1. RegFieldsA["RIB"] = <<RD, RS1, NoField>>
    BY DEF RegFieldsA
  <2>2. \A k : RegField("RIB", k) = Nth(RegFieldsA["RIB"], k)
    BY TableDomains DEF RegField
  <2> QED
    BY <2>1, <2>2, <1>2
<1>11. RegField("B", 0) = RS1 /\ RegField("B", 1) = RS2 /\ RegField("B", 2) = RS3 /\ RegField("B", 3) = RS4
  <2>1. RegFieldsA["B"] = <<RS1, RS2, RS3, RS4>>
    BY DEF RegFieldsA
  <2>2. \A k : RegField("B", k) = Nth(RegFieldsA["B"], k)
    BY TableDomains DEF RegField
  <2> QED
    BY <2>1, <2>2, <1>3
<1>12. RegField("REGIND", 0) = RD /\ RegField("REGIND", 1) = RS1 /\ RegField("REGIND", 2) = RS2
  <2>1. RegFieldsA["REGIND"] = <<RD, RS1, RS2>>
    BY DEF RegFieldsA
  <2>2. \A k : RegField("REGIND", k) = Nth(RegFieldsA["REGIND"], k)
    BY TableDomains DEF RegField
  <2> QED
    BY <2>1, <2>2, <1>2
<1>13. RegField("SCNDX", 0) = RD /\ RegField("SCNDX", 1) = RS1
  <2>1. RegFieldsA["SCNDX"] = <<RD, RS1>>
    BY DEF RegFieldsA
  <2>2. \A k : RegField("SCNDX", k) = Nth(RegFieldsA["SCNDX"], k)
    BY TableDomains DEF RegField
  <2> QED
    BY <2>1, <2>2, <1>1
<1>14. RegField("R1", 0) = RD /\ RegField("R1", 1) = RS1
  <2>1. RegFieldsB["R1"] = <<RD, RS1>>
    BY DEF RegFieldsB
  <2>2. \A k : RegField("R1", k) = Nth(RegFieldsB["R1"], k)
    BY TableDomains DEF RegField
  <2> QED
    BY <2>1, <2>2, <1>1
<1>15. RegField("MV", 0) = RD /\ RegField("MV", 1) = RS1
  <2>1. RegFieldsB["MV"] = <<RD, RS1>>
    BY DEF RegFieldsB
  <2>2. \A k : RegField("MV", k) = Nth(RegFieldsB["MV"], k)
    BY TableDomains DEF RegField
  <2> QED
    BY <2>1, <2>2, <1>1
<1>16. RegField("SH", 0) = RD /\ RegField("SH", 1) = RS1 /\ RegField("SH", 2) = RS2 /\ RegField("SH", 3) = RS3
  <2>1. RegFieldsB["SH"] = <<RD, RS1, RS2, RS3>>
    BY DEF RegFieldsB
  <2>2. \A k : RegField("SH", k) = Nth(RegFieldsB["SH"], k)
    BY TableDomains DEF RegField
  <2> QED
    BY <2>1, <2>2, <1>3
<1>18. RegField("R4", 0) = RD /\ RegField("R4", 1) = RS1 /\ RegField("R4", 2) = RS2 /\ RegField("R4", 3) = RS3
  <2>1. RegFieldsC["R4"] = SevenRegisters
    BY DEF RegFieldsC
  <2>2. \A k : RegField("R4", k) = Nth(RegFieldsC["R4"], k)
    BY TableDomains DEF RegField
  <2> QED
    BY <2>1, <2>2, <1>s
<1>19. RegField("R3RR", 0) = RD /\ RegField("R3RR", 1) = RS1 /\ RegField("R3RR", 2) = RS2 /\ RegField("R3RR", 3) = RS3
  <2>1. RegFieldsC["R3RR"] = SevenRegisters
    BY DEF RegFieldsC
  <2>2. \A k : RegField("R3RR", k) = Nth(RegFieldsC["R3RR"], k)
    BY TableDomains DEF RegField
  <2> QED
    BY <2>1, <2>2, <1>s
<1>20. RegField("BI", 0) = RS1 /\ RegField("BI", 1) = RS2
  <2>1. RegFieldsC["BI"] = <<RS1, RS2>>
    BY DEF RegFieldsC
  <2>2. \A k : RegField("BI", k) = Nth(RegFieldsC["BI"], k)
    BY TableDomains DEF RegField
  <2> QED
    BY <2>1, <2>2, <1>1
<1>21. RegField("BZ", 0) = RS1
  <2>1. RegFieldsC["BZ"] = <<RS1>>
    BY DEF RegFieldsC
  <2>2. \A k : RegField("BZ", k) = Nth(RegFieldsC["BZ"], k)
    BY TableDomains DEF RegField
  <2> QED
    BY <2>1, <2>2, <1>1
<1>22. RegField("DIRECT", 0) = RD
  <2>1. RegFieldsC["DIRECT"] = <<RD>>
    BY DEF RegFieldsC
  <2>2. \A k : RegField("DIRECT", k) = Nth(RegFieldsC["DIRECT"], k)
    BY TableDomains DEF RegField
  <2> QED
    BY <2>1, <2>2, <1>1
<1>23. \A k : RegField("REX", k) = NoField /\ RegField("RIL", k) = NoField
  BY TableDomains DEF RegField
<1> QED
  BY <1>4, <1>5, <1>6, <1>7, <1>8, <1>9, <1>10, <1>11, <1>12, <1>13, <1>14, <1>15, <1>16, <1>18, <1>19, <1>20, <1>21, <1>22, <1>23

(* Pieces within a lane.                                                   *)
Lies(pieces, lane) == pieces \in SUBSET Layout /\ Apart(pieces) /\ Span(pieces) \subseteq lane

LEMMA LiesNone == \A lane : Lies({}, lane)
  BY DEF Lies, Apart, Span

LEMMA LiesOne ==
  ASSUME NEW p \in Layout, NEW lane, SpanOf(p) \subseteq lane
  PROVE  Lies({p}, lane)
<1>1. {p} \in SUBSET Layout /\ Apart({p})
  BY DEF Apart
<1>2. Span({p}) \subseteq lane
  BY DEF Span, SpanOf
<1> QED
  BY <1>1, <1>2 DEF Lies

LEMMA LiesMore ==
  ASSUME NEW pieces, NEW a, NEW b, Lies(pieces, a), a \subseteq b
  PROVE  Lies(pieces, b)
  BY DEF Lies

LEMMA LiesField ==
  ASSUME NEW lo \in Nat, NEW n \in Nat, NEW at \in Nat
  PROVE  Lies({<<lo, n, at>>}, at .. at + n - 1)
<1> DEFINE p == <<lo, n, at>>
<1>1. p \in Layout /\ SpanOf(p) = at .. at + n - 1
  BY DEF Layout, SpanOf
<1> HIDE DEF p
<1>2. Lies({p}, at .. at + n - 1)
  BY <1>1, LiesOne
<1> QED
  BY <1>2 DEF p

LEMMA LiesNamed ==
  /\ Lies({RD}, 7..13) /\ Lies({RS1}, 14..20) /\ Lies({RS2}, 21..27) /\ Lies({RS3}, 28..34)
  /\ Lies({LSDISP}, 28..43)
  /\ \A lane : Lies({NoField}, lane)
<1>1. Lies({RD}, 7..13) /\ Lies({RS1}, 14..20) /\ Lies({RS2}, 21..27) /\ Lies({RS3}, 28..34)
  <2>1. 7 + 7 - 1 = 13 /\ 14 + 7 - 1 = 20 /\ 21 + 7 - 1 = 27 /\ 28 + 7 - 1 = 34
    OBVIOUS
  <2>2. /\ Lies({<<0, 7, 7>>}, 7 .. 7 + 7 - 1) /\ Lies({<<0, 7, 14>>}, 14 .. 14 + 7 - 1)
        /\ Lies({<<0, 7, 21>>}, 21 .. 21 + 7 - 1) /\ Lies({<<0, 7, 28>>}, 28 .. 28 + 7 - 1)
    BY LiesField, Zenon
  <2> QED
    BY <2>1, <2>2 DEF RD, RS1, RS2, RS3, Field
<1>2. Lies({LSDISP}, 28..43)
  <2>1. 28 + 16 - 1 = 43
    OBVIOUS
  <2>2. Lies({<<0, 16, 28>>}, 28 .. 28 + 16 - 1)
    BY LiesField, Zenon
  <2> QED
    BY <2>1, <2>2 DEF LSDISP, Field
<1>3. ASSUME NEW lane PROVE Lies({NoField}, lane)
  <2>1. NoField \in Layout /\ SpanOf(NoField) = {}
    BY DEF NoField, Field, Layout, SpanOf
  <2> QED
    BY <2>1, LiesOne
<1> QED
  BY <1>1, <1>2, <1>3, Zenon

(* Which operand can be of which kind                                      *)
LEMMA OnePlaces ==
  ASSUME NEW f, NEW k \in Nat, May(f, k + 1) # {}, NEW a,
         ShapeOf(f) = <<a>>
  PROVE  \/ k = 0 /\ May(f, k + 1) = a
<1>1. k + 1 \in DOMAIN ShapeOf(f) /\ May(f, k + 1) = ShapeOf(f)[k + 1]
  BY DEF May
<1>2. k = 0
  BY <1>1
<1> QED
  BY <1>1, <1>2

LEMMA TwoPlaces ==
  ASSUME NEW f, NEW k \in Nat, May(f, k + 1) # {}, NEW a, NEW b,
         ShapeOf(f) = <<a, b>>
  PROVE  \/ k = 0 /\ May(f, k + 1) = a
         \/ k = 1 /\ May(f, k + 1) = b
<1>1. k + 1 \in DOMAIN ShapeOf(f) /\ May(f, k + 1) = ShapeOf(f)[k + 1]
  BY DEF May
<1>2. k = 0 \/ k = 1
  BY <1>1
<1> QED
  BY <1>1, <1>2

LEMMA ThreePlaces ==
  ASSUME NEW f, NEW k \in Nat, May(f, k + 1) # {}, NEW a, NEW b, NEW c,
         ShapeOf(f) = <<a, b, c>>
  PROVE  \/ k = 0 /\ May(f, k + 1) = a
         \/ k = 1 /\ May(f, k + 1) = b
         \/ k = 2 /\ May(f, k + 1) = c
<1>1. k + 1 \in DOMAIN ShapeOf(f) /\ May(f, k + 1) = ShapeOf(f)[k + 1]
  BY DEF May
<1>2. k = 0 \/ k = 1 \/ k = 2
  BY <1>1
<1> QED
  BY <1>1, <1>2

LEMMA FourPlaces ==
  ASSUME NEW f, NEW k \in Nat, May(f, k + 1) # {}, NEW a, NEW b, NEW c, NEW d,
         ShapeOf(f) = <<a, b, c, d>>
  PROVE  \/ k = 0 /\ May(f, k + 1) = a
         \/ k = 1 /\ May(f, k + 1) = b
         \/ k = 2 /\ May(f, k + 1) = c
         \/ k = 3 /\ May(f, k + 1) = d
<1>1. k + 1 \in DOMAIN ShapeOf(f) /\ May(f, k + 1) = ShapeOf(f)[k + 1]
  BY DEF May
<1>2. k = 0 \/ k = 1 \/ k = 2 \/ k = 3
  BY <1>1
<1> QED
  BY <1>1, <1>2

LEMMA FivePlaces ==
  ASSUME NEW f, NEW k \in Nat, May(f, k + 1) # {}, NEW a, NEW b, NEW c, NEW d, NEW e,
         ShapeOf(f) = <<a, b, c, d, e>>
  PROVE  \/ k = 0 /\ May(f, k + 1) = a
         \/ k = 1 /\ May(f, k + 1) = b
         \/ k = 2 /\ May(f, k + 1) = c
         \/ k = 3 /\ May(f, k + 1) = d
         \/ k = 4 /\ May(f, k + 1) = e
<1>1. k + 1 \in DOMAIN ShapeOf(f) /\ May(f, k + 1) = ShapeOf(f)[k + 1]
  BY DEF May
<1>2. k = 0 \/ k = 1 \/ k = 2 \/ k = 3 \/ k = 4
  BY <1>1
<1> QED
  BY <1>1, <1>2

LEMMA NoPlaces ==
  ASSUME NEW f, NEW k \in Nat, ShapeOf(f) = <<>>
  PROVE  May(f, k + 1) = {}
  BY DEF May

LEMMA OpenPlaces ==
  ASSUME NEW f \in Open, NEW k \in Nat
  PROVE  /\ "REG" \in May(f, k + 1) =>
              \/ f \in {"R1", "MV", "RI", "RIB", "RIL", "PRED", "B"} /\ k \in {0, 1}
              \/ f \in {"R2", "R4", "SH", "R3", "R3RR"} /\ k \in {0, 1, 2, 3}
              \/ f \in {"R2S"} /\ k \in {0, 1, 2}
              \/ f \in {"RIA"} /\ k \in {0, 2}
              \/ f \in {"BI", "BZ", "REGIND", "SCNDX", "DIRECT"} /\ k \in {0}
              \/ f \in {"REX"} /\ k \in {1}
         /\ "IMM" \in May(f, k + 1) =>
              \/ f \in {"R3"} /\ k \in {2, 3}
              \/ f \in {"R3RR", "RI", "RIB", "RIL"} /\ k \in {2}
              \/ f \in {"RIA", "BZ"} /\ k \in {1}
              \/ f \in {"B"} /\ k \in {0, 1, 2}
              \/ f \in {"BI"} /\ k \in {1, 2}
              \/ f \in {"REGIND", "SCNDX", "REX", "ATOM", "BITS16", "BITS40", "J4", "PFX", "SYNC"} /\ k \in {0}
              \/ f \in {"DIRECT", "REP"} /\ k \in {0, 1}
         /\ "PREDSTR" \in May(f, k + 1) =>
              \/ f \in {"PRED"} /\ k \in {1, 2}
         /\ "REGIND" \in May(f, k + 1) =>
              \/ f \in {"REGIND"} /\ k \in {1}
         /\ "SCNDX" \in May(f, k + 1) =>
              \/ f \in {"SCNDX"} /\ k \in {1}
         /\ May(f, k + 1) \subseteq {"REG", "IMM", "PREDSTR", "REGIND", "SCNDX", "VMREG"}
<1> SUFFICES ASSUME May(f, k + 1) # {}
    PROVE
     /\ "REG" \in May(f, k + 1) =>
          \/ f \in {"R1", "MV", "RI", "RIB", "RIL", "PRED", "B"} /\ k \in {0, 1}
          \/ f \in {"R2", "R4", "SH", "R3", "R3RR"} /\ k \in {0, 1, 2, 3}
          \/ f \in {"R2S"} /\ k \in {0, 1, 2}
          \/ f \in {"RIA"} /\ k \in {0, 2}
          \/ f \in {"BI", "BZ", "REGIND", "SCNDX", "DIRECT"} /\ k \in {0}
          \/ f \in {"REX"} /\ k \in {1}
     /\ "IMM" \in May(f, k + 1) =>
          \/ f \in {"R3"} /\ k \in {2, 3}
          \/ f \in {"R3RR", "RI", "RIB", "RIL"} /\ k \in {2}
          \/ f \in {"RIA", "BZ"} /\ k \in {1}
          \/ f \in {"B"} /\ k \in {0, 1, 2}
          \/ f \in {"BI"} /\ k \in {1, 2}
          \/ f \in {"REGIND", "SCNDX", "REX", "ATOM", "BITS16", "BITS40", "J4", "PFX", "SYNC"} /\ k \in {0}
          \/ f \in {"DIRECT", "REP"} /\ k \in {0, 1}
     /\ "PREDSTR" \in May(f, k + 1) =>
          \/ f \in {"PRED"} /\ k \in {1, 2}
     /\ "REGIND" \in May(f, k + 1) =>
          \/ f \in {"REGIND"} /\ k \in {1}
     /\ "SCNDX" \in May(f, k + 1) =>
          \/ f \in {"SCNDX"} /\ k \in {1}
     /\ May(f, k + 1) \subseteq {"REG", "IMM", "PREDSTR", "REGIND", "SCNDX", "VMREG"}
  OBVIOUS
<1>1. CASE f \in {"R1", "MV"}
  <2>1. ShapeOf(f) = <<R, R>>
    BY <1>1 DEF ShapeOf
  <2>2. \/ k = 0 /\ May(f, k + 1) = R
        \/ k = 1 /\ May(f, k + 1) = R
    BY <2>1, TwoPlaces
  <2> QED
    BY <1>1, <2>2 DEF R, I, RI
<1>2. CASE f \in {"R2", "R4", "SH"}
  <2>1. ShapeOf(f) = <<R, R, R, R>>
    BY <1>2 DEF ShapeOf
  <2>2. \/ k = 0 /\ May(f, k + 1) = R
        \/ k = 1 /\ May(f, k + 1) = R
        \/ k = 2 /\ May(f, k + 1) = R
        \/ k = 3 /\ May(f, k + 1) = R
    BY <2>1, FourPlaces
  <2> QED
    BY <1>2, <2>2 DEF R, I, RI
<1>3. CASE f \in {"R2S"}
  <2>1. ShapeOf(f) = <<R, R, R>>
    BY <1>3 DEF ShapeOf
  <2>2. \/ k = 0 /\ May(f, k + 1) = R
        \/ k = 1 /\ May(f, k + 1) = R
        \/ k = 2 /\ May(f, k + 1) = R
    BY <2>1, ThreePlaces
  <2> QED
    BY <1>3, <2>2 DEF R, I, RI
<1>4. CASE f \in {"R3"}
  <2>1. ShapeOf(f) = <<R, R, RI, RI, {"VMREG"}>>
    BY <1>4 DEF ShapeOf
  <2>2. \/ k = 0 /\ May(f, k + 1) = R
        \/ k = 1 /\ May(f, k + 1) = R
        \/ k = 2 /\ May(f, k + 1) = RI
        \/ k = 3 /\ May(f, k + 1) = RI
        \/ k = 4 /\ May(f, k + 1) = {"VMREG"}
    BY <2>1, FivePlaces
  <2> QED
    BY <1>4, <2>2 DEF R, I, RI
<1>5. CASE f \in {"R3RR"}
  <2>1. ShapeOf(f) = <<R, R, RI, R>>
    BY <1>5 DEF ShapeOf
  <2>2. \/ k = 0 /\ May(f, k + 1) = R
        \/ k = 1 /\ May(f, k + 1) = R
        \/ k = 2 /\ May(f, k + 1) = RI
        \/ k = 3 /\ May(f, k + 1) = R
    BY <2>1, FourPlaces
  <2> QED
    BY <1>5, <2>2 DEF R, I, RI
<1>6. CASE f \in {"RI", "RIB", "RIL"}
  <2>1. ShapeOf(f) = <<R, R, I>>
    BY <1>6 DEF ShapeOf
  <2>2. \/ k = 0 /\ May(f, k + 1) = R
        \/ k = 1 /\ May(f, k + 1) = R
        \/ k = 2 /\ May(f, k + 1) = I
    BY <2>1, ThreePlaces
  <2> QED
    BY <1>6, <2>2 DEF R, I, RI
<1>7. CASE f \in {"RIA"}
  <2>1. ShapeOf(f) = <<R, I, R>>
    BY <1>7 DEF ShapeOf
  <2>2. \/ k = 0 /\ May(f, k + 1) = R
        \/ k = 1 /\ May(f, k + 1) = I
        \/ k = 2 /\ May(f, k + 1) = R
    BY <2>1, ThreePlaces
  <2> QED
    BY <1>7, <2>2 DEF R, I, RI
<1>8. CASE f \in {"PRED"}
  <2>1. ShapeOf(f) = <<R, {"REG", "PREDSTR"}, {"PREDSTR"}>>
    BY <1>8 DEF ShapeOf
  <2>2. \/ k = 0 /\ May(f, k + 1) = R
        \/ k = 1 /\ May(f, k + 1) = {"REG", "PREDSTR"}
        \/ k = 2 /\ May(f, k + 1) = {"PREDSTR"}
    BY <2>1, ThreePlaces
  <2> QED
    BY <1>8, <2>2 DEF R, I, RI
<1>9. CASE f \in {"B"}
  <2>1. ShapeOf(f) = <<RI, RI, I>>
    BY <1>9 DEF ShapeOf
  <2>2. \/ k = 0 /\ May(f, k + 1) = RI
        \/ k = 1 /\ May(f, k + 1) = RI
        \/ k = 2 /\ May(f, k + 1) = I
    BY <2>1, ThreePlaces
  <2> QED
    BY <1>9, <2>2 DEF R, I, RI
<1>10. CASE f \in {"BI"}
  <2>1. ShapeOf(f) = <<R, I, I>>
    BY <1>10 DEF ShapeOf
  <2>2. \/ k = 0 /\ May(f, k + 1) = R
        \/ k = 1 /\ May(f, k + 1) = I
        \/ k = 2 /\ May(f, k + 1) = I
    BY <2>1, ThreePlaces
  <2> QED
    BY <1>10, <2>2 DEF R, I, RI
<1>11. CASE f \in {"BZ"}
  <2>1. ShapeOf(f) = <<R, I>>
    BY <1>11 DEF ShapeOf
  <2>2. \/ k = 0 /\ May(f, k + 1) = R
        \/ k = 1 /\ May(f, k + 1) = I
    BY <2>1, TwoPlaces
  <2> QED
    BY <1>11, <2>2 DEF R, I, RI
<1>12. CASE f \in {"REGIND"}
  <2>1. ShapeOf(f) = <<RI, {"REGIND"}>>
    BY <1>12 DEF ShapeOf
  <2>2. \/ k = 0 /\ May(f, k + 1) = RI
        \/ k = 1 /\ May(f, k + 1) = {"REGIND"}
    BY <2>1, TwoPlaces
  <2> QED
    BY <1>12, <2>2 DEF R, I, RI
<1>13. CASE f \in {"SCNDX"}
  <2>1. ShapeOf(f) = <<RI, {"SCNDX"}>>
    BY <1>13 DEF ShapeOf
  <2>2. \/ k = 0 /\ May(f, k + 1) = RI
        \/ k = 1 /\ May(f, k + 1) = {"SCNDX"}
    BY <2>1, TwoPlaces
  <2> QED
    BY <1>13, <2>2 DEF R, I, RI
<1>14. CASE f \in {"DIRECT"}
  <2>1. ShapeOf(f) = <<RI, I>>
    BY <1>14 DEF ShapeOf
  <2>2. \/ k = 0 /\ May(f, k + 1) = RI
        \/ k = 1 /\ May(f, k + 1) = I
    BY <2>1, TwoPlaces
  <2> QED
    BY <1>14, <2>2 DEF R, I, RI
<1>15. CASE f \in {"REX"}
  <2>1. ShapeOf(f) = <<I, R>>
    BY <1>15 DEF ShapeOf
  <2>2. \/ k = 0 /\ May(f, k + 1) = I
        \/ k = 1 /\ May(f, k + 1) = R
    BY <2>1, TwoPlaces
  <2> QED
    BY <1>15, <2>2 DEF R, I, RI
<1>16. CASE f \in {"ATOM", "BITS16", "BITS40", "J4", "PFX", "SYNC"}
  <2>1. ShapeOf(f) = <<I>>
    BY <1>16 DEF ShapeOf
  <2>2. \/ k = 0 /\ May(f, k + 1) = I
    BY <2>1, OnePlaces
  <2> QED
    BY <1>16, <2>2 DEF R, I, RI
<1>17. CASE f \in {"REP"}
  <2>1. ShapeOf(f) = <<I, I>>
    BY <1>17 DEF ShapeOf
  <2>2. \/ k = 0 /\ May(f, k + 1) = I
        \/ k = 1 /\ May(f, k + 1) = I
    BY <2>1, TwoPlaces
  <2> QED
    BY <1>17, <2>2 DEF R, I, RI
<1>18. CASE f \in {"PADI", "RTS", "VMASK"}
  <2>1. ShapeOf(f) = <<>>
    BY <1>18 DEF ShapeOf
  <2> QED
    BY <2>1, NoPlaces
<1> QED
  BY <1>1, <1>2, <1>3, <1>4, <1>5, <1>6, <1>7, <1>8, <1>9, <1>10, <1>11, <1>12, <1>13, <1>14, <1>15, <1>16, <1>17, <1>18 DEF Open

(* What a row fixes is apart from the lanes of its operands.               *)
Shared(r) ==
  \/ r.fixed \cap {"FUNC3", "IPR", "LSSIZE", "IM2"} # {}
  \/ r.f = "PRED" /\ Len(r.ops) = 3
  \/ r.f = "SCNDX" /\ r.ops[1] = {"IMM"}

LEMMA FixedPlaces ==
  /\ \A x \in Behind : x \in DOMAIN FixedFields /\ SpanOf(FixedFields[x]) \subseteq 35..63
  /\ \A x \in OverThird : x \in DOMAIN FixedFields /\ SpanOf(FixedFields[x]) \subseteq 21..27
  /\ \A x \in OverFourth : x \in DOMAIN FixedFields /\ SpanOf(FixedFields[x]) \subseteq 28..34
  /\ \A x \in {"CM", "COND", "BFN"} : x \in DOMAIN FixedFields /\ SpanOf(FixedFields[x]) \subseteq 7..10
  /\ SpanOf(FixedFields["BRMS"]) \subseteq 11..13 /\ SpanOf(FixedFields["INCDEC"]) \subseteq 46..46
  /\ SpanOf(FixedFields["LSFUNC"]) \subseteq 60..63 /\ SpanOf(FixedFields["S"]) \subseteq 44..47
  /\ SpanOf(FixedFields["FMT2"]) \subseteq 38..39 /\ SpanOf(FixedFields["RD"]) \subseteq 7..13
  /\ SpanOf(FixedFields["R2FUNC"]) \subseteq 41..47
<1>1. ASSUME NEW n \in Nat, NEW at \in Nat PROVE SpanOf(Field(n, at)) = at .. at + n - 1
  BY DEF SpanOf, Field
<1>3. "FUNC5" \in DOMAIN FixedFields /\ SpanOf(FixedFields["FUNC5"]) = 35..39
  <2>1. FixedFields["FUNC5"] = Field(5, 35) /\ "FUNC5" \in DOMAIN FixedFields
    BY DEF FixedFields
  <2>2. 35 + 5 - 1 = 39 /\ 35 \in Nat /\ 5 \in Nat
    OBVIOUS
  <2>3. SpanOf(Field(5, 35)) = 35 .. 35 + 5 - 1
    BY <1>1, <2>2, Zenon
  <2> QED
    BY <2>1, <2>2, <2>3
<1>4. "OP3" \in DOMAIN FixedFields /\ SpanOf(FixedFields["OP3"]) = 35..37
  <2>1. FixedFields["OP3"] = Field(3, 35) /\ "OP3" \in DOMAIN FixedFields
    BY DEF FixedFields
  <2>2. 35 + 3 - 1 = 37 /\ 35 \in Nat /\ 3 \in Nat
    OBVIOUS
  <2>3. SpanOf(Field(3, 35)) = 35 .. 35 + 3 - 1
    BY <1>1, <2>2, Zenon
  <2> QED
    BY <2>1, <2>2, <2>3
<1>5. "OP4" \in DOMAIN FixedFields /\ SpanOf(FixedFields["OP4"]) = 37..40
  <2>1. FixedFields["OP4"] = Field(4, 37) /\ "OP4" \in DOMAIN FixedFields
    BY DEF FixedFields
  <2>2. 37 + 4 - 1 = 40 /\ 37 \in Nat /\ 4 \in Nat
    OBVIOUS
  <2>3. SpanOf(Field(4, 37)) = 37 .. 37 + 4 - 1
    BY <1>1, <2>2, Zenon
  <2> QED
    BY <2>1, <2>2, <2>3
<1>6. "MS3" \in DOMAIN FixedFields /\ SpanOf(FixedFields["MS3"]) = 38..40
  <2>1. FixedFields["MS3"] = Field(3, 38) /\ "MS3" \in DOMAIN FixedFields
    BY DEF FixedFields
  <2>2. 38 + 3 - 1 = 40 /\ 38 \in Nat /\ 3 \in Nat
    OBVIOUS
  <2>3. SpanOf(Field(3, 38)) = 38 .. 38 + 3 - 1
    BY <1>1, <2>2, Zenon
  <2> QED
    BY <2>1, <2>2, <2>3
<1>7. "FMT3" \in DOMAIN FixedFields /\ SpanOf(FixedFields["FMT3"]) = 37..39
  <2>1. FixedFields["FMT3"] = Field(3, 37) /\ "FMT3" \in DOMAIN FixedFields
    BY DEF FixedFields
  <2>2. 37 + 3 - 1 = 39 /\ 37 \in Nat /\ 3 \in Nat
    OBVIOUS
  <2>3. SpanOf(Field(3, 37)) = 37 .. 37 + 3 - 1
    BY <1>1, <2>2, Zenon
  <2> QED
    BY <2>1, <2>2, <2>3
<1>8. "R2FUNC" \in DOMAIN FixedFields /\ SpanOf(FixedFields["R2FUNC"]) = 41..47
  <2>1. FixedFields["R2FUNC"] = Field(7, 41) /\ "R2FUNC" \in DOMAIN FixedFields
    BY DEF FixedFields
  <2>2. 41 + 7 - 1 = 47 /\ 41 \in Nat /\ 7 \in Nat
    OBVIOUS
  <2>3. SpanOf(Field(7, 41)) = 41 .. 41 + 7 - 1
    BY <1>1, <2>2, Zenon
  <2> QED
    BY <2>1, <2>2, <2>3
<1>9. "R3FUNC" \in DOMAIN FixedFields /\ SpanOf(FixedFields["R3FUNC"]) = 41..47
  <2>1. FixedFields["R3FUNC"] = Field(7, 41) /\ "R3FUNC" \in DOMAIN FixedFields
    BY DEF FixedFields
  <2>2. 41 + 7 - 1 = 47 /\ 41 \in Nat /\ 7 \in Nat
    OBVIOUS
  <2>3. SpanOf(Field(7, 41)) = 41 .. 41 + 7 - 1
    BY <1>1, <2>2, Zenon
  <2> QED
    BY <2>1, <2>2, <2>3
<1>10. "BFFUNC" \in DOMAIN FixedFields /\ SpanOf(FixedFields["BFFUNC"]) = 41..47
  <2>1. FixedFields["BFFUNC"] = Field(7, 41) /\ "BFFUNC" \in DOMAIN FixedFields
    BY DEF FixedFields
  <2>2. 41 + 7 - 1 = 47 /\ 41 \in Nat /\ 7 \in Nat
    OBVIOUS
  <2>3. SpanOf(Field(7, 41)) = 41 .. 41 + 7 - 1
    BY <1>1, <2>2, Zenon
  <2> QED
    BY <2>1, <2>2, <2>3
<1>11. "SHFUNC" \in DOMAIN FixedFields /\ SpanOf(FixedFields["SHFUNC"]) = 60..63
  <2>1. FixedFields["SHFUNC"] = Field(4, 60) /\ "SHFUNC" \in DOMAIN FixedFields
    BY DEF FixedFields
  <2>2. 60 + 4 - 1 = 63 /\ 60 \in Nat /\ 4 \in Nat
    OBVIOUS
  <2>3. SpanOf(Field(4, 60)) = 60 .. 60 + 4 - 1
    BY <1>1, <2>2, Zenon
  <2> QED
    BY <2>1, <2>2, <2>3
<1>12. "R1FUNC" \in DOMAIN FixedFields /\ SpanOf(FixedFields["R1FUNC"]) = 21..27
  <2>1. FixedFields["R1FUNC"] = Field(7, 21) /\ "R1FUNC" \in DOMAIN FixedFields
    BY DEF FixedFields
  <2>2. 21 + 7 - 1 = 27 /\ 21 \in Nat /\ 7 \in Nat
    OBVIOUS
  <2>3. SpanOf(Field(7, 21)) = 21 .. 21 + 7 - 1
    BY <1>1, <2>2, Zenon
  <2> QED
    BY <2>1, <2>2, <2>3
<1>13. "FLT1" \in DOMAIN FixedFields /\ SpanOf(FixedFields["FLT1"]) = 22..26
  <2>1. FixedFields["FLT1"] = Field(5, 22) /\ "FLT1" \in DOMAIN FixedFields
    BY DEF FixedFields
  <2>2. 22 + 5 - 1 = 26 /\ 22 \in Nat /\ 5 \in Nat
    OBVIOUS
  <2>3. SpanOf(Field(5, 22)) = 22 .. 22 + 5 - 1
    BY <1>1, <2>2, Zenon
  <2> QED
    BY <2>1, <2>2, <2>3
<1>14. "RB" \in DOMAIN FixedFields /\ SpanOf(FixedFields["RB"]) = 21..27
  <2>1. FixedFields["RB"] = Field(7, 21) /\ "RB" \in DOMAIN FixedFields
    BY DEF FixedFields, RS2
  <2>2. 21 + 7 - 1 = 27 /\ 21 \in Nat /\ 7 \in Nat
    OBVIOUS
  <2>3. SpanOf(Field(7, 21)) = 21 .. 21 + 7 - 1
    BY <1>1, <2>2, Zenon
  <2> QED
    BY <2>1, <2>2, <2>3
<1>15. "BFMB" \in DOMAIN FixedFields /\ SpanOf(FixedFields["BFMB"]) = 21..27
  <2>1. FixedFields["BFMB"] = Field(7, 21) /\ "BFMB" \in DOMAIN FixedFields
    BY DEF FixedFields
  <2>2. 21 + 7 - 1 = 27 /\ 21 \in Nat /\ 7 \in Nat
    OBVIOUS
  <2>3. SpanOf(Field(7, 21)) = 21 .. 21 + 7 - 1
    BY <1>1, <2>2, Zenon
  <2> QED
    BY <2>1, <2>2, <2>3
<1>16. "RS3" \in DOMAIN FixedFields /\ SpanOf(FixedFields["RS3"]) = 28..34
  <2>1. FixedFields["RS3"] = Field(7, 28) /\ "RS3" \in DOMAIN FixedFields
    BY DEF FixedFields, RS3
  <2>2. 28 + 7 - 1 = 34 /\ 28 \in Nat /\ 7 \in Nat
    OBVIOUS
  <2>3. SpanOf(Field(7, 28)) = 28 .. 28 + 7 - 1
    BY <1>1, <2>2, Zenon
  <2> QED
    BY <2>1, <2>2, <2>3
<1>17. "NRB" \in DOMAIN FixedFields /\ SpanOf(FixedFields["NRB"]) = 33..33
  <2>1. FixedFields["NRB"] = Field(1, 33) /\ "NRB" \in DOMAIN FixedFields
    BY DEF FixedFields
  <2>2. 33 + 1 - 1 = 33 /\ 33 \in Nat /\ 1 \in Nat
    OBVIOUS
  <2>3. SpanOf(Field(1, 33)) = 33 .. 33 + 1 - 1
    BY <1>1, <2>2, Zenon
  <2> QED
    BY <2>1, <2>2, <2>3
<1>18. "BFME" \in DOMAIN FixedFields /\ SpanOf(FixedFields["BFME"]) = 28..34
  <2>1. FixedFields["BFME"] = Field(7, 28) /\ "BFME" \in DOMAIN FixedFields
    BY DEF FixedFields
  <2>2. 28 + 7 - 1 = 34 /\ 28 \in Nat /\ 7 \in Nat
    OBVIOUS
  <2>3. SpanOf(Field(7, 28)) = 28 .. 28 + 7 - 1
    BY <1>1, <2>2, Zenon
  <2> QED
    BY <2>1, <2>2, <2>3
<1>19. "CM" \in DOMAIN FixedFields /\ SpanOf(FixedFields["CM"]) = 8..9
  <2>1. FixedFields["CM"] = Field(2, 8) /\ "CM" \in DOMAIN FixedFields
    BY DEF FixedFields
  <2>2. 8 + 2 - 1 = 9 /\ 8 \in Nat /\ 2 \in Nat
    OBVIOUS
  <2>3. SpanOf(Field(2, 8)) = 8 .. 8 + 2 - 1
    BY <1>1, <2>2, Zenon
  <2> QED
    BY <2>1, <2>2, <2>3
<1>20. "COND" \in DOMAIN FixedFields /\ SpanOf(FixedFields["COND"]) = 7..10
  <2>1. FixedFields["COND"] = Field(4, 7) /\ "COND" \in DOMAIN FixedFields
    BY DEF FixedFields
  <2>2. 7 + 4 - 1 = 10 /\ 7 \in Nat /\ 4 \in Nat
    OBVIOUS
  <2>3. SpanOf(Field(4, 7)) = 7 .. 7 + 4 - 1
    BY <1>1, <2>2, Zenon
  <2> QED
    BY <2>1, <2>2, <2>3
<1>21. "BFN" \in DOMAIN FixedFields /\ SpanOf(FixedFields["BFN"]) = 7..10
  <2>1. FixedFields["BFN"] = Field(4, 7) /\ "BFN" \in DOMAIN FixedFields
    BY DEF FixedFields
  <2>2. 7 + 4 - 1 = 10 /\ 7 \in Nat /\ 4 \in Nat
    OBVIOUS
  <2>3. SpanOf(Field(4, 7)) = 7 .. 7 + 4 - 1
    BY <1>1, <2>2, Zenon
  <2> QED
    BY <2>1, <2>2, <2>3
<1>22. "BRMS" \in DOMAIN FixedFields /\ SpanOf(FixedFields["BRMS"]) = 11..13
  <2>1. FixedFields["BRMS"] = Field(3, 11) /\ "BRMS" \in DOMAIN FixedFields
    BY DEF FixedFields
  <2>2. 11 + 3 - 1 = 13 /\ 11 \in Nat /\ 3 \in Nat
    OBVIOUS
  <2>3. SpanOf(Field(3, 11)) = 11 .. 11 + 3 - 1
    BY <1>1, <2>2, Zenon
  <2> QED
    BY <2>1, <2>2, <2>3
<1>23. "INCDEC" \in DOMAIN FixedFields /\ SpanOf(FixedFields["INCDEC"]) = 46..46
  <2>1. FixedFields["INCDEC"] = Field(1, 46) /\ "INCDEC" \in DOMAIN FixedFields
    BY DEF FixedFields
  <2>2. 46 + 1 - 1 = 46 /\ 46 \in Nat /\ 1 \in Nat
    OBVIOUS
  <2>3. SpanOf(Field(1, 46)) = 46 .. 46 + 1 - 1
    BY <1>1, <2>2, Zenon
  <2> QED
    BY <2>1, <2>2, <2>3
<1>24. "LSFUNC" \in DOMAIN FixedFields /\ SpanOf(FixedFields["LSFUNC"]) = 60..63
  <2>1. FixedFields["LSFUNC"] = Field(4, 60) /\ "LSFUNC" \in DOMAIN FixedFields
    BY DEF FixedFields
  <2>2. 60 + 4 - 1 = 63 /\ 60 \in Nat /\ 4 \in Nat
    OBVIOUS
  <2>3. SpanOf(Field(4, 60)) = 60 .. 60 + 4 - 1
    BY <1>1, <2>2, Zenon
  <2> QED
    BY <2>1, <2>2, <2>3
<1>25. "S" \in DOMAIN FixedFields /\ SpanOf(FixedFields["S"]) = 44..47
  <2>1. FixedFields["S"] = Field(4, 44) /\ "S" \in DOMAIN FixedFields
    BY DEF FixedFields
  <2>2. 44 + 4 - 1 = 47 /\ 44 \in Nat /\ 4 \in Nat
    OBVIOUS
  <2>3. SpanOf(Field(4, 44)) = 44 .. 44 + 4 - 1
    BY <1>1, <2>2, Zenon
  <2> QED
    BY <2>1, <2>2, <2>3
<1>26. "FMT2" \in DOMAIN FixedFields /\ SpanOf(FixedFields["FMT2"]) = 38..39
  <2>1. FixedFields["FMT2"] = Field(2, 38) /\ "FMT2" \in DOMAIN FixedFields
    BY DEF FixedFields
  <2>2. 38 + 2 - 1 = 39 /\ 38 \in Nat /\ 2 \in Nat
    OBVIOUS
  <2>3. SpanOf(Field(2, 38)) = 38 .. 38 + 2 - 1
    BY <1>1, <2>2, Zenon
  <2> QED
    BY <2>1, <2>2, <2>3
<1>27. "RD" \in DOMAIN FixedFields /\ SpanOf(FixedFields["RD"]) = 7..13
  <2>1. FixedFields["RD"] = Field(7, 7) /\ "RD" \in DOMAIN FixedFields
    BY DEF FixedFields, RD
  <2>2. 7 + 7 - 1 = 13 /\ 7 \in Nat /\ 7 \in Nat
    OBVIOUS
  <2>3. SpanOf(Field(7, 7)) = 7 .. 7 + 7 - 1
    BY <1>1, <2>2, Zenon
  <2> QED
    BY <2>1, <2>2, <2>3
<1>28. \A x \in Behind : x \in DOMAIN FixedFields /\ SpanOf(FixedFields[x]) \subseteq 35..63
  BY <1>3, <1>4, <1>5, <1>6, <1>7, <1>8, <1>9, <1>10, <1>11 DEF Behind, OverThird, OverFourth
<1>29. \A x \in OverThird : x \in DOMAIN FixedFields /\ SpanOf(FixedFields[x]) \subseteq 21..27
  BY <1>12, <1>13, <1>14, <1>15 DEF Behind, OverThird, OverFourth
<1>30. \A x \in OverFourth : x \in DOMAIN FixedFields /\ SpanOf(FixedFields[x]) \subseteq 28..34
  BY <1>16, <1>17, <1>18 DEF Behind, OverThird, OverFourth
<1>31. \A x \in {"CM", "COND", "BFN"} : x \in DOMAIN FixedFields /\ SpanOf(FixedFields[x]) \subseteq 7..10
  BY <1>19, <1>20, <1>21 DEF Behind, OverThird, OverFourth
<1> QED
  BY <1>28, <1>29, <1>30, <1>31, <1>22, <1>23, <1>24, <1>25, <1>26, <1>27, <1>8

LEMMA FreeLane ==
  ASSUME NEW r, NEW lane, lane \subseteq 7..47,
         \A x \in r.fixed : SpanOf(FixedFields[x]) \cap lane = {},
         "INTI" \in r.tags => lane \subseteq 7..45
  PROVE  lane \cap FixedBits(r) = {}
<1> DEFINE fixed == Span({FixedFields[x] : x \in r.fixed})
           inti == IF "INTI" \in r.tags THEN {46, 47} ELSE {}
<1>1. FixedBits(r) \subseteq 0..6 \cup fixed \cup inti
  BY DEF FixedBits
<1>2. lane \cap 0..6 = {}
  OBVIOUS
<1>3. lane \cap fixed = {}
  BY DEF Span, SpanOf
<1>4. lane \cap inti = {}
  OBVIOUS
<1> HIDE DEF fixed, inti
<1> QED
  BY <1>1, <1>2, <1>3, <1>4

(* Every lane of a format within a range                                   *)
LEMMA LanesWithin ==
  ASSUME NEW f, NEW n, NEW k \in Nat, NEW z
  PROVE  /\ \A a : Lanes(f, n) = <<a>> /\ a \subseteq z => Lane(f, n, k) \subseteq z
         /\ \A a, b : Lanes(f, n) = <<a, b>> /\ a \subseteq z /\ b \subseteq z => Lane(f, n, k) \subseteq z
         /\ \A a, b, c : Lanes(f, n) = <<a, b, c>> /\ a \subseteq z /\ b \subseteq z /\ c \subseteq z
               => Lane(f, n, k) \subseteq z
         /\ \A a, b, c, d : Lanes(f, n) = <<a, b, c, d>> => k \in 0..3 \/ Lane(f, n, k) = {}
<1>1. ASSUME NEW a, Lanes(f, n) = <<a>>, a \subseteq z PROVE Lane(f, n, k) \subseteq z
  <2>1. k + 1 \in DOMAIN Lanes(f, n) => Lanes(f, n)[k + 1] = a
    BY <1>1
  <2> QED
    BY <1>1, <2>1 DEF Lane
<1>2. ASSUME NEW a, NEW b, Lanes(f, n) = <<a, b>>, a \subseteq z, b \subseteq z PROVE Lane(f, n, k) \subseteq z
  <2>1. k + 1 \in DOMAIN Lanes(f, n) => Lanes(f, n)[k + 1] = a \/ Lanes(f, n)[k + 1] = b
    BY <1>2
  <2> QED
    BY <1>2, <2>1 DEF Lane
<1>3. ASSUME NEW a, NEW b, NEW c, Lanes(f, n) = <<a, b, c>>, a \subseteq z, b \subseteq z, c \subseteq z
      PROVE  Lane(f, n, k) \subseteq z
  <2>1. k + 1 \in DOMAIN Lanes(f, n) =>
          Lanes(f, n)[k + 1] = a \/ Lanes(f, n)[k + 1] = b \/ Lanes(f, n)[k + 1] = c
    BY <1>3
  <2> QED
    BY <1>3, <2>1 DEF Lane
<1>4. ASSUME NEW a, NEW b, NEW c, NEW d, Lanes(f, n) = <<a, b, c, d>> PROVE k \in 0..3 \/ Lane(f, n, k) = {}
  <2>1. k + 1 \in DOMAIN Lanes(f, n) => k + 1 \in 1..4
    BY <1>4
  <2>2. k + 1 \in 1..4 => k \in 0..3
    OBVIOUS
  <2> QED
    BY <2>1, <2>2 DEF Lane
<1> QED
  BY <1>1, <1>2, <1>3, <1>4

LEMMA LaneBounds ==
  ASSUME NEW f, NEW n, NEW k \in Nat
  PROVE  /\ f = "RI" => Lane(f, n, k) \subseteq 7..45
         /\ f = "B" => Lane(f, n, k) \subseteq 11..44
         /\ f = "BI" => Lane(f, n, k) \subseteq 11..44
         /\ f = "BZ" => Lane(f, n, k) \subseteq 14..44
         /\ f = "ATOM" => Lane(f, n, k) \subseteq 7..30
         /\ f = "J4" => Lane(f, n, k) \subseteq 14..47
         /\ f = "PRED" => Lane(f, n, k) \subseteq 14..37
         /\ f = "SCNDX" => Lane(f, n, k) \subseteq 7..47
         /\ f \in {"RIL", "REP", "PADI", "RTS", "VMASK"} => Lane(f, n, k) = {}
         /\ f \in OfRegisters => k \in 0..3 \/ Lane(f, n, k) = {}
<1>1. ASSUME f = "RI" PROVE Lane(f, n, k) \subseteq 7..45
  <2> DEFINE a == 7..13
             b == 14..20
             c == 21..45
             z == 7..45
  <2>1. Lanes(f, n) = <<a, b, c>>
    BY <1>1 DEF Lanes, OfRegisters
  <2>2. a \subseteq z /\ b \subseteq z /\ c \subseteq z
    OBVIOUS
  <2> HIDE DEF a, b, c, z
  <2>3. Lane(f, n, k) \subseteq z
    BY <2>1, <2>2, LanesWithin
  <2> QED
    BY <2>3 DEF z
<1>2. ASSUME f = "B" PROVE Lane(f, n, k) \subseteq 11..44
  <2> DEFINE a == {11} \cup 14..20
             b == {12} \cup 21..27
             c == 28..44
             z == 11..44
  <2>1. Lanes(f, n) = <<a, b, c>>
    BY <1>2 DEF Lanes, OfRegisters
  <2>2. a \subseteq z /\ b \subseteq z /\ c \subseteq z
    OBVIOUS
  <2> HIDE DEF a, b, c, z
  <2>3. Lane(f, n, k) \subseteq z
    BY <2>1, <2>2, LanesWithin
  <2> QED
    BY <2>3 DEF z
<1>3. ASSUME f = "BI" PROVE Lane(f, n, k) \subseteq 11..44
  <2> DEFINE a == 14..20
             b == {12} \cup 21..27
             c == 28..44
             z == 11..44
  <2>1. Lanes(f, n) = <<a, b, c>>
    BY <1>3 DEF Lanes, OfRegisters
  <2>2. a \subseteq z /\ b \subseteq z /\ c \subseteq z
    OBVIOUS
  <2> HIDE DEF a, b, c, z
  <2>3. Lane(f, n, k) \subseteq z
    BY <2>1, <2>2, LanesWithin
  <2> QED
    BY <2>3 DEF z
<1>4. ASSUME f = "BZ" PROVE Lane(f, n, k) \subseteq 14..44
  <2> DEFINE a == 14..20
             b == 28..44
             z == 14..44
  <2>1. Lanes(f, n) = <<a, b>>
    BY <1>4 DEF Lanes, OfRegisters
  <2>2. a \subseteq z /\ b \subseteq z
    OBVIOUS
  <2> HIDE DEF a, b, z
  <2>3. Lane(f, n, k) \subseteq z
    BY <2>1, <2>2, LanesWithin
  <2> QED
    BY <2>3 DEF z
<1>5. ASSUME f = "ATOM" PROVE Lane(f, n, k) \subseteq 7..30
  <2> DEFINE a == 7..30
             z == 7..30
  <2>1. Lanes(f, n) = <<a>>
    BY <1>5 DEF Lanes, OfRegisters
  <2>2. a \subseteq z
    OBVIOUS
  <2> HIDE DEF a, z
  <2>3. Lane(f, n, k) \subseteq z
    BY <2>1, <2>2, LanesWithin
  <2> QED
    BY <2>3 DEF z
<1>6. ASSUME f = "J4" PROVE Lane(f, n, k) \subseteq 14..47
  <2> DEFINE a == 14..47
             z == 14..47
  <2>1. Lanes(f, n) = <<a>>
    BY <1>6 DEF Lanes, OfRegisters
  <2>2. a \subseteq z
    OBVIOUS
  <2> HIDE DEF a, z
  <2>3. Lane(f, n, k) \subseteq z
    BY <2>1, <2>2, LanesWithin
  <2> QED
    BY <2>3 DEF z
<1>7. ASSUME f = "PRED" PROVE Lane(f, n, k) \subseteq 14..37
  <2> DEFINE a == 14..20
             b == 22..37
             z == 14..37
  <2>1. Lanes(f, n) = <<a, b>>
    BY <1>7 DEF Lanes, OfRegisters
  <2>2. a \subseteq z /\ b \subseteq z
    OBVIOUS
  <2> HIDE DEF a, b, z
  <2>3. Lane(f, n, k) \subseteq z
    BY <2>1, <2>2, LanesWithin
  <2> QED
    BY <2>3 DEF z
<1>8. ASSUME f = "SCNDX" PROVE Lane(f, n, k) \subseteq 7..47
  <2> DEFINE a == 7..13
             b == 14..47
             z == 7..47
  <2>1. Lanes(f, n) = <<a, b>>
    BY <1>8 DEF Lanes, OfRegisters
  <2>2. a \subseteq z /\ b \subseteq z
    OBVIOUS
  <2> HIDE DEF a, b, z
  <2>3. Lane(f, n, k) \subseteq z
    BY <2>1, <2>2, LanesWithin
  <2> QED
    BY <2>3 DEF z
<1>9. ASSUME f \in {"RIL", "REP", "PADI", "RTS", "VMASK"} PROVE Lane(f, n, k) = {}
  <2>1. Lanes(f, n) = <<>>
    BY <1>9 DEF Lanes, OfRegisters
  <2> QED
    BY <2>1 DEF Lane
<1>10. ASSUME f \in OfRegisters PROVE k \in 0..3 \/ Lane(f, n, k) = {}
  <2>1. Lanes(f, n) = <<7..13, 14..20, 21..27, 28..34>>
    BY <1>10, ZenonT(30) DEF Lanes, OfRegisters
  <2> QED
    BY <2>1, LanesWithin
<1> QED
  BY <1>1, <1>2, <1>3, <1>4, <1>5, <1>6, <1>7, <1>8, <1>9, <1>10

LEMMA LanesFree ==
  ASSUME NEW r, GoodRow(r), r.f \in Open, ~Shared(r), NEW k \in 0..Len(r.ops) - 1,
         ~(r.f = "SCNDX" /\ k = 1)
  PROVE  Lane(r.f, Len(r.ops), k) \cap FixedBits(r) = {}
<1> DEFINE n == Len(r.ops)
           lane == Lane(r.f, n, k)
<1>1. n \in Nat /\ k \in Nat /\ k < n
  BY DEF GoodRow, Slots
<1>2. Fixes(r.f, r.fixed, r.tags, n)
  BY DEF GoodRow
<1> HIDE DEF n
<1>3. lane \subseteq 7..47
  BY <1>1, LanesApart, Zenon
<1>4. "INTI" \in r.tags => lane \subseteq 7..45
  BY <1>1, <1>2, LaneBounds, Zenon DEF Fixes
<1>5. SUFFICES \A x \in r.fixed : SpanOf(FixedFields[x]) \cap lane = {}
  BY <1>3, <1>4, FreeLane, Zenon DEF n
<1>6. SUFFICES ASSUME NEW x \in r.fixed PROVE SpanOf(FixedFields[x]) \cap lane = {}
  OBVIOUS
<1>7. x \notin {"FUNC3", "IPR", "LSSIZE", "IM2"}
  BY DEF Shared
<1>8. ASSUME NEW a, NEW b, SpanOf(FixedFields[x]) \subseteq a, lane \subseteq b, a \cap b = {}
      PROVE  SpanOf(FixedFields[x]) \cap lane = {}
  BY <1>8
<1>9. CASE lane = {}
  BY <1>9
<1>10. CASE r.f \in OfRegisters
  <2>1. r.fixed \subseteq Behind \cup OverThird \cup OverFourth
    BY <1>2, <1>10 DEF Fixes, Shared
  <2>2. (x \in OverThird => n <= 2) /\ (x \in OverFourth => n <= 3)
    BY <1>2, <1>10 DEF Fixes, Shared
  <2>3. k \in 0..3 \/ lane = {}
    BY <1>1, <1>10, LaneBounds
  <2>4. CASE k \in {0, 1}
    <3>1. lane \subseteq 7..20
      <4>1. lane = 7..13 \/ lane = 14..20
        BY <1>10, <2>4, LaneValues
      <4> QED
        BY <4>1
    <3>2. SpanOf(FixedFields[x]) \subseteq 21..63
      <4> DEFINE p == SpanOf(FixedFields[x])
      <4>1. p \subseteq 35..63 \/ p \subseteq 21..27 \/ p \subseteq 28..34
        BY <2>1, FixedPlaces, ZenonT(30)
      <4> HIDE DEF p
      <4>2. 35..63 \subseteq 21..63 /\ 21..27 \subseteq 21..63 /\ 28..34 \subseteq 21..63
        OBVIOUS
      <4>3. p \subseteq 21..63
        BY <4>1, <4>2, Zenon
      <4> QED
        BY <4>3 DEF p
    <3>3. (21..63) \cap (7..20) = {}
      OBVIOUS
    <3> QED
      BY <1>8, <3>1, <3>2, <3>3, Zenon
  <2>5. CASE k = 2
    <3>1. lane \subseteq 21..27
      BY <1>10, <2>5, LaneValues
    <3>2. x \in Behind \/ x \in OverFourth
      BY <1>1, <2>1, <2>2, <2>5
    <3>3. SpanOf(FixedFields[x]) \subseteq 28..63
      <4> DEFINE p == SpanOf(FixedFields[x])
      <4>1. p \subseteq 35..63 \/ p \subseteq 28..34
        BY <3>2, FixedPlaces, ZenonT(30)
      <4> HIDE DEF p
      <4>2. 35..63 \subseteq 28..63 /\ 28..34 \subseteq 28..63
        OBVIOUS
      <4>3. p \subseteq 28..63
        BY <4>1, <4>2, Zenon
      <4> QED
        BY <4>3 DEF p
    <3>4. (28..63) \cap (21..27) = {}
      OBVIOUS
    <3> QED
      BY <1>8, <3>1, <3>3, <3>4, Zenon
  <2>6. CASE k = 3
    <3>1. lane \subseteq 28..34
      BY <1>10, <2>6, LaneValues
    <3>2. x \in Behind
      BY <1>1, <2>1, <2>2, <2>6
    <3>3. SpanOf(FixedFields[x]) \subseteq 35..63
      BY <3>2, FixedPlaces, ZenonT(30)
    <3>4. (35..63) \cap (28..34) = {}
      OBVIOUS
    <3> QED
      BY <1>8, <3>1, <3>3, <3>4, Zenon
  <2>7. k \in 0..3 => k \in {0, 1} \/ k = 2 \/ k = 3
    OBVIOUS
  <2> QED
    BY <1>9, <2>3, <2>4, <2>5, <2>6, <2>7
<1>11. CASE r.f \in Bare \cup {"RI", "DIRECT", "REGIND"}
  BY <1>2, <1>7, <1>11 DEF Fixes
<1>12. CASE r.f = "SCNDX"
  <2>1. x \in {"LSFUNC", "S"}
    BY <1>2, <1>7, <1>12 DEF Fixes
  <2>2. SpanOf(FixedFields[x]) \subseteq 44..63
    <3> DEFINE p == SpanOf(FixedFields[x])
    <3>1. p \subseteq 60..63 \/ p \subseteq 44..47
      BY <2>1, FixedPlaces, ZenonT(30)
    <3> HIDE DEF p
    <3>2. p \subseteq 44..63
      BY <3>1
    <3> QED
      BY <3>2 DEF p
  <2>3. k = 0 \/ lane = {}
    <3>1. Lanes(r.f, n) = <<7..13, 14..47>>
      BY <1>12 DEF Lanes, OfRegisters
    <3>2. k + 1 \in DOMAIN Lanes(r.f, n) => k = 0 \/ k = 1
      BY <3>1, <1>1
    <3> QED
      BY <3>2, <1>12 DEF Lane
  <2>4. CASE k = 0
    <3>1. lane \subseteq 7..13
      BY <1>12, <2>4, LaneValues
    <3>2. (44..63) \cap (7..13) = {}
      OBVIOUS
    <3> QED
      BY <1>8, <2>2, <3>1, <3>2, Zenon
  <2> QED
    BY <1>9, <2>3, <2>4
<1>13. CASE r.f \in {"B", "BI"}
  <2>1. x \in {"CM", "COND", "BFN"} \/ x = "INCDEC"
    BY <1>2, <1>13 DEF Fixes
  <2>2. lane \subseteq 11..44
    BY <1>1, <1>13, LaneBounds, Zenon
  <2>3. (7..10) \cap (11..44) = {} /\ (46..46) \cap (11..44) = {}
    OBVIOUS
  <2>4. SpanOf(FixedFields[x]) \subseteq 7..10 \/ SpanOf(FixedFields[x]) \subseteq 46..46
    BY <2>1, FixedPlaces
  <2> QED
    BY <1>8, <2>2, <2>3, <2>4, Zenon
<1>14. CASE r.f = "BZ"
  <2>1. x \in {"CM", "COND", "BFN"} \/ x = "BRMS"
    BY <1>2, <1>14 DEF Fixes
  <2>2. lane \subseteq 14..44
    BY <1>1, <1>14, LaneBounds, Zenon
  <2>3. (7..10) \cap (14..44) = {} /\ (11..13) \cap (14..44) = {}
    OBVIOUS
  <2>4. SpanOf(FixedFields[x]) \subseteq 7..10 \/ SpanOf(FixedFields[x]) \subseteq 11..13
    BY <2>1, FixedPlaces
  <2> QED
    BY <1>8, <2>2, <2>3, <2>4, Zenon
<1>15. CASE r.f = "ATOM"
  <2>1. x = "FMT2"
    BY <1>2, <1>15 DEF Fixes
  <2>2. lane \subseteq 7..30 /\ SpanOf(FixedFields[x]) \subseteq 38..39
    BY <1>1, <1>15, <2>1, LaneBounds, FixedPlaces, Zenon
  <2>3. (38..39) \cap (7..30) = {}
    OBVIOUS
  <2> QED
    BY <1>8, <2>2, <2>3, Zenon
<1>16. CASE r.f = "J4"
  <2>1. x = "RD"
    BY <1>2, <1>16 DEF Fixes
  <2>2. lane \subseteq 14..47 /\ SpanOf(FixedFields[x]) \subseteq 7..13
    BY <1>1, <1>16, <2>1, LaneBounds, FixedPlaces, ZenonT(30)
  <2>3. (7..13) \cap (14..47) = {}
    OBVIOUS
  <2> QED
    BY <1>8, <2>2, <2>3, Zenon
<1>17. CASE r.f = "PRED"
  <2>1. n = 2
    <3>1. Extra(r.f, r.ops)
      BY DEF GoodRow
    <3> QED
      BY <1>17, <3>1 DEF Extra, Shared, n
  <2>2. x \in {"CM", "COND", "BFN"} \/ x = "R2FUNC"
    BY <1>2, <1>17, <2>1 DEF Fixes
  <2>3. lane \subseteq 14..37
    BY <1>1, <1>17, LaneBounds, Zenon
  <2>4. SpanOf(FixedFields[x]) \subseteq 7..10 \/ SpanOf(FixedFields[x]) \subseteq 41..47
    BY <2>2, FixedPlaces
  <2>5. (7..10) \cap (14..37) = {} /\ (41..47) \cap (14..37) = {}
    OBVIOUS
  <2> QED
    BY <1>8, <2>3, <2>4, <2>5, ZenonT(30)
<1>18. CASE r.f \in {"RIL", "REP", "PADI", "RTS", "VMASK"}
  BY <1>1, <1>9, <1>18, LaneBounds
<1> QED
  BY <1>10, <1>11, <1>12, <1>13, <1>14, <1>15, <1>16, <1>17, <1>18 DEF Open, OfRegisters, Bare

(* A scaled index has its displacement and the index register in front of  *)
(* the function of the row, which is why its lane is all of the rest.      *)
LEMMA DisplacementFree ==
  ASSUME NEW r, GoodRow(r), r.f = "SCNDX", ~Shared(r)
  PROVE  (28..43) \cap FixedBits(r) = {}
<1>1. Fixes(r.f, r.fixed, r.tags, Len(r.ops))
  BY DEF GoodRow
<1>2. r.fixed \subseteq {"LSFUNC", "S"} /\ "INTI" \notin r.tags
  BY <1>1 DEF Fixes, Shared
<1>3. ASSUME NEW x \in r.fixed PROVE SpanOf(FixedFields[x]) \cap (28..43) = {}
  <2> DEFINE p == SpanOf(FixedFields[x])
  <2>1. p \subseteq 60..63 \/ p \subseteq 44..47
    BY <1>2, FixedPlaces
  <2> HIDE DEF p
  <2>2. p \cap (28..43) = {}
    BY <2>1
  <2> QED
    BY <2>2 DEF p
<1>4. 28..43 \subseteq 7..47
  OBVIOUS
<1> DEFINE lane == 28..43
<1> HIDE DEF lane
<1>5. lane \cap FixedBits(r) = {}
  BY <1>2, <1>3, <1>4, FreeLane, Zenon DEF lane
<1> QED
  BY <1>5 DEF lane

(* Each operand stays in its lane: registers, ...                          *)
LEMMA RegisterLies ==
  ASSUME NEW f \in Open, NEW n, NEW k \in Nat, "REG" \in May(f, k + 1),
         f = "R3RR" => n = 4 \/ k \in {0, 1, 2},
         f = "PRED" => k = 0
  PROVE  Lies({RegField(f, k)}, Lane(f, n, k))
<1> DEFINE goal == Lies({RegField(f, k)}, Lane(f, n, k))
<1>0. /\ Lies({RD}, 7..13) /\ Lies({RS1}, 14..20) /\ Lies({RS2}, 21..27) /\ Lies({RS3}, 28..34)
      /\ \A lane : Lies({NoField}, lane)
  BY LiesNamed, Zenon
<1>1. \/ f \in {"R1", "MV", "RI", "RIB", "RIL", "PRED", "B"} /\ k \in {0, 1}
      \/ f \in {"R2", "R4", "SH", "R3", "R3RR"} /\ k \in {0, 1, 2, 3}
      \/ f \in {"R2S"} /\ k \in {0, 1, 2}
      \/ f \in {"RIA"} /\ k \in {0, 2}
      \/ f \in {"BI", "BZ", "REGIND", "SCNDX", "DIRECT"} /\ k \in {0}
      \/ f \in {"REX"} /\ k \in {1}
  BY OpenPlaces
<1>2. CASE f \in {"R1", "MV", "RI", "RIB"} /\ k = 0
  <2>1. RegField(f, k) = RD
    BY <1>2, RegisterFields
  <2>2. Lane(f, n, k) = 7..13
    BY <1>2, LaneValues DEF OfRegisters
  <2> QED
    BY <1>0, <2>1, <2>2
<1>3. CASE f \in {"R1", "MV", "RI", "RIB"} /\ k = 1
  <2>1. RegField(f, k) = RS1
    BY <1>3, RegisterFields
  <2>2. Lane(f, n, k) = 14..20
    BY <1>3, LaneValues DEF OfRegisters
  <2> QED
    BY <1>0, <2>1, <2>2
<1>4. CASE f = "PRED" /\ k = 0
  <2>1. RegField(f, k) = RS1
    BY <1>4, RegisterFields
  <2>2. Lane(f, n, k) = 14..20
    BY <1>4, LaneValues DEF OfRegisters
  <2> QED
    BY <1>0, <2>1, <2>2
<1>5. CASE f \in {"R2", "R4", "SH", "R3"} /\ k = 0
  <2>1. RegField(f, k) = RD
    BY <1>5, RegisterFields
  <2>2. Lane(f, n, k) = 7..13
    BY <1>5, LaneValues DEF OfRegisters
  <2> QED
    BY <1>0, <2>1, <2>2
<1>6. CASE f \in {"R2", "R4", "SH", "R3"} /\ k = 1
  <2>1. RegField(f, k) = RS1
    BY <1>6, RegisterFields
  <2>2. Lane(f, n, k) = 14..20
    BY <1>6, LaneValues DEF OfRegisters
  <2> QED
    BY <1>0, <2>1, <2>2
<1>7. CASE f \in {"R2", "R4", "SH", "R3"} /\ k = 2
  <2>1. RegField(f, k) = RS2
    BY <1>7, RegisterFields
  <2>2. Lane(f, n, k) = 21..27
    BY <1>7, LaneValues DEF OfRegisters
  <2> QED
    BY <1>0, <2>1, <2>2
<1>8. CASE f \in {"R4", "SH", "R3"} /\ k = 3
  <2>1. RegField(f, k) = RS3
    BY <1>8, RegisterFields
  <2>2. Lane(f, n, k) = 28..34
    BY <1>8, LaneValues DEF OfRegisters
  <2> QED
    BY <1>0, <2>1, <2>2
<1>9. CASE f \in {"RIA"} /\ k = 0
  <2>1. RegField(f, k) = RD
    BY <1>9, RegisterFields
  <2>2. Lane(f, n, k) = 7..13
    BY <1>9, LaneValues DEF OfRegisters
  <2> QED
    BY <1>0, <2>1, <2>2
<1>10. CASE f = "RIA" /\ k = 2
  <2>1. RegField(f, k) = RS2
    BY <1>10, RegisterFields
  <2>2. Lane(f, n, k) = 21..27
    BY <1>10, LaneValues DEF OfRegisters
  <2> QED
    BY <1>0, <2>1, <2>2
<1>12. CASE f \in {"BI", "BZ"} /\ k = 0
  <2>1. RegField(f, k) = RS1
    BY <1>12, RegisterFields
  <2>2. Lane(f, n, k) = 14..20
    BY <1>12, LaneValues DEF OfRegisters
  <2> QED
    BY <1>0, <2>1, <2>2
<1>13. CASE f \in {"REGIND", "SCNDX", "DIRECT"} /\ k = 0
  <2>1. RegField(f, k) = RD
    BY <1>13, RegisterFields
  <2>2. Lane(f, n, k) = 7..13
    BY <1>13, LaneValues DEF OfRegisters
  <2> QED
    BY <1>0, <2>1, <2>2
<1>14. CASE f = "B" /\ k = 0
  <2>1. RegField(f, k) = RS1
    BY <1>14, RegisterFields
  <2>2. Lane(f, n, k) = ({11} \cup 14..20)
    BY <1>14, LaneValues DEF OfRegisters
  <2>3. 14..20 \subseteq ({11} \cup 14..20)
    OBVIOUS
  <2> QED
    BY <1>0, <2>1, <2>2, <2>3, LiesMore
<1>15. CASE f = "B" /\ k = 1
  <2>1. RegField(f, k) = RS2
    BY <1>15, RegisterFields
  <2>2. Lane(f, n, k) = ({12} \cup 21..27)
    BY <1>15, LaneValues DEF OfRegisters
  <2>3. 21..27 \subseteq ({12} \cup 21..27)
    OBVIOUS
  <2> QED
    BY <1>0, <2>1, <2>2, <2>3, LiesMore
<1>16. CASE f = "R2" /\ k = 3
  <2>1. RegFieldsA["R2"] = <<RD, RS1, RS2>> /\ RegField(f, k) = Nth(RegFieldsA["R2"], k)
    BY <1>16, TableDomains DEF RegField, RegFieldsA
  <2>2. RegField(f, k) = NoField
    BY <1>16, <2>1 DEF Nth
  <2> QED
    BY <1>0, <2>2, Zenon
<1>17. CASE f = "R2S" /\ k \in {0, 1, 2}
  <2>1. 7 + 5 - 1 = 11 /\ 14 + 5 - 1 = 18 /\ 21 + 5 - 1 = 25
    OBVIOUS
  <2>2. /\ Lies({<<0, 5, 7>>}, 7 .. 7 + 5 - 1) /\ Lies({<<0, 5, 14>>}, 14 .. 14 + 5 - 1)
        /\ Lies({<<0, 5, 21>>}, 21 .. 21 + 5 - 1)
    BY LiesField, Zenon
  <2>3. Lies({Field(5, 7)}, 7..11) /\ Lies({Field(5, 14)}, 14..18) /\ Lies({Field(5, 21)}, 21..25)
    BY <2>1, <2>2 DEF Field
  <2>4. 7..11 \subseteq 7..13 /\ 14..18 \subseteq 14..20 /\ 21..25 \subseteq 21..27
    OBVIOUS
  <2>5. Lies({Field(5, 7)}, 7..13) /\ Lies({Field(5, 14)}, 14..20) /\ Lies({Field(5, 21)}, 21..27)
    BY <2>3, <2>4, LiesMore
  <2>6. Lane(f, n, 0) = 7..13 /\ Lane(f, n, 1) = 14..20 /\ Lane(f, n, 2) = 21..27
    BY <1>17, LaneValues DEF OfRegisters
  <2>7. RegField(f, 0) = Field(5, 7) /\ RegField(f, 1) = Field(5, 14) /\ RegField(f, 2) = Field(5, 21)
    BY <1>17, RegisterFields
  <2> QED
    BY <1>17, <2>5, <2>6, <2>7, Zenon
<1>18. CASE f = "R3RR" /\ k \in {0, 1}
  <2>1. Lane(f, n, 0) = 7..13 /\ Lane(f, n, 1) = 14..20
    BY <1>18, LaneValues
  <2>2. RegField(f, 0) = RD /\ RegField(f, 1) = RS1
    BY <1>18, RegisterFields
  <2> QED
    BY <1>0, <1>18, <2>1, <2>2, Zenon
<1>19. CASE f = "R3RR" /\ k \in {2, 3}
  <2>1. RegField(f, 2) = RS2 /\ RegField(f, 3) = RS3
    BY <1>19, RegisterFields
  <2>2. CASE n = 4
    <3>1. Lane(f, n, 2) = 21..27 /\ Lane(f, n, 3) = 28..34
      BY <1>19, <2>2, LaneValues
    <3> QED
      BY <1>0, <1>19, <2>1, <3>1
  <2>3. CASE n # 4
    <3>1. k = 2 /\ Lane(f, n, 2) = 21..39
      BY <1>19, <2>3, LaneValues
    <3>2. 21..27 \subseteq 21..39
      OBVIOUS
    <3>3. Lies({RS2}, 21..39)
      BY <1>0, <3>2, LiesMore
    <3> QED
      BY <2>1, <3>1, <3>3
  <2> QED
    BY <2>2, <2>3
<1>20. CASE f \in {"RIL", "REX"}
  <2>1. RegField(f, k) = NoField
    BY <1>20, RegisterFields
  <2> QED
    BY <1>0, <2>1
<1> HIDE DEF goal
<1> QED
  BY <1>1, <1>2, <1>3, <1>4, <1>5, <1>6, <1>7, <1>8, <1>9, <1>10, <1>12, <1>13, <1>14, <1>15, <1>16, <1>17, <1>18, <1>19, <1>20 DEF goal

(* ... constants, ...                                                      *)
LEMMA OpenPieces ==
  /\ {"R3", "ATOM", "SYNC", "RIL", "REP", "RISH", "ENTER"} \subseteq DOMAIN ConstantPieces
  /\ DOMAIN ConstantPieces \cap
           {"R3RR", "REX", "BITS16", "BITS40", "PFX", "RIA", "RIB", "REGIND", "RI", "DIRECT"} = {}
  /\ {"ATOM", "RIL", "REP", "RISH"} \subseteq DOMAIN LabelPieces /\ DOMAIN LabelPieces \cap {"RI", "DIRECT"} = {}
  /\ Pieces(ConstantPieces, "R3", 2) = {RS2} /\ Pieces(ConstantPieces, "R3", 3) = {RS3}
  /\ Pieces(ConstantPieces, "ATOM", 0) = {Field(24, 7)} /\ Pieces(LabelPieces, "ATOM", 0) = {Field(24, 7)}
  /\ Pieces(ConstantPieces, "SYNC", 0) = {Field(19, 10)}
  /\ \A k \in 0..3 : Pieces(ConstantPieces, "RIL", k) = {} /\ Pieces(ConstantPieces, "REP", k) = {}
  /\ \A k \in 0..3 : Pieces(LabelPieces, "RIL", k) = {} /\ Pieces(LabelPieces, "REP", k) = {}
<1>1. /\ {"R3", "ATOM", "SYNC", "RIL", "REP", "RISH", "ENTER"} \subseteq DOMAIN ConstantPieces
      /\ DOMAIN ConstantPieces \cap
           {"R3RR", "REX", "BITS16", "BITS40", "PFX", "RIA", "RIB", "REGIND", "RI", "DIRECT"} = {}
  BY DEF ConstantPieces
<1>2. {"ATOM", "RIL", "REP", "RISH"} \subseteq DOMAIN LabelPieces /\ DOMAIN LabelPieces \cap {"RI", "DIRECT"} = {}
  BY DEF LabelPieces
<1>3. ConstantPieces["R3"] = <<{}, {}, {RS2}, {RS3}>>
  BY DEF ConstantPieces, None
<1>4. /\ ConstantPieces["ATOM"] = Each({Field(24, 7)}) /\ ConstantPieces["SYNC"] = Each({Field(19, 10)})
      /\ ConstantPieces["RIL"] = Each({}) /\ ConstantPieces["REP"] = Each({})
  BY DEF ConstantPieces, None
<1>5. /\ LabelPieces["ATOM"] = Each({Field(24, 7)})
      /\ LabelPieces["RIL"] = Each({}) /\ LabelPieces["REP"] = Each({})
  BY DEF LabelPieces, None
<1>6. ASSUME NEW table, NEW f, NEW p, table[f] = Each(p), NEW k \in 0..3 PROVE Pieces(table, f, k) = p
  <2>1. k = 0 \/ k = 1 \/ k = 2 \/ k = 3
    OBVIOUS
  <2> QED
    BY <1>6, <2>1 DEF Pieces, Each
<1>7. Pieces(ConstantPieces, "R3", 2) = {RS2} /\ Pieces(ConstantPieces, "R3", 3) = {RS3}
  BY <1>3 DEF Pieces
<1>8. 0 \in 0..3
  OBVIOUS
<1> QED
  BY <1>1, <1>2, <1>4, <1>5, <1>6, <1>7, <1>8

(* What the effect e of an operand leaves alone: all that is fixed, and    *)
(* all that lies outside the lane                                          *)
Kept(e, others, lane, fixed) ==
  /\ Lies(e.pieces, lane)
  /\ Span(e.pieces) \cap fixed = {}
  /\ e.set \subseteq lane \cup 48..63 /\ e.set \cap Span(e.pieces) = {}
  /\ others \subseteq lane /\ others \cap Span(e.pieces) = {}
  /\ e.clear \subseteq lane \cup 48..63
  /\ ~e.all

LEMMA KeptEffect ==
  ASSUME NEW v, NEW pieces, NEW size, NEW lane, NEW fixed, Lies(pieces, lane), Span(pieces) \cap fixed = {},
         NEW others, others \subseteq lane, others \cap Span(pieces) = {}
  PROVE  /\ Kept(Effect(v, pieces, size), others, lane, fixed)
         /\ \A s : Kept(WithPost(Effect(v, pieces, size), s), others, lane, fixed)
<1> DEFINE e == Effect(v, pieces, size)
           x(s) == WithPost(e, s)
<1>1. e.pieces = pieces /\ e.set = {} /\ e.clear = {} /\ e.all = FALSE
  BY DEF Effect
<1>2. \A s : x(s).pieces = pieces /\ x(s).set = {} /\ x(s).clear = {} /\ x(s).all = FALSE
  BY DEF Effect, WithPost
<1> HIDE DEF e, x
<1>3. Kept(e, others, lane, fixed)
  BY <1>1 DEF Kept
<1>4. \A s : Kept(x(s), others, lane, fixed)
  BY <1>2 DEF Kept
<1> QED
  BY <1>3, <1>4 DEF e, x

LEMMA KeptPlain ==
  ASSUME NEW v, NEW pieces, NEW size, NEW lane, NEW fixed, Lies(pieces, lane), lane \cap fixed = {}
  PROVE  /\ Kept(Effect(v, pieces, size), {}, lane, fixed)
         /\ \A s : Kept(WithPost(Effect(v, pieces, size), s), {}, lane, fixed)
<1>1. Span(pieces) \cap fixed = {}
  BY DEF Lies
<1>2. {} \subseteq lane /\ {} \cap Span(pieces) = {}
  OBVIOUS
<1> QED
  BY <1>1, <1>2, KeptEffect

(* The predicate with the first register lies above what is written.       *)
LEMMA PredicateAbove == \A f \in Open : \A k : FirstBits(f, k) \subseteq 54..56
<1>1. \A f \in Open : Always(f) \in {PREDF, NoField}
  BY DEF Always, Open
<1> QED
  BY <1>1, PredicateBits DEF FirstBits

LEMMA KeptRegister ==
  ASSUME NEW v, NEW pieces, NEW size, NEW lane, NEW fixed, Lies(pieces, lane), lane \cap fixed = {},
         lane \subseteq 7..47, NEW bits, bits \subseteq 54..56
  PROVE  Kept(WithSet(Effect(v, pieces, size), bits), {}, lane, fixed)
<1> DEFINE e == WithSet(Effect(v, pieces, size), bits)
<1>1. e.pieces = pieces /\ e.set = bits /\ e.clear = {} /\ e.all = FALSE
  BY DEF Effect, WithSet
<1>2. (7..47) \cap (54..56) = {} /\ 54..56 \subseteq 48..63
  OBVIOUS
<1>3. Span(pieces) \subseteq lane
  BY DEF Lies
<1> DEFINE low == 7..47
           pred == 54..56
           high == 48..63
<1>4. low \cap pred = {} /\ pred \subseteq high /\ lane \subseteq low /\ bits \subseteq pred
  BY <1>2
<1> HIDE DEF e, low, pred, high
<1>5. bits \subseteq lane \cup high /\ bits \cap Span(pieces) = {} /\ Span(pieces) \cap fixed = {}
  BY <1>3, <1>4
<1>6. Kept(e, {}, lane, fixed)
  BY <1>1, <1>5 DEF Kept, high
<1> QED
  BY <1>6 DEF e

LEMMA LiesOther == Lies({Field(8, 23), <<8, 7, 33>>}, 23..39)
<1> DEFINE p == Field(8, 23)
           q == <<8, 7, 33>>
<1>1. p \in Layout /\ q \in Layout /\ SpanOf(p) = 23..30 /\ SpanOf(q) = 33..39
  <2>1. p = <<0, 8, 23>>
    BY DEF Field
  <2>2. 23 + 8 - 1 = 30 /\ 33 + 7 - 1 = 39
    OBVIOUS
  <2> QED
    BY <2>1, <2>2 DEF Layout, SpanOf
<1>2. SpanOf(p) \cap SpanOf(q) = {} /\ SpanOf(q) \cap SpanOf(p) = {}
  <2>1. (23..30) \cap (33..39) = {} /\ (33..39) \cap (23..30) = {}
    OBVIOUS
  <2> QED
    BY <1>1, <2>1
<1>3. 23..30 \subseteq 23..39 /\ 33..39 \subseteq 23..39
  OBVIOUS
<1>4. SpanOf(p) \subseteq 23..39 /\ SpanOf(q) \subseteq 23..39
  BY <1>1, <1>3
<1> DEFINE z == 23..39
<1> HIDE DEF p, q, z
<1>5. SpanOf(p) \subseteq z /\ SpanOf(q) \subseteq z
  BY <1>4 DEF z
<1>6. Apart({p, q})
  BY <1>2 DEF Apart
<1>7. Span({p, q}) \subseteq z
  BY <1>5 DEF Span, SpanOf
<1>8. Lies({p, q}, z)
  BY <1>1, <1>6, <1>7 DEF Lies
<1> QED
  BY <1>8 DEF p, q, z

LEMMA ImmediateKept ==
  ASSUME NEW r, r.f \in Open, NEW n, NEW k \in Nat, "IMM" \in May(r.f, k + 1), ~is_branch(r.f),
         r.f = "R3RR" => n # 4, r.f # "SCNDX",
         NEW fixed, Lane(r.f, n, k) \cap fixed = {}, NEW value, NEW c,
         ~c => r.f \in {"RI", "DIRECT", "ATOM", "RIL", "REP"}
  PROVE  /\ c => Kept(ConstantImmediate(r, value, k), {}, Lane(r.f, n, k), fixed)
         /\ ~c => Kept(LabelImmediate(r, value, k), {}, Lane(r.f, n, k), fixed)
<1> DEFINE v == Negated(r, value)
           lane == Lane(r.f, n, k)
           con == ConstantImmediate(r, value, k)
           lab == LabelImmediate(r, value, k)
<1>0. \A w, pieces, size : Lies(pieces, lane) =>
        /\ Kept(Effect(w, pieces, size), {}, lane, fixed)
        /\ \A s : Kept(WithPost(Effect(w, pieces, size), s), {}, lane, fixed)
  BY KeptPlain, Zenon
<1>a. \A field, code, size : \E s : SevenBits(v, field, code, size) = WithPost(Effect(v, {field}, size), s)
  BY Zenon DEF SevenBits, WithPost
<1>b. Lies({}, lane)
  BY LiesNone
<1>c. /\ Lies({RD}, 7..13) /\ Lies({RS1}, 14..20) /\ Lies({RS2}, 21..27) /\ Lies({RS3}, 28..34)
      /\ Lies({LSDISP}, 28..43)
  BY LiesNamed
<1>d. Lies(OtherConstant, 23..39)
  BY LiesOther DEF OtherConstant
<1>e. \/ r.f \in {"R3"} /\ k \in {2, 3}
      \/ r.f \in {"R3RR", "RI", "RIB", "RIL"} /\ k \in {2}
      \/ r.f \in {"RIA"} /\ k \in {1}
      \/ r.f \in {"REGIND", "REX", "ATOM", "BITS16", "BITS40", "PFX", "SYNC"} /\ k \in {0}
      \/ r.f \in {"DIRECT", "REP"} /\ k \in {0, 1}
  BY OpenPlaces DEF is_branch
<1>1. CASE r.f = "RIA" /\ k = 1
  <2>a. con = encode_immed_RIA(r, v)
    BY <1>1, OpenPieces DEF ConstantImmediate
  <2>1. con = SevenBits(v, RS1, 60, r.len) /\ c
    BY <1>1, <2>a DEF encode_immed_RIA
  <2>2. lane = 14..20
    BY <1>1, LaneValues DEF OfRegisters
  <2> HIDE DEF v, lane, con
  <2> QED
    BY <1>0, <1>a, <1>c, <2>1, <2>2 DEF con, lane
<1>2. CASE r.f = "RIB" /\ k = 2
  <2>a. con = encode_immed_RIB(r, v)
    BY <1>2, OpenPieces DEF ConstantImmediate
  <2>1. con = SevenBits(v, RS2, 61, r.len) /\ c
    BY <1>2, <2>a DEF encode_immed_RIB
  <2>2. lane = 21..27
    BY <1>2, LaneValues DEF OfRegisters
  <2> HIDE DEF v, lane, con
  <2> QED
    BY <1>0, <1>a, <1>c, <2>1, <2>2 DEF con, lane
<1>3. CASE r.f = "REGIND" /\ k = 0
  <2>a. con = encode_immed_RID(r, v)
    BY <1>3, OpenPieces DEF ConstantImmediate
  <2>1. con = SevenBits(v, RD, 63, r.len) /\ c
    BY <1>3, <2>a DEF encode_immed_RID
  <2>2. lane = 7..13
    BY <1>3, LaneValues
  <2> HIDE DEF v, lane, con
  <2> QED
    BY <1>0, <1>a, <1>c, <2>1, <2>2 DEF con, lane
<1>4. CASE r.f = "RI" /\ k = 2
  <2> DEFINE p == IF is_nbit(v, 25) THEN <<>> ELSE <<First(61, 25, 39)>>
             e == WithPost(Effect(v, {<<0, 25, 21>>}, r.len), p)
  <2>1. con = encode_immed_RI(r, v, k) /\ lab = encode_immed_RI(r, v, k)
    BY <1>4, OpenPieces DEF ConstantImmediate, LabelImmediate
  <2>2. encode_immed_RI(r, v, k) = e
    BY <1>4 DEF encode_immed_RI, WithPost
  <2>3. lane = 21..45
    BY <1>4, LaneValues
  <2>4. Lies({<<0, 25, 21>>}, 21..45)
    <3>1. Lies({<<0, 25, 21>>}, 21 .. 21 + 25 - 1)
      BY LiesField, Zenon
    <3>2. 21 + 25 - 1 = 45
      OBVIOUS
    <3> QED
      BY <3>1, <3>2
  <2> HIDE DEF p
  <2>5. Kept(e, {}, lane, fixed)
    BY <1>0, <2>3, <2>4
  <2> QED
    BY <2>1, <2>2, <2>5
<1>5. CASE r.f = "DIRECT" /\ k \in {0, 1}
  <2> DEFINE e == IF k = 1 THEN Effect(v, {LSDISP}, r.len) ELSE Effect(v, {}, r.len)
  <2>1. con = e /\ lab = e
    BY <1>5, OpenPieces DEF ConstantImmediate, LabelImmediate, encode_direct, None
  <2>2. k = 1 => lane = 28..43
    BY <1>5, LaneValues
  <2>3. Kept(e, {}, lane, fixed)
    BY <1>0, <1>b, <1>c, <2>2, Zenon
  <2> QED
    BY <2>1, <2>3
<1>6. CASE r.f = "R3" /\ k \in {2, 3}
  <2>1. con = Effect(v, Pieces(ConstantPieces, "R3", k), 6) /\ c
    BY <1>6, OpenPieces DEF ConstantImmediate
  <2>2. (k = 2 => lane = 21..27) /\ (k = 3 => lane = 28..34)
    BY <1>6, LaneValues DEF OfRegisters
  <2>3. Lies(Pieces(ConstantPieces, "R3", k), lane)
    BY <1>6, <1>c, <2>2, OpenPieces, Zenon
  <2> QED
    BY <1>0, <2>1, <2>3
<1>7. CASE r.f = "ATOM" /\ k = 0
  <2>1. con = Effect(v, {Field(24, 7)}, 6) /\ lab = Effect(v, {Field(24, 7)}, 6)
    BY <1>7, OpenPieces DEF ConstantImmediate, LabelImmediate
  <2>2. lane = 7..30
    BY <1>7, LaneValues
  <2>3. Lies({Field(24, 7)}, 7..30)
    <3>1. Lies({<<0, 24, 7>>}, 7 .. 7 + 24 - 1)
      BY LiesField, Zenon
    <3>2. 7 + 24 - 1 = 30
      OBVIOUS
    <3> QED
      BY <3>1, <3>2 DEF Field
  <2> QED
    BY <1>0, <2>1, <2>2, <2>3
<1>8. CASE r.f = "SYNC" /\ k = 0
  <2>1. con = Effect(v, {Field(19, 10)}, 6) /\ c
    BY <1>8, OpenPieces DEF ConstantImmediate
  <2>2. lane = 10..28
    BY <1>8, LaneValues
  <2>3. Lies({Field(19, 10)}, 10..28)
    <3>1. Lies({<<0, 19, 10>>}, 10 .. 10 + 19 - 1)
      BY LiesField, Zenon
    <3>2. 10 + 19 - 1 = 28
      OBVIOUS
    <3> QED
      BY <3>1, <3>2 DEF Field
  <2> QED
    BY <1>0, <2>1, <2>2, <2>3
<1>9. CASE r.f \in {"RIL", "REP"} /\ k \in {0, 1, 2}
  <2>1. k \in 0..3
    BY <1>9
  <2>2. con = Effect(v, {}, 6) /\ lab = Effect(v, {}, 6)
    BY <1>9, <2>1, OpenPieces, ZenonT(30) DEF ConstantImmediate, LabelImmediate
  <2> QED
    BY <1>0, <1>b, <2>2
<1>10. CASE r.f \in {"REX", "BITS16", "BITS40", "PFX", "R3RR"}
  <2>1. con = Effect(v, OtherConstant, 6) /\ c
    BY <1>10, OpenPieces DEF ConstantImmediate
  <2>2. CASE r.f = "R3RR"
    <3>1. lane = 21..39
      BY <1>e, <2>2, LaneValues
    <3>2. 23..39 \subseteq 21..39
      OBVIOUS
    <3>3. Lies(OtherConstant, lane)
      BY <1>d, <3>1, <3>2, LiesMore
    <3> QED
      BY <1>0, <2>1, <3>3
  <2>3. CASE r.f # "R3RR"
    <3>1. lane = 23..39
      BY <1>10, <1>e, <2>3, LaneValues
    <3> QED
      BY <1>0, <1>d, <2>1, <3>1
  <2> QED
    BY <2>2, <2>3
<1> HIDE DEF con, lab, lane
<1> QED
  BY <1>e, <1>1, <1>2, <1>3, <1>4, <1>5, <1>6, <1>7, <1>8, <1>9, <1>10 DEF con, lab, lane

(* ... branches, ...                                                       *)
LEMMA ComparandKept ==
  ASSUME NEW v, NEW code, NEW ms, NEW at \in Nat, NEW lane, lane = {ms} \cup at .. at + 6, ms \notin at .. at + 6,
         NEW fixed, lane \cap fixed = {}
  PROVE  Kept(Comparand(v, code, ms, at), {}, lane, fixed)
<1> DEFINE e == Comparand(v, code, ms, at)
           own == at .. at + 6
<1>1. e.pieces = {Field(7, at)} /\ e.set = {ms} /\ e.clear = own \cup 48..63 /\ e.all = FALSE
  BY DEF Comparand, Effect
<1>2. Lies({Field(7, at)}, own) /\ Span({Field(7, at)}) \subseteq own
  <2>1. at + 7 - 1 = at + 6
    OBVIOUS
  <2>2. Lies({<<0, 7, at>>}, at .. at + 7 - 1)
    BY LiesField, Zenon
  <2>3. Lies({Field(7, at)}, own)
    BY <2>1, <2>2 DEF Field
  <2> QED
    BY <2>3, Zenon DEF Lies
<1>3. lane = {ms} \cup own /\ ms \notin own
  OBVIOUS
<1> HIDE DEF e, own
<1>4. Lies({Field(7, at)}, lane)
  BY <1>2, <1>3, LiesMore
<1> DEFINE f == Field(7, at)
           high == 48..63
<1> HIDE DEF f, high
<1>5. e.pieces = {f} /\ e.set = {ms} /\ e.clear = own \cup high /\ e.all = FALSE /\ Lies({f}, lane) /\ Span({f}) \subseteq own
  BY <1>1, <1>2, <1>4, Zenon DEF f, high
<1>6. Span(e.pieces) \cap fixed = {} /\ e.set \subseteq lane /\ e.set \cap Span(e.pieces) = {}
  BY <1>3, <1>5, Zenon
<1>7. e.clear \subseteq lane \cup high
  BY <1>3, <1>5
<1>8. Kept(e, {}, lane, fixed)
  BY <1>5, <1>6, <1>7, Zenon DEF Kept, high
<1> QED
  BY <1>8 DEF e

LEMMA BranchKept ==
  ASSUME NEW r, r.f \in Open, is_branch(r.f), "BZ" \in r.tags <=> r.f = "BZ",
         NEW n, NEW k \in Nat, "IMM" \in May(r.f, k + 1),
         NEW fixed, Lane(r.f, n, k) \cap fixed = {}, NEW v
  PROVE  Kept(encode_branch(r, v, k), {}, Lane(r.f, n, k), fixed)
<1> DEFINE lane == Lane(r.f, n, k)
           e == encode_branch(r, v, k)
<1>0. \A w, pieces, size : Lies(pieces, lane) =>
        /\ Kept(Effect(w, pieces, size), {}, lane, fixed)
        /\ \A s : Kept(WithPost(Effect(w, pieces, size), s), {}, lane, fixed)
  BY KeptPlain, Zenon
<1>1. \/ r.f = "B" /\ k \in {0, 1, 2}
      \/ r.f = "BI" /\ k \in {1, 2}
      \/ r.f = "BZ" /\ k = 1
      \/ r.f = "J4" /\ k = 0
  BY OpenPlaces DEF is_branch
<1>2. CASE r.f = "B" /\ k = 0
  <2>1. e = encode_branch_B(r, v, 0)
    BY <1>2 DEF encode_branch
  <2>2. encode_branch_B(r, v, 0) = Comparand(v, 60, 11, 14)
    BY DEF encode_branch_B
  <2>3. lane = {11} \cup 14 .. 14 + 6
    <3>1. lane = {11} \cup 14..20
      BY <1>2, LaneValues
    <3>2. 14 + 6 = 20
      OBVIOUS
    <3> QED
      BY <3>1, <3>2
  <2>4. 11 \notin 14 .. 14 + 6 /\ 14 \in Nat
    OBVIOUS
  <2> HIDE DEF e, lane
  <2>5. lane \cap fixed = {}
    BY DEF lane
  <2>6. Kept(Comparand(v, 60, 11, 14), {}, lane, fixed)
    BY <2>3, <2>4, <2>5, ComparandKept
  <2> QED
    BY <2>1, <2>2, <2>6 DEF e, lane
<1>3. CASE r.f \in {"B", "BI"} /\ k = 1
  <2>1. e = encode_branch_B(r, v, 1) /\ "BZ" \notin r.tags
    BY <1>3 DEF encode_branch
  <2>2. encode_branch_B(r, v, 1) = Comparand(v, 61, 12, 21)
    BY <2>1 DEF encode_branch_B
  <2>3. lane = {12} \cup 21 .. 21 + 6
    <3>1. lane = {12} \cup 21..27
      BY <1>3, LaneValues
    <3>2. 21 + 6 = 27
      OBVIOUS
    <3> QED
      BY <3>1, <3>2
  <2>4. 12 \notin 21 .. 21 + 6 /\ 21 \in Nat
    OBVIOUS
  <2> HIDE DEF e, lane
  <2>5. lane \cap fixed = {}
    BY DEF lane
  <2>6. Kept(Comparand(v, 61, 12, 21), {}, lane, fixed)
    BY <2>3, <2>4, <2>5, ComparandKept
  <2> QED
    BY <2>1, <2>2, <2>6 DEF e, lane
<1>4. CASE (r.f \in {"B", "BI"} /\ k = 2) \/ (r.f = "BZ" /\ k = 1)
  <2> DEFINE p == IF is_nbit(v, 17) THEN <<>>
                             ELSE IF is_nbit(v, 56) THEN <<First(62, 17, 39)>>
                             ELSE <<First(62, 17, 39), Second(62, 56, 8)>>
             x == WithPost(Effect(v, {Field(17, 28)}, 6), p)
  <2>1. e = encode_branch_B(r, v, 2)
    <3>1. 1 + 1 = 2
      OBVIOUS
    <3> QED
      BY <1>4, <3>1 DEF encode_branch
  <2>2. encode_branch_B(r, v, 2) = x
    BY DEF encode_branch_B, WithPost
  <2>3. lane = 28..44
    BY <1>4, LaneValues
  <2>4. Lies({Field(17, 28)}, 28..44)
    <3>1. Lies({<<0, 17, 28>>}, 28 .. 28 + 17 - 1)
      BY LiesField, Zenon
    <3>2. 28 + 17 - 1 = 44
      OBVIOUS
    <3> QED
      BY <3>1, <3>2 DEF Field
  <2> HIDE DEF p
  <2>5. Kept(x, {}, lane, fixed)
    BY <1>0, <2>3, <2>4
  <2> QED
    BY <2>1, <2>2, <2>5
<1>5. CASE r.f = "J4" /\ k = 0
  <2> DEFINE size == 6 + (IF is_nbit(v, 35) THEN 0 ELSE encode_ipfx(v))
             x == Effect(v, {<<1, 34, 14>>}, size)
  <2>1. e = x
    BY <1>5 DEF encode_branch, encode_J4
  <2>2. lane = 14..47
    BY <1>5, LaneValues
  <2>3. Lies({<<1, 34, 14>>}, 14..47)
    <3>1. Lies({<<1, 34, 14>>}, 14 .. 14 + 34 - 1)
      BY LiesField, Zenon
    <3>2. 14 + 34 - 1 = 47
      OBVIOUS
    <3> QED
      BY <3>1, <3>2
  <2> HIDE DEF size
  <2>4. Kept(x, {}, lane, fixed)
    BY <1>0, <2>2, <2>3
  <2> QED
    BY <2>1, <2>4
<1> QED
  BY <1>1, <1>2, <1>3, <1>4, <1>5

(* ... and what goes to or comes from memory                               *)
LEMMA PutIn ==
  ASSUME NEW v, NEW n \in Nat, NEW at \in Nat
  PROVE  PutPiece(v, Field(n, at)) \subseteq at .. at + n - 1
  BY DEF PutPiece, Field

LEMMA PutNamed ==
  ASSUME NEW v
  PROVE  /\ PutPiece(v, RS1) \subseteq 14..20 /\ PutPiece(v, RS2) \subseteq 21..27
         /\ PutPiece(v, Field(4, 44)) \subseteq 44..47
<1>1. 14 + 7 - 1 = 20 /\ 21 + 7 - 1 = 27 /\ 44 + 4 - 1 = 47
  OBVIOUS
<1>2. /\ PutPiece(v, Field(7, 14)) \subseteq 14 .. 14 + 7 - 1
      /\ PutPiece(v, Field(7, 21)) \subseteq 21 .. 21 + 7 - 1
      /\ PutPiece(v, Field(4, 44)) \subseteq 44 .. 44 + 4 - 1
  BY PutIn
<1> QED
  BY <1>1, <1>2 DEF RS1, RS2

LEMMA IndirectKept ==
  ASSUME NEW r, r.f = "REGIND", NEW n, NEW op, NEW fixed, Lane(r.f, n, 1) \cap fixed = {}, NEW v
  PROVE  Kept(encode_regind(r, v, 1).effect, PutPiece(op.reg, encode_regind(r, v, 1).base), Lane(r.f, n, 1), fixed)
<1> DEFINE lane == Lane(r.f, n, 1)
           others == PutPiece(op.reg, RS1)
<1>1. encode_regind(r, v, 1).effect = Effect(v, {LSDISP}, r.len) /\ encode_regind(r, v, 1).base = RS1
  BY DEF encode_regind, encode_direct
<1>2. lane = 14..20 \cup 28..43
  BY LaneValues
<1>3. Lies({LSDISP}, 28..43) /\ others \subseteq 14..20
  BY LiesNamed, PutNamed
<1>4. 28..43 \subseteq lane /\ 14..20 \subseteq lane /\ (14..20) \cap (28..43) = {}
  BY <1>2
<1>5. Lies({LSDISP}, lane) /\ Span({LSDISP}) \subseteq 28..43
  BY <1>3, <1>4, LiesMore DEF Lies
<1> DEFINE a == 14..20
           b == 28..43
<1>6. Lies({LSDISP}, lane) /\ Span({LSDISP}) \subseteq b /\ others \subseteq a /\ a \subseteq lane /\ b \subseteq lane
      /\ a \cap b = {} /\ lane \cap fixed = {}
  BY <1>3, <1>4, <1>5
<1> HIDE DEF a, b, lane, others
<1>7. Span({LSDISP}) \cap fixed = {} /\ others \subseteq lane /\ others \cap Span({LSDISP}) = {}
  BY <1>6, Zenon
<1>8. Kept(Effect(v, {LSDISP}, r.len), others, lane, fixed)
  BY <1>6, <1>7, KeptEffect
<1> QED
  BY <1>1, <1>8 DEF others, lane

LEMMA IndexedKept ==
  ASSUME NEW r, r.f = "SCNDX", NEW n, NEW op, NEW fixed, (28..43) \cap fixed = {}, NEW v
  PROVE  LET m == encode_scndx(r, op, v, 1)
         IN  Kept(m.effect, PutPiece(op.reg, m.base) \cup PutPiece(op.ndx, m.index)
                              \cup PutPiece(ScaleBits(op.scale), m.scale), Lane(r.f, n, 1), fixed)
<1> DEFINE m == encode_scndx(r, op, v, 1)
           lane == Lane(r.f, n, 1)
           others == PutPiece(op.reg, RS1) \cup PutPiece(op.ndx, RS2) \cup PutPiece(ScaleBits(op.scale), Field(4, 44))
           p == IF is_nbit(v, 16) THEN <<>>
                             ELSE IF is_nbit(v, 55) THEN <<Raw(FALSE, 0, 48)>>
                             ELSE <<Raw(FALSE, 0, 48), Raw(TRUE, 55, 9)>>
           e == WithPost(Effect(v, {LSDISP}, r.len), p)
<1>1. m.effect = e /\ m.base = RS1 /\ m.index = RS2 /\ m.scale = Field(4, 44)
  BY DEF encode_scndx, WithPost
<1>2. lane = 14..47
  BY LaneValues
<1> DEFINE a == 14..20
           b == 21..27
           c == 44..47
           d == 28..43
<1>3. a \subseteq lane /\ b \subseteq lane /\ c \subseteq lane /\ d \subseteq lane
      /\ a \cap d = {} /\ b \cap d = {} /\ c \cap d = {}
  BY <1>2
<1>4. /\ PutPiece(op.reg, RS1) \subseteq a /\ PutPiece(op.ndx, RS2) \subseteq b
      /\ PutPiece(ScaleBits(op.scale), Field(4, 44)) \subseteq c
  BY PutNamed
<1>5. Lies({LSDISP}, d)
  BY LiesNamed
<1>6. d \cap fixed = {}
  OBVIOUS
<1> HIDE DEF a, b, c, d, lane, p, m
<1>7. Lies({LSDISP}, lane) /\ Span({LSDISP}) \subseteq d
  BY <1>3, <1>5, LiesMore DEF Lies
<1>8. others \subseteq a \cup b \cup c
  BY <1>4
<1> HIDE DEF others
<1>9. others \subseteq lane /\ others \cap Span({LSDISP}) = {} /\ Span({LSDISP}) \cap fixed = {}
  BY <1>3, <1>6, <1>7, <1>8
<1>10. Kept(e, others, lane, fixed)
  BY <1>7, <1>9, KeptEffect, Zenon
<1>11. Kept(m.effect, PutPiece(op.reg, m.base) \cup PutPiece(op.ndx, m.index)
                              \cup PutPiece(ScaleBits(op.scale), m.scale), lane, fixed)
  BY <1>1, <1>10 DEF others
<1> QED
  BY <1>11 DEF m, lane

(* Whatever the operand is                                                 *)
LEMMA PartKept ==
  ASSUME NEW r, GoodRow(r), r.f \in Open, ~Shared(r), NEW k \in 0..Len(r.ops) - 1,
         NEW op, op.kind \in Admits(r.ops[k + 1]), op.kind \in EncodedKinds,
         NEW v, NEW c \in BOOLEAN, NEW size,
         op.kind = "IMM" /\ ~c /\ ~is_branch(r.f) => r.f \in {"RI", "DIRECT", "ATOM", "RIL", "REP"}
  PROVE  Kept(Part(r, k, op, v, c, size), Besides(r, k, op, v), Lane(r.f, Len(r.ops), k), FixedBits(r))
<1> DEFINE n == Len(r.ops)
           lane == Lane(r.f, n, k)
           fixed == FixedBits(r)
<1>1. n \in Nat /\ k \in Nat /\ k < n /\ Extra(r.f, r.ops) /\ Fixes(r.f, r.fixed, r.tags, n)
  BY DEF GoodRow, Slots
<1>2. op.kind \in May(r.f, k + 1)
  <2>1. k + 1 \in 1..Len(r.ops)
    BY <1>1
  <2> QED
    BY <2>1 DEF GoodRow, Slots
<1>3. ~(r.f = "SCNDX" /\ k = 1) => lane \cap fixed = {}
  BY LanesFree
<1>4. r.f = "R3RR" => \/ n = 4 /\ (k = 2 => op.kind = "REG")
                      \/ n # 4 /\ k \in {0, 1, 2}
  <2> SUFFICES ASSUME r.f = "R3RR" PROVE \/ n = 4 /\ (k = 2 => op.kind = "REG")
                                         \/ n # 4 /\ k \in {0, 1, 2}
    OBVIOUS
  <2>1. n \in {1, 3} \/ (n = 4 /\ Admits(r.ops[3]) \subseteq R)
    BY <1>1 DEF Extra
  <2>2. CASE n \in {1, 3}
    <3>1. k \in Nat /\ k < n
      BY <1>1
    <3> HIDE DEF n
    <3> QED
      BY <2>2, <3>1
  <2>3. CASE n = 4 /\ Admits(r.ops[3]) \subseteq R
    <3>1. k = 2 => op.kind \in R
      BY <2>3
    <3> QED
      BY <2>3, <3>1 DEF R
  <2> QED
    BY <2>1, <2>2, <2>3
<1>5. r.f = "PRED" => k = 0 \/ (k = 1 /\ op.kind = "PREDSTR")
  <2> SUFFICES ASSUME r.f = "PRED" PROVE k = 0 \/ (k = 1 /\ op.kind = "PREDSTR")
    OBVIOUS
  <2>1. n = 2 /\ Admits(r.ops[2]) \subseteq {"PREDSTR"}
    BY <1>1 DEF Extra, Shared
  <2>2. k = 1 => op.kind \in Admits(r.ops[2])
    OBVIOUS
  <2>3. k \in Nat /\ k < n
    BY <1>1
  <2> HIDE DEF n
  <2>4. k = 0 \/ k = 1
    BY <2>1, <2>3
  <2> QED
    BY <2>1, <2>2, <2>4
<1>6. r.f = "SCNDX" => (k = 0 /\ op.kind # "IMM") \/ k = 1
  <2> SUFFICES ASSUME r.f = "SCNDX" PROVE (k = 0 /\ op.kind # "IMM") \/ k = 1
    OBVIOUS
  <2>1. n = 2 /\ Admits(r.ops[1]) \subseteq R
    BY <1>1 DEF Extra, Shared, Im
  <2>2. k = 0 => op.kind \in Admits(r.ops[1])
    OBVIOUS
  <2>3. k \in Nat /\ k < n
    BY <1>1
  <2> HIDE DEF n
  <2>4. k = 0 \/ k = 1
    BY <2>1, <2>3
  <2> QED
    BY <2>1, <2>2, <2>4 DEF R
<1> HIDE DEF n, lane, fixed
<1>7. CASE op.kind = "REG"
  <2>a. Part(r, k, op, v, c, size) = encode_reg(r.f, op.reg, k, size) /\ Besides(r, k, op, v) = {}
    BY <1>7 DEF Part, Besides
  <2>b. r.f \in Formats /\ "REG" \in May(r.f, k + 1)
    BY <1>2, <1>7 DEF GoodRow
  <2>1. Part(r, k, op, v, c, size) = WithSet(Effect(op.reg, {RegField(r.f, k)}, size), FirstBits(r.f, k))
    BY <1>1, <2>a, <2>b, RegisterEffect, Zenon
  <2>2. Lies({RegField(r.f, k)}, lane)
    BY <1>1, <1>2, <1>4, <1>5, <1>7, RegisterLies DEF lane
  <2>3. ~(r.f = "SCNDX" /\ k = 1)
    <3> SUFFICES ASSUME r.f = "SCNDX", k = 1 PROVE FALSE
      OBVIOUS
    <3>1. ShapeOf("SCNDX") = <<RI, {"SCNDX"}>>
      BY DEF ShapeOf
    <3>2. 1 + 1 = 2
      OBVIOUS
    <3>3. May("SCNDX", 2) = {"SCNDX"}
      BY <3>1 DEF May
    <3> QED
      BY <1>2, <1>7, <3>2, <3>3
  <2>4. lane \cap fixed = {} /\ lane \subseteq 7..47
    BY <1>1, <1>3, <2>3, LanesApart, Zenon DEF lane
  <2>5. Kept(WithSet(Effect(op.reg, {RegField(r.f, k)}, size), FirstBits(r.f, k)), {}, lane, fixed)
    BY <2>2, <2>4, PredicateAbove, KeptRegister, Zenon
  <2> QED
    BY <2>a, <2>1, <2>5 DEF lane, n, fixed
<1>8. CASE op.kind = "IMM" /\ ~is_branch(r.f)
  <2>1. /\ c => Part(r, k, op, v, c, size) = ConstantImmediate(r, v, k)
        /\ ~c => Part(r, k, op, v, c, size) = LabelImmediate(r, v, k)
        /\ Besides(r, k, op, v) = {}
    BY <1>8 DEF Part, Besides
  <2>2. r.f # "SCNDX"
    BY <1>1, <1>2, <1>6, <1>8, OpenPlaces
  <2>3. r.f = "R3RR" => n # 4
    <3>1. r.f = "R3RR" => k = 2
      BY <1>1, <1>2, <1>8, OpenPlaces
    <3> QED
      BY <1>4, <1>8, <3>1
  <2>4. lane \cap fixed = {}
    BY <1>3, <2>2
  <2>5. /\ c => Kept(ConstantImmediate(r, v, k), {}, lane, fixed)
        /\ ~c => Kept(LabelImmediate(r, v, k), {}, lane, fixed)
    BY <1>1, <1>2, <1>8, <2>2, <2>3, <2>4, ImmediateKept, Zenon DEF lane
  <2> QED
    BY <2>1, <2>5 DEF lane, n, fixed
<1>9. CASE op.kind = "IMM" /\ is_branch(r.f)
  <2>1. Part(r, k, op, v, c, size) = encode_branch(r, v, k) /\ Besides(r, k, op, v) = {}
    BY <1>9 DEF Part, Besides
  <2>2. r.f # "SCNDX" /\ ("BZ" \in r.tags <=> r.f = "BZ")
    BY <1>1, <1>9 DEF is_branch, Fixes
  <2>3. lane \cap fixed = {}
    BY <1>3, <2>2
  <2>4. Kept(encode_branch(r, v, k), {}, lane, fixed)
    BY <1>1, <1>2, <1>9, <2>2, <2>3, BranchKept, Zenon DEF lane
  <2> QED
    BY <2>1, <2>4 DEF lane, n, fixed
<1>10. CASE op.kind = "REGIND"
  <2>1. r.f = "REGIND" /\ k = 1
    BY <1>1, <1>2, <1>10, OpenPlaces
  <2>2. /\ Part(r, k, op, v, c, size) = encode_regind(r, v, 1).effect
        /\ Besides(r, k, op, v) = PutPiece(op.reg, encode_regind(r, v, 1).base)
    BY <1>10, <2>1 DEF Part, Besides
  <2>3. Lane(r.f, n, 1) \cap fixed = {}
    BY <1>3, <2>1 DEF lane
  <2>4. Kept(encode_regind(r, v, 1).effect, PutPiece(op.reg, encode_regind(r, v, 1).base), Lane(r.f, n, 1), fixed)
    BY <2>1, <2>3, IndirectKept, Zenon
  <2> QED
    BY <2>1, <2>2, <2>4 DEF n, fixed
<1>11. CASE op.kind = "SCNDX"
  <2>1. r.f = "SCNDX" /\ k = 1
    BY <1>1, <1>2, <1>11, OpenPlaces
  <2> DEFINE m == encode_scndx(r, op, v, 1)
             others == PutPiece(op.reg, m.base) \cup PutPiece(op.ndx, m.index) \cup PutPiece(ScaleBits(op.scale), m.scale)
  <2>2. Part(r, k, op, v, c, size) = m.effect /\ Besides(r, k, op, v) = others
    BY <1>11, <2>1 DEF Part, Besides
  <2>3. (28..43) \cap fixed = {}
    BY <2>1, DisplacementFree DEF fixed
  <2>4. Kept(m.effect, others, Lane(r.f, n, 1), fixed)
    BY <2>1, <2>3, IndexedKept, Zenon
  <2> HIDE DEF m, others
  <2> QED
    BY <2>1, <2>2, <2>4 DEF n, fixed
<1>12. CASE op.kind = "PREDSTR"
  <2>1. r.f = "PRED" /\ k = 1
    <3>1. r.f = "PRED" /\ k \in {1, 2}
      BY <1>1, <1>2, <1>12, OpenPlaces
    <3> QED
      BY <1>5, <3>1
  <2>2. Part(r, k, op, v, c, size) = Effect(v, {Field(16, 22)}, 6) /\ Besides(r, k, op, v) = {}
    BY <1>12 DEF Part, Besides, encode_pred
  <2>3. lane = 22..37 /\ lane \cap fixed = {}
    BY <1>3, <2>1, LaneValues DEF lane
  <2>4. Lies({Field(16, 22)}, 22..37)
    <3>1. Lies({<<0, 16, 22>>}, 22 .. 22 + 16 - 1)
      BY LiesField, Zenon
    <3>2. 22 + 16 - 1 = 37
      OBVIOUS
    <3> QED
      BY <3>1, <3>2 DEF Field
  <2>5. Kept(Effect(v, {Field(16, 22)}, 6), {}, lane, fixed)
    BY <2>3, <2>4, KeptPlain
  <2> QED
    BY <2>2, <2>5 DEF lane, n, fixed
<1>13. op.kind # "IND_SCNDX"
  BY <1>1, <1>2, OpenPlaces
<1> QED
  BY <1>7, <1>8, <1>9, <1>10, <1>11, <1>12, <1>13 DEF EncodedKinds

(* What one operand is encoded to leaves the lanes of the others as they   *)
(* are, and can be read back from its own.                                 *)
LEMMA GetLocal ==
  ASSUME NEW pieces \in SUBSET Layout, NEW lane, Span(pieces) \subseteq lane,
         NEW w, NEW x, w \cap lane = x \cap lane
  PROVE  Get(w, pieces) = Get(x, pieces)
<1>1. ASSUME NEW p \in pieces, NEW b \in p[1]..p[1]+p[2]-1
      PROVE  b - p[1] + p[3] \in w <=> b - p[1] + p[3] \in x
  <2>1. p[1] \in Nat /\ p[2] \in Nat /\ p[3] \in Nat
    BY DEF Layout
  <2> DEFINE at == b - p[1] + p[3]
  <2>2. at \in p[3]..p[3]+p[2]-1
    BY <2>1
  <2> HIDE DEF at
  <2>3. at \in lane
    BY <2>2 DEF Span
  <2>4. at \in w <=> at \in x
    BY <2>3
  <2> QED
    BY <2>4 DEF at
<1>2. \A w1 : \A b : b \in Get(w1, pieces) <=>
          \E p \in pieces : b \in p[1]..p[1]+p[2]-1 /\ b - p[1] + p[3] \in w1
  BY DEF Get
<1>3. \A b : b \in Get(w, pieces) <=> b \in Get(x, pieces)
  BY <1>1, <1>2
<1> QED
  BY <1>3

LEMMA PutSpan == \A v, pieces : Put(v, pieces) \subseteq Span(pieces)
  BY DEF Put, PutPiece, Span

Or(w, e, others) == (w \ e.clear) \cup e.set \cup Put(e.v, e.pieces) \cup others

Beside(l, lane) == l \cap lane = {} /\ l \subseteq 7..47
SameIn(w, x, l) == w \cap l = x \cap l

LEMMA OrKeeps ==
  ASSUME NEW e, NEW others, NEW lane, NEW fixed, Kept(e, others, lane, fixed), lane \subseteq 7..47, NEW w
  PROVE  /\ \A l : Beside(l, lane) => SameIn(Or(w, e, others), w, l)
         /\ w \cap lane = {} => Get(Or(w, e, others), e.pieces) = e.v \cap Carried(e.pieces)
<1> DEFINE z == 7..47
           high == 48..63
           x == Or(w, e, others)
           put == Put(e.v, e.pieces)
<1>1. /\ Lies(e.pieces, lane) /\ e.set \subseteq lane \cup high /\ e.set \cap Span(e.pieces) = {}
      /\ others \subseteq lane /\ others \cap Span(e.pieces) = {} /\ e.clear \subseteq lane \cup high
  BY DEF Kept
<1>2. Span(e.pieces) \subseteq lane /\ put \subseteq Span(e.pieces)
  BY <1>1, PutSpan DEF Lies
<1>3. z \cap high = {}
  OBVIOUS
<1>4. x = (w \ e.clear) \cup e.set \cup put \cup others
  BY DEF Or
<1> HIDE DEF z, high, x, put
<1>5. ASSUME NEW l, l \cap lane = {}, l \subseteq z PROVE x \cap l = w \cap l
  BY <1>1, <1>2, <1>3, <1>4, <1>5, Zenon
<1>6. ASSUME w \cap lane = {} PROVE Get(x, e.pieces) = e.v \cap Carried(e.pieces)
  <2> DEFINE other == (w \ e.clear) \cup e.set \cup others
  <2>1. x = put \cup other
    BY <1>4
  <2>2. other \cap Span(e.pieces) = {}
    BY <1>1, <1>2, <1>6
  <2>3. e.pieces \in SUBSET Layout /\ Apart(e.pieces)
    BY <1>1 DEF Lies
  <2> HIDE DEF other
  <2>4. Get(put \cup other, e.pieces) = e.v \cap Carried(e.pieces)
    BY <2>2, <2>3, SeparateFieldsReadBack, Zenon DEF put
  <2> QED
    BY <2>1, <2>4, Zenon
<1> QED
  BY <1>5, <1>6 DEF x, z, Beside, SameIn

-----------------------------------------------------------------------------
(* The operands placed so far can be read back, and the lanes of the       *)
(* others are empty.                                                       *)
ReadsBack(w, p, lane, fixed) ==
  /\ Lies(p.pieces, lane) /\ Span(p.pieces) \cap fixed = {}
  /\ Get(w, p.pieces) = p.v \cap Carried(p.pieces)

ItemReadsBack(w, p) ==
  p.form = "flt" \/ Get(w \cap 0..63, p.pieces) = p.v \cap Carried(p.pieces)

LanesHold(w, r, at, held, fixed) ==
  /\ \A p \in held : ReadsBack(w, p, Lane(r.f, Len(r.ops), p.op), fixed)
  /\ \A k \in Nat : k >= at => w \cap Lane(r.f, Len(r.ops), k) = {}

LanesInv ==
  /\ \A p \in placed : p.op \in 0..i - 1
  /\ db /\ row.f \in Open /\ ~Shared(row) /\ ~LabelMisplaced => LanesHold(word, row, i, placed, FixedBits(row))
  /\ row.f = "DATA" => \A p \in placed : ItemReadsBack(word, p)

LEMMA LanesHoldNext ==
  ASSUME NEW r, NEW at \in Nat, NEW e, NEW others, NEW fixed,
         Kept(e, others, Lane(r.f, Len(r.ops), at), fixed),
         NEW w, NEW held, \A p \in held : p.op \in 0..at - 1, LanesHold(w, r, at, held, fixed),
         NEW new, new.op = at, new.v = e.v, new.pieces = e.pieces
  PROVE  LanesHold(Or(w, e, others), r, at + 1, held \cup {new}, fixed)
<1> DEFINE n == Len(r.ops)
           f == r.f
           x == Or(w, e, others)
           z == 7..47
<1>1. \A j, k \in Nat : Lane(f, n, k) \subseteq z /\ (j # k => Lane(f, n, j) \cap Lane(f, n, k) = {})
  BY LanesApart, Zenon
<1>2. /\ \A p \in held : ReadsBack(w, p, Lane(f, n, p.op), fixed)
      /\ \A k \in Nat : k >= at => w \cap Lane(f, n, k) = {}
  BY DEF LanesHold
<1> DEFINE own == Lane(f, n, at)
<1>3. Kept(e, others, own, fixed) /\ own \subseteq z
  BY <1>1, Zenon
<1>9. /\ \A l : Beside(l, own) => SameIn(x, w, l)
      /\ w \cap own = {} => Get(x, e.pieces) = e.v \cap Carried(e.pieces)
  <2>1. Kept(e, others, own, fixed) /\ own \subseteq 7..47
    BY <1>3
  <2> HIDE DEF own, n, f, z
  <2> QED
    BY <2>1, OrKeeps, Zenon
<1> HIDE DEF n, f, x, z
<1>4. ASSUME NEW k \in Nat, k # at PROVE x \cap Lane(f, n, k) = w \cap Lane(f, n, k)
  <2>1. Lane(f, n, k) \cap own = {} /\ Lane(f, n, k) \subseteq z
    BY <1>1, <1>4
  <2>2. Beside(Lane(f, n, k), own)
    BY <2>1, Zenon DEF Beside, z
  <2> QED
    BY <2>2, <1>9 DEF SameIn
<1>5. Get(x, e.pieces) = e.v \cap Carried(e.pieces)
  <2>1. at >= at
    OBVIOUS
  <2>2. w \cap own = {}
    BY <1>2, <2>1
  <2> HIDE DEF own
  <2> QED
    BY <1>9, <2>2
<1>6. ReadsBack(x, new, Lane(f, n, new.op), fixed)
  BY <1>3, <1>5 DEF Kept, ReadsBack
<1>7. ASSUME NEW p \in held PROVE ReadsBack(x, p, Lane(f, n, p.op), fixed)
  <2>1. p.op \in Nat /\ p.op # at
    <3>1. p.op \in 0..at - 1
      OBVIOUS
    <3> QED
      BY <3>1
  <2>2. ReadsBack(w, p, Lane(f, n, p.op), fixed)
    BY <1>2
  <2>3. x \cap Lane(f, n, p.op) = w \cap Lane(f, n, p.op)
    BY <1>4, <2>1
  <2>4. Get(x, p.pieces) = Get(w, p.pieces)
    <3> DEFINE l == Lane(f, n, p.op)
               pieces == p.pieces
    <3>1. pieces \in SUBSET Layout /\ Span(pieces) \subseteq l /\ x \cap l = w \cap l
      BY <2>2, <2>3 DEF ReadsBack, Lies
    <3> HIDE DEF l, pieces
    <3>2. Get(x, pieces) = Get(w, pieces)
      BY <3>1, GetLocal, Zenon
    <3> QED
      BY <3>2 DEF pieces
  <2> QED
    BY <2>2, <2>4 DEF ReadsBack
<1>8. ASSUME NEW k \in Nat, k >= at + 1 PROVE x \cap Lane(f, n, k) = {}
  <2>1. k # at /\ k >= at
    BY <1>8
  <2> QED
    BY <1>2, <1>4, <2>1
<1> QED
  BY <1>6, <1>7, <1>8 DEF LanesHold, n, f, x

LEMMA NoLabels ==
  /\ DOMAIN LabelPieces \cap Open = {"ATOM", "R2", "RIL", "REP"}
  /\ \A k : "IMM" \notin May("R2", k)
<1>1. DOMAIN LabelPieces \cap Open = {"ATOM", "R2", "RIL", "REP"}
  BY DEF LabelPieces, Open
<1>2. ASSUME NEW k PROVE "IMM" \notin May("R2", k)
  <2>1. ShapeOf("R2") = <<R, R, R, R>>
    BY DEF ShapeOf
  <2> DEFINE s == <<R, R, R, R>>
  <2>2. \A j \in DOMAIN s : s[j] = R
    OBVIOUS
  <2> HIDE DEF s
  <2>3. May("R2", k) \in {R, {}}
    BY <2>1, <2>2 DEF May, s
  <2> QED
    BY <2>3 DEF R
<1> QED
  BY <1>1, <1>2

LEMMA LabelWithoutPlace ==
  ASSUME NEW r, r.f \in Open, NEW k, "IMM" \in May(r.f, k), ~is_branch(r.f),
         r.f \notin {"RI", "DIRECT", "ATOM", "RIL", "REP"}
  PROVE  r.f \notin DOMAIN LabelPieces \cup {"DATA", "RI", "DIRECT", "B", "BI", "BZ", "J4"}
<1>1. r.f # "R2"
  BY NoLabels
<1>2. r.f \notin DOMAIN LabelPieces
  BY <1>1, NoLabels
<1>3. r.f \notin {"B", "BI", "BZ", "J4"}
  BY DEF is_branch
<1>4. r.f # "DATA"
  BY DEF Open
<1> QED
  BY <1>2, <1>3, <1>4

LEMMA InitLanes == Init => LanesInv
  BY DEF Init, LanesInv

LEMMA StepLanes ==
  ASSUME OperandsInv, LanesInv, NEW op \in Given, Step(op)
  PROVE  LanesInv'
<1>1. /\ row \in mnemonics /\ row.f \in Formats /\ GoodRow(row)
      /\ i' = i + 1 /\ i \in 0..Len(row.ops) - 1 /\ row' = row /\ db' = db /\ Fills(row.ops[i + 1], op)
  BY EncodedRow, StepAdvances
<1>2. i \in Nat
  BY <1>1
<1>3. row.f # "DATA"
  BY <1>1, NamedFormats
<1>4. \/ placed' = placed
      \/ db /\ placed' = placed \cup {Held(op, EffectOf(op), EffectOf(op).pieces)}
  BY DEF Step, Encodes, EncodesAs, Skips
<1>5. \A p \in placed' : p.op \in 0..i' - 1
  <2> SUFFICES ASSUME NEW p \in placed' PROVE p.op \in 0..i
    BY <1>1, <1>2
  <2>1. p \in placed \/ p = Held(op, EffectOf(op), EffectOf(op).pieces)
    BY <1>4
  <2>2. p.op \in 0..i - 1 \/ p.op = i
    BY <2>1 DEF LanesInv, Held
  <2> QED
    BY <1>2, <2>2
<1>6. ASSUME db', row'.f \in Open, ~Shared(row'), ~LabelMisplaced' PROVE LanesHold(word', row', i', placed', FixedBits(row'))
  <2>1. db /\ row.f \in Open /\ ~Shared(row)
    BY <1>1, <1>6
  <2>2. ~LabelMisplaced
    BY <1>1, <1>4, <1>6 DEF LabelMisplaced
  <2>3. LanesHold(word, row, i, placed, FixedBits(row)) /\ \A p \in placed : p.op \in 0..i - 1
    BY <2>1, <2>2 DEF LanesInv
  <2>4. CASE Skips(op)
    <3>1. word' = word /\ placed' = placed
      BY <2>4 DEF Skips
    <3>2. \A k \in Nat : k >= i + 1 => k >= i
      BY <1>2
    <3> QED
      BY <1>1, <2>3, <3>1, <3>2 DEF LanesHold
  <2>5. CASE Encodes(op)
    <3> DEFINE e == EffectOf(op)
               others == Besides(row, i, op, Value(op))
               new == Held(op, e, e.pieces)
    <3>1. op.kind \in EncodedKinds /\ EncodesAs(op, e, others)
      BY <2>5 DEF Encodes
    <3>2. placed' = placed \cup {new}
      BY <2>1, <3>1 DEF EncodesAs
    <3>3. op.kind \in May(row.f, i + 1) /\ op.kind \in Admits(row.ops[i + 1])
      <4>1. op.kind \in May(row.f, i + 1)
        BY EncodedRow
      <4>2. op.kind # "DATA"
        BY <3>1 DEF EncodedKinds
      <4> QED
        BY <1>1, <4>1, <4>2 DEF Fills
    <3>4. op.kind = "IMM" /\ ~Constant(op) /\ ~is_branch(row.f) => row.f \in {"RI", "DIRECT", "ATOM", "RIL", "REP"}
      <4> SUFFICES ASSUME op.kind = "IMM", ~Constant(op), ~is_branch(row.f),
                          row.f \notin {"RI", "DIRECT", "ATOM", "RIL", "REP"}
                   PROVE  FALSE
        OBVIOUS
      <4>1. op.form # "num"
        BY DEF Constant, IsConstant
      <4>2. row.f \notin DOMAIN LabelPieces \cup {"DATA", "RI", "DIRECT", "B", "BI", "BZ", "J4"}
        BY <2>1, <3>3, LabelWithoutPlace
      <4>3. new.kind = "IMM" /\ new.form # "num" /\ new \in placed'
        BY <3>2, <4>1 DEF Held
      <4> QED
        BY <1>1, <1>6, <4>2, <4>3 DEF LabelMisplaced
    <3>5. Constant(op) \in BOOLEAN
      BY DEF Constant, IsConstant
    <3>6. Kept(e, others, Lane(row.f, Len(row.ops), i), FixedBits(row))
      BY <1>1, <2>1, <3>1, <3>3, <3>4, <3>5, PartKept, Zenon DEF EffectOf
    <3> HIDE DEF e, others
    <3>7. new.op = i /\ new.v = e.v /\ new.pieces = e.pieces
      BY DEF Held
    <3>8. word' = Or(word, e, others)
      BY <3>1, <3>6 DEF EncodesAs, Or, Kept
    <3> HIDE DEF new
    <3>9. LanesHold(Or(word, e, others), row, i + 1, placed \cup {new}, FixedBits(row))
      BY <1>2, <2>3, <3>6, <3>7, LanesHoldNext, Zenon
    <3> QED
      BY <1>1, <3>2, <3>8, <3>9
  <2> QED
    BY <2>4, <2>5 DEF Step
<1> QED
  BY <1>1, <1>3, <1>5, <1>6 DEF LanesInv

LEMMA StartLanes ==
  ASSUME OperandsInv, StartEmitting
  PROVE  LanesInv'
<1>1. placed' = {} /\ row' = row /\ i' = 0 /\ word' = {}
  BY DEF StartEmitting, OperandsInv
<1> QED
  BY <1>1 DEF LanesInv, LanesHold

-----------------------------------------------------------------------------
(* A data item is read back from its bytes.                                *)
(* The sizes a data directive can have.                                    *)
ItemBits == {8, 16, 32, 64}

LEMMA BytesOfItem ==
  ASSUME NEW v, NEW n, n \in ItemBits
  PROVE  Put(v, setval(FALSE, n)) = v \cap 0..n - 1
<1> USE DEF ItemBits
<1>1. setval(FALSE, n) = {<<8 * k, 8, 8 * k>> : k \in 0..(n \div 8) - 1}
  BY DEF setval
<1>2. \A k \in 0..(n \div 8) - 1 :
        PutPiece(v, <<8 * k, 8, 8 * k>>) = {b \in 8 * k .. 8 * k + 7 : b \in v}
  <2> SUFFICES ASSUME NEW k \in 0..(n \div 8) - 1
               PROVE  PutPiece(v, <<8 * k, 8, 8 * k>>) = {b \in 8 * k .. 8 * k + 7 : b \in v}
    OBVIOUS
  <2> DEFINE s == 8 * k
  <2>1. s \in Int
    OBVIOUS
  <2> HIDE DEF s
  <2>2. PutPiece(v, <<s, 8, s>>) = {b \in s .. s + 8 - 1 : b - s + s \in v}
    BY DEF PutPiece
  <2>3. \A b \in s .. s + 8 - 1 : b - s + s = b
    BY <2>1
  <2>4. s .. s + 8 - 1 = s .. s + 7
    BY <2>1
  <2>5. PutPiece(v, <<s, 8, s>>) = {b \in s .. s + 7 : b \in v}
    BY <2>2, <2>3, <2>4
  <2> QED
    BY <2>5 DEF s
<1>3. ASSUME NEW b \in Put(v, setval(FALSE, n))
      PROVE  b \in v \cap 0..n - 1
  <2>1. PICK k \in 0..(n \div 8) - 1 : b \in PutPiece(v, <<8 * k, 8, 8 * k>>)
    BY <1>1, Zenon DEF Put
  <2>2. b \in v /\ b \in 8 * k .. 8 * k + 7
    BY <1>2, <2>1
  <2>3. k \in Nat /\ 8 * k + 7 <= n - 1
    OBVIOUS
  <2> QED
    BY <2>2, <2>3
<1>4. ASSUME NEW b \in v \cap 0..n - 1
      PROVE  b \in Put(v, setval(FALSE, n))
  <2> DEFINE k == b \div 8
  <2>1. k \in 0..(n \div 8) - 1 /\ b \in 8 * k .. 8 * k + 7
    OBVIOUS
  <2> HIDE DEF k
  <2>2. b \in PutPiece(v, <<8 * k, 8, 8 * k>>)
    BY <1>2, <2>1
  <2>3. <<8 * k, 8, 8 * k>> \in setval(FALSE, n)
    BY <1>1, <2>1, Zenon
  <2> QED
    BY <2>2, <2>3, Zenon DEF Put
<1> QED
  BY <1>3, <1>4, Zenon

LEMMA ItemIsRead ==
  ASSUME NEW v, NEW n, n \in ItemBits
  PROVE  Get(Put(v, setval(FALSE, n)) \cap 0..63, {<<0, n, 0>>}) = v \cap Carried({<<0, n, 0>>})
<1> DEFINE w == Put(v, setval(FALSE, n)) \cap 0..63
           z == 0..n - 1
<1>1. w = v \cap z
  <2>1. z \subseteq 0..63
    BY DEF ItemBits
  <2>0. Put(v, setval(FALSE, n)) = v \cap 0..n - 1
    <3> HIDE DEF w, z
    <3> QED
      BY BytesOfItem, Zenon
  <2>2. Put(v, setval(FALSE, n)) = v \cap z
    BY <2>0, Zenon
  <2>3. w = (v \cap z) \cap 0..63
    BY <2>2, Zenon
  <2> HIDE DEF w, z
  <2> QED
    BY <2>1, <2>3, Zenon
<1> HIDE DEF w
<1>2. Carried({<<0, n, 0>>}) = z
  <2>1. 0 + n - 1 = n - 1
    BY DEF ItemBits
  <2> QED
    BY <2>1 DEF Carried
<1>3. Get(w, {<<0, n, 0>>}) = {b \in 0..0 + n - 1 : b - 0 + 0 \in w}
  BY DEF Get
<1>4. \A b : b \in Get(w, {<<0, n, 0>>}) <=> b \in z /\ b \in w
  <2>1. 0 + n - 1 = n - 1 /\ \A b \in z : b - 0 + 0 = b
    BY DEF ItemBits
  <2> QED
    BY <1>3, <2>1
<1> HIDE DEF z
<1>5. Get(w, {<<0, n, 0>>}) = v \cap z
  BY <1>1, <1>4
<1> QED
  BY <1>2, <1>5, Zenon DEF w

LEMMA DataLanes ==
  ASSUME OperandsInv, EvalData
  PROVE  LanesInv'
<1> DEFINE n == 8 * row.len
<1>1. /\ row.f = "DATA" /\ row' = row /\ i' = 1 /\ row \in AnyRow
  BY DEF EvalData, OperandsInv
<1>2. PICK op \in Given :
        /\ word' \in QuplsData(op.form, op.v, n)
        /\ placed' = {[op |-> 0, kind |-> "DATA", form |-> op.form, v |-> op.v,
                       pieces |-> {<<0, n, 0>>}, all |-> FALSE]}
  BY DEF EvalData
<1>3. n \in {8, 16, 32, 64}
  BY <1>1, DataLength
<1> HIDE DEF n
<1> DEFINE new == [op |-> 0, kind |-> "DATA", form |-> op.form, v |-> op.v, pieces |-> {<<0, n, 0>>}, all |-> FALSE]
<1>4. new.op = 0 /\ new.form = op.form /\ new.v = op.v /\ new.pieces = {<<0, n, 0>>} /\ placed' = {new}
  BY <1>2
<1> HIDE DEF new
<1>5. ItemReadsBack(word', new)
  <2>1. CASE op.form = "flt"
    BY <1>4, <2>1 DEF ItemReadsBack
  <2>2. CASE op.form # "flt"
    <3>1. word' = Put(op.v, setval(FALSE, n))
      BY <1>2, <2>2 DEF QuplsData
    <3>2. Get(word' \cap 0..63, {<<0, n, 0>>}) = op.v \cap Carried({<<0, n, 0>>})
      <4>1. n \in ItemBits
        BY <1>3 DEF ItemBits
      <4> QED
        BY <4>1, <3>1, ItemIsRead, Zenon
    <3> QED
      BY <1>4, <3>2 DEF ItemReadsBack
  <2> QED
    BY <2>1, <2>2
<1>6. "DATA" \notin Open
  BY DEF Open
<1>7. \A p \in placed' : p.op \in 0..i' - 1
  <2>1. 0 \in 0..1 - 1
    OBVIOUS
  <2> QED
    BY <1>1, <1>4, <2>1
<1>8. ~(row'.f \in Open)
  BY <1>1, <1>6
<1> QED
  BY <1>4, <1>5, <1>7, <1>8 DEF LanesInv

-----------------------------------------------------------------------------
LEMMA OpenFormats ==
  Formats \ (CutFormats \cup SharedFormats) \subseteq Open \cup {"BFR3II"}
  BY DEF Formats, CutFormats, SharedFormats, Open

LEMMA ReadBackHolds == OperandsInv /\ LanesInv => OperandsReadBack
<1> SUFFICES ASSUME OperandsInv, LanesInv,
                    Done, row.f \notin CutFormats \cup SharedFormats, ~SharedRows, ~LabelMisplaced,
                    NEW p \in placed
             PROVE  /\ p.form = "flt" \/ Get(Opcode, p.pieces) = p.v \cap Carried(p.pieces)
                    /\ Span(p.pieces) \cap FixedBits(row) = {}
  BY DEF OperandsReadBack
<1>1. row \in AnyRow /\ db /\ i \in 0..Len(row.ops) /\ p.op \in 0..i - 1 /\ Len(row.ops) \in Nat
  BY RowLength DEF Done, OperandsInv, LanesInv
<1>2. CASE row.f = "DATA"
  <2>1. ItemReadsBack(word, p)
    BY <1>2 DEF LanesInv
  <2> QED
    BY <1>2, <2>1 DEF ItemReadsBack, Opcode, FixedBits
<1>3. CASE row.ops = <<>>
  <2>1. Len(row.ops) = 0
    BY <1>3
  <2> QED
    BY <1>1, <2>1
<1>4. CASE row.f \in Formats /\ GoodRow(row)
  <2>1. ~Shared(row)
    BY DEF Shared, SharedRows
  <2>2. row.f \in Open \cup {"BFR3II"}
    BY <1>4, OpenFormats
  <2>3. row.f # "BFR3II"
    BY <1>4, <2>1 DEF GoodRow, Fixes, Shared
  <2>4. row.f \in Open
    BY <2>2, <2>3
  <2> DEFINE lane == Lane(row.f, Len(row.ops), p.op)
  <2>5. ReadsBack(word, p, lane, FixedBits(row))
    BY <1>1, <2>1, <2>4 DEF LanesInv, LanesHold
  <2>6. lane \subseteq 7..47
    <3>1. p.op \in Nat
      BY <1>1
    <3> QED
      BY <3>1, LanesApart, Zenon
  <2>7. row.f # "DATA"
    BY <1>4, NamedFormats
  <2>8. Opcode = word \cap 0..47
    BY <2>7 DEF Opcode
  <2> HIDE DEF lane
  <2>9. Opcode \cap lane = word \cap lane
    <3>1. 7..47 \subseteq 0..47
      OBVIOUS
    <3> DEFINE a == 7..47
               b == 0..47
    <3>2. lane \subseteq b /\ Opcode = word \cap b
      BY <2>6, <2>8, <3>1
    <3> HIDE DEF b
    <3> QED
      BY <3>2
  <2>10. Get(Opcode, p.pieces) = Get(word, p.pieces)
    BY <2>5, <2>9, GetLocal DEF ReadsBack, Lies
  <2> QED
    BY <2>5, <2>10 DEF ReadsBack
<1> QED
  BY <1>1, <1>2, <1>3, <1>4, AllRows

(* The formats with one constant and the postfix that continues it: where  *)
(* the constant stands, the field that it goes to, what is appended, and   *)
(* the pieces that its relocations name.                                   *)
ConstantFormats == {"RI", "RIA", "RIB", "J4"}
Patched == {"RI", "J4"}
PlaceOf(f) == CASE f = "RIA" -> 1 [] f = "J4" -> 0 [] OTHER -> 2
FieldOf(f) ==
  CASE f = "RI" -> <<0, 25, 21>> [] f = "RIA" -> <<0, 7, 14>> [] f = "J4" -> <<1, 34, 14>> [] OTHER -> <<0, 7, 21>>
TailOf(f, v) ==
  CASE f = "RI" -> IF is_nbit(v, 25) THEN <<>> ELSE <<First(61, 25, 39)>>
    [] f = "RIA" -> SevenBits(v, RS1, 60, 6).post
    [] f = "RIB" -> SevenBits(v, RS2, 61, 6).post
    [] OTHER -> <<>>
PatchesOf(f, v) ==
  IF f = "RI" THEN {<<0, 25, 21>>} \cup (IF is_nbit(v, 25) THEN {} ELSE {<<25, 39, 57>>})
  ELSE {<<1, 34, 14>>}

TagsOf(f, p) == [k \in DOMAIN TailOf(f, p.v) |-> [op |-> p.op, v |-> p.v, pfx |-> TailOf(f, p.v)[k]]]

HoldsConstant(f, tail, p) ==
  /\ p.op = PlaceOf(f) /\ p.pieces = {FieldOf(f)} /\ p.v \subseteq 0..63 /\ tail = TagsOf(f, p)

PlacesOf(left) == {q.at : q \in left}
Patches(f, held, left, r) ==
  /\ r.op = PlaceOf(f) /\ PlacesOf(left) = PatchesOf(f, r.v)
  /\ \E p \in held : p.kind = "IMM" /\ p.v = r.v

(* What the constant has left behind                                       *)
TailInv ==
  /\ db /\ row.f \in ConstantFormats /\ ~LabelMisplaced =>
       /\ LanesHold(word, row, i, placed, {})
       /\ \A p \in placed : IF p.kind = "IMM" THEN HoldsConstant(row.f, post, p) ELSE p.op # PlaceOf(row.f)
       /\ (\A p \in placed : p.kind # "IMM") => post = <<>> /\ relocs = {}
       /\ row.f \in Patched /\ "NEGIMM" \notin row.tags => \A r \in relocs : Patches(row.f, placed, relocs, r)
  /\ row.f = "DATA" =>
       /\ post = <<>>
       /\ \A p \in placed : p.op = 0 /\ p.pieces = {<<0, 8 * row.len, 0>>}
       /\ \A r \in relocs : /\ r.op = 0 /\ r.at = <<0, 8 * row.len, 0>>
                            /\ \E p \in placed : p.form # "flt" /\ p.v = r.v

LEMMA ConstantPlaces ==
  ASSUME NEW f \in ConstantFormats, NEW k \in Nat, NEW kind \in May(f, k + 1)
  PROVE  (kind = "REG" /\ k # PlaceOf(f)) \/ (kind = "IMM" /\ k = PlaceOf(f))
<1>0. May(f, k + 1) # {}
  OBVIOUS
<1>1. CASE f \in {"RI", "RIB"}
  <2>1. ShapeOf(f) = <<R, R, I>>
    BY <1>1 DEF ShapeOf
  <2>2. (k = 0 /\ May(f, k + 1) = R) \/ (k = 1 /\ May(f, k + 1) = R) \/ (k = 2 /\ May(f, k + 1) = I)
    BY <1>0, <2>1, ThreePlaces
  <2>3. PlaceOf(f) = 2
    BY <1>1 DEF PlaceOf
  <2> QED
    BY <2>2, <2>3 DEF R, I
<1>2. CASE f = "RIA"
  <2>1. ShapeOf(f) = <<R, I, R>>
    BY <1>2 DEF ShapeOf
  <2>2. (k = 0 /\ May(f, k + 1) = R) \/ (k = 1 /\ May(f, k + 1) = I) \/ (k = 2 /\ May(f, k + 1) = R)
    BY <1>0, <2>1, ThreePlaces
  <2>3. PlaceOf(f) = 1
    BY <1>2 DEF PlaceOf
  <2> QED
    BY <2>2, <2>3 DEF R, I
<1>3. CASE f = "J4"
  <2>1. ShapeOf(f) = <<I>>
    BY <1>3 DEF ShapeOf
  <2>2. k = 0 /\ May(f, k + 1) = I
    BY <1>0, <2>1, OnePlaces
  <2>3. PlaceOf(f) = 0
    BY <1>3 DEF PlaceOf
  <2> QED
    BY <2>2, <2>3 DEF I
<1> QED
  BY <1>1, <1>2, <1>3 DEF ConstantFormats

LEMMA ConstantIsOpen ==
  ConstantFormats \subseteq Open /\ "DATA" \notin ConstantFormats
  BY DEF ConstantFormats, Open

(* What is encoded for the constant                                        *)
Leaves(e, r, v, lane) ==
  /\ e.v = IF r.f = "J4" THEN v ELSE Negated(r, v)
  /\ e.pieces = {FieldOf(r.f)} /\ e.post = TailOf(r.f, e.v)
  /\ Kept(e, {}, lane, {})

LEMMA ConstantPart ==
  ASSUME NEW r, GoodRow(r), r.f \in ConstantFormats, NEW n, NEW k \in Nat, k = PlaceOf(r.f), "IMM" \in May(r.f, k + 1),
         NEW op, op.kind = "IMM", NEW v, NEW c \in BOOLEAN, c \/ r.f \in Patched, NEW size
  PROVE  Leaves(Part(r, k, op, v, c, size), r, v, Lane(r.f, n, k))
<1> DEFINE e == Part(r, k, op, v, c, size)
           x == Negated(r, v)
           lane == Lane(r.f, n, k)
<1> SUFFICES /\ e.v = IF r.f = "J4" THEN v ELSE Negated(r, v)
             /\ e.pieces = {FieldOf(r.f)} /\ e.post = TailOf(r.f, e.v)
             /\ Kept(e, {}, lane, {})
  BY DEF Leaves
<1> USE DEF Patched
<1>0. r.f \in Open /\ lane \cap {} = {}
  BY ConstantIsOpen
<1>1. CASE r.f = "J4"
  <2>1. e = encode_branch(r, v, k) /\ is_branch(r.f)
    BY <1>1 DEF Part, is_branch
  <2>2. e = encode_J4(v)
    BY <1>1, <2>1 DEF encode_branch
  <2>3. e.v = v /\ e.pieces = {<<1, 34, 14>>} /\ e.post = <<>>
    BY <2>2 DEF encode_J4, Effect
  <2>4. "BZ" \in r.tags <=> r.f = "BZ"
    BY <1>1, <2>1 DEF GoodRow, Fixes, is_branch
  <2>5. Kept(e, {}, lane, {})
    <3> HIDE DEF e, lane
    <3>1. lane \cap {} = {}
      OBVIOUS
    <3>2. Kept(encode_branch(r, v, k), {}, Lane(r.f, n, k), {})
      BY <1>0, <2>1, <2>4, <3>1, BranchKept, Zenon DEF lane
    <3> QED
      BY <2>1, <3>2 DEF lane
  <2> HIDE DEF e, lane
  <2>6. e.v = (IF r.f = "J4" THEN v ELSE x) /\ e.pieces = {FieldOf(r.f)} /\ e.post = TailOf(r.f, e.v)
    BY <1>1, <2>3 DEF FieldOf, TailOf
  <2> QED
    BY <2>5, <2>6 DEF e, lane
<1>2. CASE r.f # "J4"
  <2>1. ~is_branch(r.f) /\ r.f \notin {"R3RR", "SCNDX"} /\ r.f \in {"RI", "RIA", "RIB"}
    BY <1>2 DEF is_branch, ConstantFormats
  <2>2. /\ c => e = ConstantImmediate(r, v, k)
        /\ ~c => e = LabelImmediate(r, v, k) /\ r.f = "RI"
    BY <1>2, <2>1 DEF Part
  <2>3. Kept(e, {}, lane, {})
    <3> HIDE DEF e, lane
    <3>1. lane \cap {} = {}
      OBVIOUS
    <3>2. /\ c => Kept(ConstantImmediate(r, v, k), {}, Lane(r.f, n, k), {})
          /\ ~c => Kept(LabelImmediate(r, v, k), {}, Lane(r.f, n, k), {})
      BY <1>0, <2>1, <2>2, <3>1, ImmediateKept DEF lane
    <3> QED
      BY <2>2, <3>2 DEF lane
  <2>4. CASE r.f = "RI"
    <3>1. e = encode_immed_RI(r, x, k) /\ k = 2
      BY <2>2, <2>4, OpenPieces DEF ConstantImmediate, LabelImmediate, PlaceOf
    <3>2. e.v = x /\ e.pieces = {<<0, 25, 21>>} /\ e.post = IF is_nbit(x, 25) THEN <<>> ELSE <<First(61, 25, 39)>>
      BY <3>1 DEF encode_immed_RI, Effect
    <3> HIDE DEF e, x, lane
    <3> QED
      BY <1>2, <2>3, <2>4, <3>2 DEF FieldOf, TailOf, e, x, lane
  <2>5. CASE r.f = "RIA"
    <3>1. e = SevenBits(x, RS1, 60, r.len)
      BY <2>2, <2>5, OpenPieces DEF ConstantImmediate, encode_immed_RIA
    <3>2. e.v = x /\ e.pieces = {<<0, 7, 14>>} /\ e.post = SevenBits(x, RS1, 60, 6).post
      BY <3>1 DEF SevenBits, Effect, RS1, Field
    <3> HIDE DEF e, x, lane
    <3> QED
      BY <1>2, <2>3, <2>5, <3>2 DEF FieldOf, TailOf, e, x, lane
  <2>6. CASE r.f = "RIB"
    <3>1. e = SevenBits(x, RS2, 61, r.len)
      BY <2>2, <2>6, OpenPieces DEF ConstantImmediate, encode_immed_RIB
    <3>2. e.v = x /\ e.pieces = {<<0, 7, 21>>} /\ e.post = SevenBits(x, RS2, 61, 6).post
      BY <3>1 DEF SevenBits, Effect, RS2, Field
    <3> HIDE DEF e, x, lane
    <3> QED
      BY <1>2, <2>3, <2>6, <3>2 DEF FieldOf, TailOf, e, x, lane
  <2> QED
    BY <2>1, <2>4, <2>5, <2>6
<1> QED
  BY <1>1, <1>2

LEMMA TailIsShort ==
  ASSUME NEW f, NEW v
  PROVE  IsSeq(TailOf(f, v)) /\ Len(TailOf(f, v)) \in 0..2
<1> DEFINE Short(s) == IsSeq(s) /\ Len(s) \in 0..2
<1>1. Short(<<>>) /\ (\A a : Short(<<a>>)) /\ (\A a, b : Short(<<a, b>>))
  <2>1. \A a, b : Len(<<>>) = 0 /\ Len(<<a>>) = 1 /\ Len(<<a, b>>) = 2
    OBVIOUS
  <2> QED
    BY <2>1, ShortSeqs
<1> HIDE DEF Short
<1>2. ASSUME NEW field, NEW code
      PROVE  Short(SevenBits(v, field, code, 6).post)
  <2>1. SevenBits(v, field, code, 6).post =
               IF is_nbit(v, 7) THEN <<>>
               ELSE IF is_nbit(v, 46) THEN <<First(code, 7, 39)>>
               ELSE <<First(code, 7, 39), Second(code, 46, 18)>>
    BY DEF SevenBits, Effect
  <2> QED
    BY <1>1, <2>1, Zenon
<1>3. f = "RI" => Short(TailOf(f, v))
  BY <1>1, Zenon DEF TailOf
<1>4. f # "RI" => Short(TailOf(f, v))
  BY <1>1, <1>2 DEF TailOf
<1> QED
  BY <1>3, <1>4 DEF Short

LEMMA CpfxOfNone ==
  ASSUME NEW s, IsSeq(s), Len(s) \in 0..4
  PROVE  encode_cpfx(s, <<>>) = s /\ encode_cpfx(<<>>, s) = s
<1>1. PICK S : s \in Seq(S)
  BY DEF IsSeq
<1>2. s \o <<>> = s /\ <<>> \o s = s
  BY <1>1
<1>3. SubSeq(s, 1, Len(s)) = s
  BY <1>1
<1>4. (IF Len(s) < 4 THEN Len(s) ELSE 4) = Len(s)
  OBVIOUS
<1> QED
  BY <1>2, <1>3, <1>4 DEF encode_cpfx

(* A register is written as a register and leaves no relocation.           *)
LEMMA RegistersAreNumbers ==
  ASSUME NEW op \in AllOperands, op.kind = "REG"
  PROVE  op.form = "num"
<1>1. NextRegister.form = "num"
  BY DEF NextRegister, Operand
<1>2. \A s, float : DataOperand(s, float).kind # "REG"
  BY DEF DataOperand, Operand
<1>3. ASSUME NEW s \in Sources, parse_operand(s).kind = "REG" PROVE parse_operand(s).form = "num"
  <2>0. s.t \in {"reg", "vm", "lk", "pred", "imm", "mem", "ind"}
    BY SourcesAssumption
  <2>1. CASE s.t \in {"reg", "vm", "lk", "pred"}
    BY <2>1 DEF parse_operand, Operand
  <2>2. CASE s.t = "imm"
    <3>1. parse_operand(s).kind = "IMM"
      BY <2>2 DEF parse_operand, Operand
    <3> QED
      BY <1>3, <3>1
  <2>3. CASE s.t = "mem"
    <3>1. parse_idx(s).kind \in {"REGIND", "SCNDX"}
      BY DEF parse_idx, Operand
    <3>2. parse_operand(s).kind = parse_idx(s).kind
      BY <2>3 DEF parse_operand, parse_idx, Operand
    <3> QED
      BY <1>3, <3>1, <3>2
  <2>4. CASE s.t = "ind"
    <3>1. parse_operand(s).kind = "IND_SCNDX"
      BY <2>4 DEF parse_operand, parse_idx, Operand
    <3> QED
      BY <1>3, <3>1
  <2> QED
    BY <2>0, <2>1, <2>2, <2>3, <2>4
<1> QED
  BY <1>1, <1>2, <1>3 DEF AllOperands

(* The relocations of a constant                                           *)
LEMMA ConstantRelocs ==
  ASSUME NEW f \in Patched, NEW k, NEW op, NEW size, NEW sd, NEW r \in make_reloc(f, k, op, size, sd)
  PROVE  r.op = k /\ r.v = op.v /\ PlacesOf(make_reloc(f, k, op, size, sd)) = PatchesOf(f, op.v)
<1> USE DEF Patched
<1> DEFINE pieces == RelocPieces(f, k, op, size)
           T(x) == IF f = "REGIND" /\ sd THEN "SD" ELSE get_reloc_type(f, k, op.attr)
           New(x) == [op |-> k, v |-> op.v, at |-> x, type |-> T(x)]
<1>1. make_reloc(f, k, op, size, sd) = {New(x) : x \in pieces}
  BY DEF make_reloc
<1>2. pieces # {}
  BY <1>1
<1>3. pieces = PatchesOf(f, op.v)
  <2>1. 8 * 0 + 14 = 14 /\ 8 * 0 + 21 = 21 /\ 8 * 6 + 9 = 57
    OBVIOUS
  <2>2. CASE f = "J4"
    <3>1. pieces = JumpRelocs(f, op.v)
      BY <1>2, <2>2 DEF RelocPieces, is_branch
    <3>2. JumpRelocs(f, op.v) = {Reloc(1, 34, 14, 0)}
      BY <2>2 DEF JumpRelocs
    <3> HIDE DEF pieces
    <3> QED
      BY <2>1, <2>2, <3>1, <3>2 DEF Reloc, PatchesOf
  <2>3. CASE f = "RI"
    <3>1. pieces = ImmediateRelocs(f, op.v)
      BY <1>2, <2>3 DEF RelocPieces, is_branch
    <3>2. ImmediateRelocs(f, op.v) = {Reloc(0, 25, 21, 0)} \cup (IF is_nbit(op.v, 25) THEN {} ELSE {Reloc(25, 39, 9, 6)})
      BY <2>3 DEF ImmediateRelocs
    <3> HIDE DEF pieces
    <3>3. Reloc(0, 25, 21, 0) = <<0, 25, 21>> /\ Reloc(25, 39, 9, 6) = <<25, 39, 57>>
      BY <2>1 DEF Reloc
    <3> QED
      BY <2>3, <3>1, <3>2, <3>3 DEF PatchesOf
  <2> QED
    BY <2>2, <2>3
<1> HIDE DEF pieces, T
<1>4. {q.at : q \in {New(x) : x \in pieces}} = pieces
  <2>1. \A x : New(x).at = x
    OBVIOUS
  <2> HIDE DEF New
  <2> QED
    BY <2>1
<1>5. r.op = k /\ r.v = op.v
  BY <1>1
<1> QED
  BY <1>1, <1>3, <1>4, <1>5 DEF PlacesOf

LEMMA InitTail == Init => TailInv
  BY DEF Init, TailInv

LEMMA StartTail ==
  ASSUME OperandsInv, StartEmitting
  PROVE  TailInv'
<1>1. placed' = {} /\ relocs' = {} /\ post' = <<>> /\ row' = row /\ i' = 0 /\ word' = {}
  BY DEF StartEmitting, OperandsInv
<1> QED
  BY <1>1 DEF TailInv, LanesHold

LEMMA DataTail ==
  ASSUME OperandsInv, TailInv, EvalData
  PROVE  TailInv'
<1> DEFINE n == 8 * row.len
<1>1. row.f = "DATA" /\ row' = row /\ row \in AnyRow /\ post' = post
  BY DEF EvalData, OperandsInv
<1>2. PICK op \in Given :
        /\ placed' = {[op |-> 0, kind |-> "DATA", form |-> op.form, v |-> op.v,
                       pieces |-> {<<0, n, 0>>}, all |-> FALSE]}
        /\ relocs' = {[op |-> 0, v |-> op.v, at |-> r, type |-> "ABS"] :
                          r \in UNION {QuplsDataRelocs(op.form, type) : type \in row.tags}}
  BY DEF EvalData
<1>3. post = <<>>
  BY <1>1 DEF TailInv
<1>4. PICK d \in Directives : row.tags = {qupls_data_operand(d)} /\ row.len = d.bits \div 8
  BY <1>1, DataRows
<1>5. RelocBits[qupls_data_operand(d)] = n
  <2>1. /\ d.bits \in {8, 16, 32, 64} /\ d.float \in BOOLEAN
        /\ d.float => d.bits \in {32, 64}
    BY Zenon DEF Directives
  <2>2. n = d.bits
    BY <1>4, <2>1
  <2>3. d.float => qupls_data_operand(d) = IF d.bits > 32 THEN "F64" ELSE "F32"
    BY DEF qupls_data_operand
  <2>4. ~d.float => qupls_data_operand(d) = CASE d.bits <= 8 -> "D8" [] d.bits \in 9..16 -> "D16"
                                             [] d.bits \in 17..32 -> "D32" [] OTHER -> "D64"
    BY DEF qupls_data_operand
  <2> HIDE DEF n
  <2>5. CASE d.float
    BY <2>1, <2>2, <2>3, <2>5 DEF RelocBits
  <2>6. CASE ~d.float
    <3>1. /\ d.bits = 8 => qupls_data_operand(d) = "D8"
          /\ d.bits = 16 => qupls_data_operand(d) = "D16"
          /\ d.bits = 32 => qupls_data_operand(d) = "D32"
          /\ d.bits = 64 => qupls_data_operand(d) = "D64"
      BY <2>4, <2>6
    <3> QED
      BY <2>1, <2>2, <3>1 DEF RelocBits
  <2> QED
    BY <2>5, <2>6
<1> HIDE DEF n
<1>6. ASSUME NEW r \in relocs' PROVE r.op = 0 /\ r.at = <<0, n, 0>> /\ r.v = op.v /\ op.form # "flt"
  <2>1. PICK x \in QuplsDataRelocs(op.form, qupls_data_operand(d)) : r = [op |-> 0, v |-> op.v, at |-> x, type |-> "ABS"]
    BY <1>2, <1>4
  <2> QED
    BY <1>5, <2>1 DEF QuplsDataRelocs
<1>7. \A p \in placed' : p.op = 0 /\ p.pieces = {<<0, n, 0>>} /\ p.form = op.form /\ p.v = op.v
  BY <1>2
<1>8. placed' # {}
  BY <1>2
<1>9. row.f \notin ConstantFormats
  BY <1>1, ConstantIsOpen
<1> QED
  BY <1>1, <1>3, <1>6, <1>7, <1>8, <1>9 DEF TailInv, n

LEMMA StepTail ==
  ASSUME OperandsInv, TypesInv, LanesInv, TailInv, NEW op \in Given, Step(op)
  PROVE  TailInv'
<1>1. /\ row \in mnemonics /\ row.f \in Formats /\ GoodRow(row) /\ op.kind \in May(row.f, i + 1)
      /\ i' = i + 1 /\ i \in 0..Len(row.ops) - 1 /\ row' = row /\ db' = db /\ Fills(row.ops[i + 1], op)
  BY EncodedRow, StepAdvances
<1>2. row.f # "DATA" /\ i \in Nat
  BY <1>1, NamedFormats
<1> SUFFICES ASSUME db, row.f \in ConstantFormats, ~LabelMisplaced'
             PROVE  /\ LanesHold(word', row, i', placed', {})
                    /\ \A p \in placed' : IF p.kind = "IMM" THEN HoldsConstant(row.f, post', p) ELSE p.op # PlaceOf(row.f)
                    /\ (\A p \in placed' : p.kind # "IMM") => post' = <<>> /\ relocs' = {}
                    /\ row.f \in Patched /\ "NEGIMM" \notin row.tags => \A r \in relocs' : Patches(row.f, placed', relocs', r)
  BY <1>1, <1>2 DEF TailInv
<1> DEFINE f == row.f
           c == PlaceOf(row.f)
           e == EffectOf(op)
           new == Held(op, e, e.pieces)
<1>3. (op.kind = "REG" /\ i # c) \/ (op.kind = "IMM" /\ i = c)
  BY <1>1, <1>2, ConstantPlaces
<1>4. Encodes(op) /\ Advance(op)
  BY <1>3 DEF Step, Skips
<1>5. Besides(row, i, op, Value(op)) = {}
  BY <1>3 DEF Besides
<1>6. EncodesAs(op, e, {})
  BY <1>4, <1>5 DEF Encodes
<1>7. placed' = placed \cup {new} /\ post' = encode_cpfx(post, Tagged(e))
  BY <1>6 DEF EncodesAs
<1>8. new.op = i /\ new.kind = op.kind /\ new.form = op.form /\ new.v = e.v /\ new.pieces = e.pieces
  BY DEF Held
<1>9. ~LabelMisplaced
  BY <1>1, <1>7 DEF LabelMisplaced
<1>10. /\ LanesHold(word, row, i, placed, {})
       /\ \A p \in placed : IF p.kind = "IMM" THEN HoldsConstant(row.f, post, p) ELSE p.op # c
       /\ (\A p \in placed : p.kind # "IMM") => post = <<>> /\ relocs = {}
       /\ row.f \in Patched /\ "NEGIMM" \notin row.tags => \A r \in relocs : Patches(row.f, placed, relocs, r)
  BY <1>9 DEF TailInv
<1>11. \A p \in placed : p.op \in 0..i - 1
  BY DEF LanesInv
<1>12. op = ops[i + 1] /\ op \in AllOperands
  <2>1. op = ops[i + 1] /\ Len(ops) = Len(row.ops) /\ ops \in Seq(AllOperands)
    BY DEF Given, OperandsInv
  <2>2. i + 1 \in 1..Len(ops)
    BY <1>1, <2>1, StepAdvances
  <2> QED
    BY <2>1, <2>2
<1>13. PICK sd : relocs' = relocs \cup make_reloc(row.f, i, op, row.len, sd)
  <2>1. PICK sd \in BaseIsSdreg(op) : relocs' = fix_reloctype(op, relocs \cup make_reloc(row.f, i, op, row.len, sd))
    BY <1>4, Zenon DEF Advance
  <2> QED
    BY <1>3, <2>1 DEF fix_reloctype
<1>14. row.f \in Open
  BY ConstantIsOpen
<1>15. CASE op.kind = "REG" /\ i # c
  <2>0. e = encode_reg(row.f, op.reg, i, isize)
    BY <1>15 DEF EffectOf, Part
  <2>1. e = WithSet(Effect(op.reg, {RegField(row.f, i)}, isize), FirstBits(row.f, i))
    <3>1. "REG" \in May(row.f, i + 1)
      BY <1>1, <1>15
    <3> HIDE DEF e
    <3> QED
      BY <1>1, <1>2, <2>0, <3>1, RegisterEffect, Zenon
  <2>2. e.post = <<>>
    BY <2>1 DEF Effect, WithSet
  <2>3. Kept(e, {}, Lane(row.f, Len(row.ops), i), {})
    <3>1. Lies({RegField(row.f, i)}, Lane(row.f, Len(row.ops), i))
      BY <1>1, <1>2, <1>14, <1>15, RegisterLies DEF ConstantFormats
    <3>2. Lane(row.f, Len(row.ops), i) \subseteq 7..47
      BY <1>2, LanesApart, Zenon
    <3>3. FirstBits(row.f, i) \subseteq 54..56
      BY <1>14, PredicateAbove, Zenon
    <3>4. Lane(row.f, Len(row.ops), i) \cap {} = {}
      OBVIOUS
    <3> HIDE DEF e
    <3> QED
      BY <2>1, <3>1, <3>2, <3>3, <3>4, KeptRegister, Zenon
  <2> HIDE DEF e, new, c
  <2>4. post' = post
    <3>1. Tagged(e) = <<>>
      BY <2>2 DEF Tagged
    <3> QED
      BY <1>7, <3>1, CpfxOfNone DEF TypesInv
  <2>5. relocs' = relocs
    <3>1. op.form = "num"
      BY <1>12, <1>15, RegistersAreNumbers
    <3>2. make_reloc(row.f, i, op, row.len, sd) = {}
      BY <3>1 DEF make_reloc, RelocPieces
    <3> QED
      BY <1>13, <3>2
  <2>6. word' = Or(word, e, {})
    BY <1>6, <2>3 DEF EncodesAs, Or, Kept
  <2>7. LanesHold(word', row, i', placed', {})
    BY <1>1, <1>2, <1>7, <1>8, <1>10, <1>11, <2>3, <2>6, LanesHoldNext
  <2>8. ASSUME NEW p \in placed' PROVE IF p.kind = "IMM" THEN HoldsConstant(row.f, post', p) ELSE p.op # c
    <3>1. CASE p \in placed
      BY <1>10, <2>4, <3>1
    <3>2. CASE p = new
      BY <1>8, <1>15, <3>2
    <3> QED
      BY <1>7, <3>1, <3>2
  <2>9. (\A p \in placed' : p.kind # "IMM") => post' = <<>> /\ relocs' = {}
    BY <1>7, <1>10, <2>4, <2>5
  <2>10. row.f \in Patched /\ "NEGIMM" \notin row.tags => \A r \in relocs' : Patches(row.f, placed', relocs', r)
    <3>1. ASSUME NEW r \in relocs, Patches(row.f, placed, relocs, r) PROVE Patches(row.f, placed', relocs', r)
      BY <1>1, <1>7, <2>5, <3>1 DEF Patches
    <3> QED
      BY <1>10, <2>5, <3>1
  <2> QED
    BY <2>7, <2>8, <2>9, <2>10 DEF c
<1>16. CASE op.kind = "IMM" /\ i = c
  <2>1. Constant(op) \/ row.f \in Patched
    <3> SUFFICES ASSUME ~Constant(op), row.f \in {"RIA", "RIB"} PROVE FALSE
      BY DEF ConstantFormats, Patched
    <3>1. op.form # "num"
      BY DEF Constant, IsConstant
    <3>2. row.f \notin DOMAIN LabelPieces \cup {"DATA", "RI", "DIRECT", "B", "BI", "BZ", "J4"}
      BY DEF LabelPieces
    <3>3. new.kind = "IMM" /\ new.form # "num" /\ new \in placed'
      BY <1>7, <1>8, <1>16, <3>1
    <3> QED
      BY <1>1, <3>2, <3>3 DEF LabelMisplaced
  <2>2. Constant(op) \in BOOLEAN
    BY DEF Constant, IsConstant
  <2>3. /\ e.v = IF row.f = "J4" THEN Value(op) ELSE Negated(row, Value(op))
        /\ e.pieces = {FieldOf(row.f)} /\ e.post = TailOf(row.f, e.v)
        /\ Kept(e, {}, Lane(row.f, Len(row.ops), i), {})
    <3>1. "IMM" \in May(row.f, i + 1) /\ i = PlaceOf(row.f) /\ i \in Nat
      BY <1>1, <1>2, <1>16
    <3>2. e = Part(row, i, op, Value(op), Constant(op), isize)
      BY DEF EffectOf
    <3> HIDE DEF e
    <3>3. GoodRow(row) /\ op.kind = "IMM"
      BY <1>1, <1>16
    <3>4. Leaves(Part(row, i, op, Value(op), Constant(op), isize), row, Value(op), Lane(row.f, Len(row.ops), i))
      BY <2>1, <2>2, <3>1, <3>3, ConstantPart, Zenon
    <3> QED
      BY <3>2, <3>4 DEF Leaves
  <2>4. Value(op) = op.v
    <3>1. Displaced(row.f, i, op.v, pc) = op.v
      BY DEF Displaced, ConstantFormats
    <3> QED
      BY <3>1 DEF Value, EmittedValue
  <2>5. op.v \subseteq 0..63 /\ e.v \subseteq 0..63
    <3>1. op.v \subseteq 0..63
      BY <1>1, <1>16 DEF Fills
    <3>2. Neg(op.v) \subseteq 0..63
      BY DEF Neg
    <3> QED
      BY <2>3, <2>4, <3>1, <3>2 DEF Negated
  <2> HIDE DEF e, new, c
  <2>6. \A p \in placed : p.kind # "IMM" /\ p.op # i
    BY <1>2, <1>10, <1>11, <1>16 DEF HoldsConstant, c
  <2>7. post = <<>> /\ relocs = {}
    BY <1>10, <2>6
  <2>8. IsSeq(Tagged(e)) /\ Len(Tagged(e)) \in 0..4
    BY <2>3, TailIsShort, TaggedPosts
  <2>9. post' = Tagged(e)
    BY <1>7, <2>7, <2>8, CpfxOfNone
  <2>10. word' = Or(word, e, {})
    BY <1>6, <2>3 DEF EncodesAs, Or, Kept
  <2>11. LanesHold(word', row, i', placed', {})
    BY <1>1, <1>2, <1>7, <1>8, <1>10, <1>11, <2>3, <2>10, LanesHoldNext
  <2>12. HoldsConstant(row.f, post', new)
    <3>1. post' = TagsOf(row.f, new)
      BY <1>8, <2>3, <2>9 DEF Tagged, TagsOf
    <3> QED
      BY <1>8, <1>16, <2>3, <2>5, <3>1 DEF HoldsConstant, c
  <2>13. ASSUME NEW p \in placed' PROVE IF p.kind = "IMM" THEN HoldsConstant(row.f, post', p) ELSE p.op # c
    BY <1>7, <1>8, <1>10, <1>16, <2>6, <2>12
  <2>14. new \in placed' /\ new.kind = "IMM"
    BY <1>7, <1>8, <1>16
  <2>15. ASSUME row.f \in Patched, "NEGIMM" \notin row.tags, NEW r \in relocs' PROVE Patches(row.f, placed', relocs', r)
    <3>1. relocs' = make_reloc(row.f, i, op, row.len, sd)
      BY <1>13, <2>7
    <3>2. r.op = i /\ r.v = op.v /\ PlacesOf(relocs') = PatchesOf(row.f, op.v)
      <4>1. r \in make_reloc(row.f, i, op, row.len, sd)
        BY <3>1
      <4>2. row.f \in Patched
        BY <2>15
      <4>3. r.op = i /\ r.v = op.v /\ PlacesOf(make_reloc(row.f, i, op, row.len, sd)) = PatchesOf(row.f, op.v)
        BY <4>1, <4>2, ConstantRelocs
      <4> QED
        BY <3>1, <4>3
    <3>3. new.v = op.v
      BY <1>8, <2>3, <2>4, <2>15 DEF Negated
    <3> QED
      BY <1>1, <1>16, <2>14, <3>2, <3>3 DEF Patches, c
  <2> QED
    BY <2>11, <2>13, <2>14, <2>15 DEF c
<1> QED
  BY <1>3, <1>15, <1>16

(* The bytes written: those of the instruction, and after them those of    *)
(* the postfixes.                                                          *)
LEMMA BytesLow ==
  ASSUME TypesInv, row.f # "DATA", NEW x \in 0..47
  PROVE  /\ x \in Bytes <=> x \in word
         /\ x \in Opcode <=> x \in word
<1>1. Opcode = word \cap 0..47
  BY DEF Opcode
<1>2. DOMAIN post \subseteq Nat \ {0}
  <2>1. PICK S : post \in Seq(S)
    BY DEF TypesInv, IsSeq
  <2> QED
    BY <2>1
<1>3. ASSUME NEW k \in DOMAIN post, NEW b \in Postfixes[k]
      PROVE  48 * k + b # x
  <2>1. k \in Nat \ {0}
    BY <1>2
  <2>2. b \in 0..47
    BY DEF Postfixes
  <2> QED
    BY <2>1, <2>2
<1>4. x \notin UNION {{48 * k + b : b \in Postfixes[k]} : k \in DOMAIN post}
  BY <1>3
<1>5. x \in Opcode <=> x \in word
  BY <1>1
<1> QED
  BY <1>4, <1>5, Zenon DEF Bytes

LEMMA BytesPostfix ==
  ASSUME row.f # "DATA", DOMAIN post = {1}, NEW x \in 0..47
  PROVE  48 + x \in Bytes <=> x \in PostfixWord(post[1].v, post[1].pfx)
<1> DEFINE w == PostfixWord(post[1].v, post[1].pfx)
<1>1. 48 + x \notin Opcode
  <2>1. Opcode = word \cap 0..47
    BY DEF Opcode
  <2> QED
    BY <2>1
<1>2. Postfixes[1] = w \cap 0..47
  BY DEF Postfixes
<1> HIDE DEF w
<1>3. UNION {{48 * k + b : b \in Postfixes[k]} : k \in DOMAIN post} = {48 * 1 + b : b \in Postfixes[1]}
  OBVIOUS
<1>4. 48 + x \in {48 * 1 + b : b \in Postfixes[1]} <=> x \in w
  <2>1. \A b \in 0..47 : 48 * 1 + b = 48 + x <=> b = x
    OBVIOUS
  <2> QED
    BY <1>2, <2>1
<1> QED
  BY <1>1, <1>3, <1>4 DEF Bytes, w

(* A piece of the instruction is read back from the bytes written.         *)
LEMMA PieceInBytes ==
  ASSUME TypesInv, row.f # "DATA", NEW pieces \in SUBSET Layout, NEW lane, lane \subseteq 7..47, Span(pieces) \subseteq lane
  PROVE  Get(Bytes, pieces) = Get(word, pieces)
<1>1. \A x \in lane : x \in Bytes <=> x \in word
  <2>1. \A x \in lane : x \in 0..47
    OBVIOUS
  <2> QED
    BY <2>1, BytesLow
<1>2. Bytes \cap lane = word \cap lane
  BY <1>1
<1> QED
  BY <1>2, GetLocal

Codes == {60, 61}

LEMMA CodeBits ==
  ASSUME NEW code \in Codes
  PROVE  BitsOf(code) = (IF code = 60 THEN {2, 3, 4, 5} ELSE {0, 2, 3, 4, 5})
<1> USE DEF Codes
<1>1. CASE code = 60
  BY <1>1, ByteBits
<1>2. CASE code = 61
  BY <1>2, ByteBits
<1> QED
  BY <1>1, <1>2

(* The postfix of a constant, bit by bit                                   *)
Carries(w, v, code, n) ==
  \A x \in 0..47 : x \in w <=> IF x < 9 THEN x \in BitsOf(code) ELSE x - 9 + n \in v

LEMMA FirstWord ==
  ASSUME NEW v, NEW code \in Codes, NEW n \in Nat
  PROVE  Carries(PostfixWord(v, First(code, n, 39)) \cap 0..47, v, code, n)
<1> DEFINE w == PostfixWord(v, First(code, n, 39))
<1>1. w = BitsOf(code) \cup {} \cup PutPiece(v, <<n, 39, 9>>)
  BY DEF PostfixWord, First
<1>2. PutPiece(v, <<n, 39, 9>>) = {b \in 9..9 + 39 - 1 : b - 9 + n \in v}
  BY DEF PutPiece
<1>3. \A b \in BitsOf(code) : b \in 0..7
  BY DEF BitsOf
<1> HIDE DEF w
<1>4. Carries(w \cap 0..47, v, code, n)
  BY <1>1, <1>2, <1>3 DEF Carries
<1> QED
  BY <1>4 DEF w

-----------------------------------------------------------------------------
(* The relocations of a label name the bits that it was put into.          *)
LEMMA DataPatched ==
  ASSUME TailInv, LanesInv, row.f = "DATA", NEW r \in relocs
  PROVE  /\ Get(Bytes, {r.at}) = r.v \cap Carried({r.at})
         /\ \A p \in placed : p.op = r.op => Carried(p.pieces) \subseteq Carried({q.at : q \in relocs})
<1> DEFINE piece == <<0, 8 * row.len, 0>>
<1>1. post = <<>> /\ (\A p \in placed : p.pieces = {piece}) /\ r.at = piece
  BY DEF TailInv
<1>2. PICK p \in placed : p.form # "flt" /\ p.v = r.v
  BY DEF TailInv
<1>3. Get(word \cap 0..63, p.pieces) = p.v \cap Carried(p.pieces)
  BY <1>2 DEF LanesInv, ItemReadsBack
<1>4. Bytes = word \cap 0..63
  <2>1. DOMAIN post = {}
    BY <1>1
  <2>2. UNION {{48 * k + b : b \in Postfixes[k]} : k \in DOMAIN post} = {}
    BY <2>1
  <2>3. Opcode = word \cap 0..63
    BY DEF Opcode
  <2> QED
    BY <2>2, <2>3 DEF Bytes
<1> HIDE DEF piece
<1>5. Get(Bytes, {r.at}) = r.v \cap Carried({r.at})
  BY <1>1, <1>2, <1>3, <1>4
<1>6. piece \in {q.at : q \in relocs}
  BY <1>1
<1>7. Carried({piece}) \subseteq Carried({q.at : q \in relocs})
  BY <1>6 DEF Carried
<1> QED
  BY <1>1, <1>5, <1>7

LEMMA ConstantPatched ==
  ASSUME TypesInv, TailInv, db, row.f \in Patched, "NEGIMM" \notin row.tags, NEW r \in relocs
  PROVE  /\ Get(Bytes, {r.at}) = r.v \cap Carried({r.at})
         /\ \A p \in placed : p.op = r.op => Carried(p.pieces) \subseteq Carried({q.at : q \in relocs})
<1> DEFINE f == row.f
<1>1. f \in ConstantFormats /\ f # "DATA" /\ ~LabelMisplaced
  BY DEF Patched, ConstantFormats, LabelMisplaced
<1>2. /\ LanesHold(word, row, i, placed, {})
      /\ \A p \in placed : IF p.kind = "IMM" THEN HoldsConstant(f, post, p) ELSE p.op # PlaceOf(f)
      /\ Patches(f, placed, relocs, r)
  BY <1>1 DEF TailInv
<1>3. r.op = PlaceOf(f) /\ {q.at : q \in relocs} = PatchesOf(f, r.v)
  BY <1>2 DEF Patches, PlacesOf
<1>4. PICK p \in placed : p.kind = "IMM" /\ p.v = r.v
  BY <1>2 DEF Patches
<1>5. \A q \in placed : q.op = PlaceOf(f) => HoldsConstant(f, post, q)
  BY <1>2
<1>6. p.op = PlaceOf(f) /\ p.pieces = {FieldOf(f)} /\ post = TagsOf(f, p)
  BY <1>2, <1>4 DEF HoldsConstant
<1>7. FieldOf(f) \in PatchesOf(f, r.v)
  BY DEF FieldOf, PatchesOf, Patched
<1>8. r.at \in PatchesOf(f, r.v)
  BY <1>3
<1>9. Get(Bytes, {FieldOf(f)}) = r.v \cap Carried({FieldOf(f)})
  <2> DEFINE lane == Lane(f, Len(row.ops), p.op)
  <2>1. ReadsBack(word, p, lane, {})
    BY <1>2 DEF LanesHold
  <2>2. lane \subseteq 7..47
    <3>1. p.op \in Nat
      BY <1>6 DEF PlaceOf
    <3> QED
      BY <3>1, LanesApart, Zenon
  <2> HIDE DEF lane
  <2>3. Get(Bytes, p.pieces) = Get(word, p.pieces)
    BY <1>1, <2>1, <2>2, PieceInBytes DEF ReadsBack, Lies
  <2> QED
    BY <1>4, <1>6, <2>1, <2>3 DEF ReadsBack
<1>10. CASE r.at # FieldOf(f)
  <2>1. f = "RI" /\ ~is_nbit(r.v, 25) /\ r.at = <<25, 39, 57>>
    BY <1>8, <1>10 DEF FieldOf, PatchesOf, Patched
  <2>2. TailOf(f, p.v) = <<First(61, 25, 39)>>
    BY <1>4, <2>1 DEF TailOf
  <2>3. DOMAIN post = {1} /\ post[1].v = r.v /\ post[1].pfx = First(61, 25, 39)
    BY <1>4, <1>6, <2>2 DEF TagsOf
  <2>4. ASSUME NEW b \in 25..63 PROVE b + 32 \in Bytes <=> b \in r.v
    <3> DEFINE x == b - 16
    <3>1. x \in 0..47 /\ ~(x < 9) /\ 48 + x = b + 32 /\ x - 9 + 25 = b
      OBVIOUS
    <3>2. x \in PostfixWord(r.v, First(61, 25, 39)) <=> x - 9 + 25 \in r.v
      <4>1. Carries(PostfixWord(r.v, First(61, 25, 39)) \cap 0..47, r.v, 61, 25)
        BY FirstWord DEF Codes
      <4> QED
        BY <3>1, <4>1 DEF Carries
    <3>3. 48 + x \in Bytes <=> x \in PostfixWord(post[1].v, post[1].pfx)
      BY <1>1, <2>3, <3>1, BytesPostfix
    <3> HIDE DEF x
    <3> QED
      BY <2>3, <3>1, <3>2, <3>3
  <2>5. Get(Bytes, {r.at}) = {b \in 25..63 : b + 32 \in Bytes}
    <3>1. Get(Bytes, {r.at}) = {b \in 25..25 + 39 - 1 : b - 25 + 57 \in Bytes}
      BY <2>1 DEF Get
    <3>2. 25 + 39 - 1 = 63 /\ \A b \in 25..63 : b - 25 + 57 = b + 32
      OBVIOUS
    <3> QED
      BY <3>1, <3>2
  <2>6. Carried({r.at}) = 25..63
    <3>1. 25 + 39 - 1 = 63
      OBVIOUS
    <3> QED
      BY <2>1, <3>1 DEF Carried
  <2>7. Get(Bytes, {r.at}) = r.v \cap Carried({r.at})
    BY <2>4, <2>5, <2>6
  <2> QED
    BY <1>3, <1>5, <1>7, <2>7 DEF HoldsConstant, Carried
<1>11. CASE r.at = FieldOf(f)
  BY <1>3, <1>5, <1>7, <1>9, <1>11 DEF HoldsConstant, Carried
<1> QED
  BY <1>10, <1>11

LEMMA PatchesHold == TypesInv /\ LanesInv /\ TailInv => RelocsPatchTheField
<1> SUFFICES ASSUME TypesInv, LanesInv, TailInv, Done, row.f \in {"RI", "J4", "DATA"}, "NEGIMM" \notin row.tags,
                    NEW r \in relocs
             PROVE  /\ Get(Bytes, {r.at}) = r.v \cap Carried({r.at})
                    /\ \A p \in placed : p.op = r.op => Carried(p.pieces) \subseteq Carried({q.at : q \in relocs})
  BY DEF RelocsPatchTheField
<1>1. CASE row.f = "DATA"
  BY <1>1, DataPatched
<1>2. CASE row.f # "DATA"
  <2>1. db /\ row.f \in Patched
    BY <1>2 DEF Done, Patched
  <2> QED
    BY <2>1, ConstantPatched
<1> QED
  BY <1>1, <1>2

(* The loop over the postfixes, for none and for one                       *)
LEMMA NoWord == vpfx(<<>>) = <<>>
<1>1. Len(<<>>) = 0 /\ 0..0 = {0}
  OBVIOUS
<1>2. (CHOOSE k \in 0..Len(<<>>) :
                /\ \A j \in 1..k : IsPostfix(<<>>[j])
                /\ k < Len(<<>>) => ~IsPostfix(<<>>[k+1])) = 0
  BY <1>1
<1>3. SubSeq(<<>>, 1, 0) = <<>>
  OBVIOUS
<1> QED
  BY <1>2, <1>3 DEF vpfx

LEMMA OneWord ==
  ASSUME NEW w, IsPostfix(w)
  PROVE  vpfx(<<w>>) = <<w>>
<1> DEFINE P(k) == /\ \A j \in 1..k : IsPostfix(<<w>>[j])
                   /\ k < Len(<<w>>) => ~IsPostfix(<<w>>[k+1])
           n == CHOOSE k \in 0..Len(<<w>>) : P(k)
<1>1. Len(<<w>>) = 1 /\ <<w>>[1] = w
  OBVIOUS
<1>2. P(1)
  <2>1. \A j \in 1..1 : j = 1
    OBVIOUS
  <2> QED
    BY <1>1, <2>1
<1>3. ~P(0)
  <2>1. 0 < Len(<<w>>) /\ <<w>>[0+1] = w
    BY <1>1
  <2> QED
    BY <2>1
<1>4. \A k \in 0..Len(<<w>>) : k = 0 \/ k = 1
  BY <1>1
<1>5. 1 \in 0..Len(<<w>>)
  BY <1>1
<1>6. n = 1
  <2> HIDE DEF P
  <2> QED
    BY <1>2, <1>3, <1>4, <1>5
<1>7. vpfx(<<w>>) = SubSeq(<<w>>, 1, IF n < 6 THEN n ELSE 6)
  BY DEF vpfx
<1> HIDE DEF n
<1>8. vpfx(<<w>>) = SubSeq(<<w>>, 1, 1)
  BY <1>6, <1>7
<1>9. SubSeq(<<w>>, 1, 1) = <<w>>
  <2>1. PICK S : <<w>> \in Seq(S)
    BY ShortSeqs, Zenon DEF IsSeq
  <2> DEFINE s == <<w>>
  <2>2. Len(s) = 1 /\ s \in Seq(S)
    BY <2>1
  <2> HIDE DEF s
  <2>3. SubSeq(s, 1, Len(s)) = s
    BY <2>2
  <2> QED
    BY <2>2, <2>3 DEF s
<1> QED
  BY <1>8, <1>9

LEMMA OneConstant ==
  ASSUME NEW w, NEW which, IsPostfix(w), For(w, which)
  PROVE  has_cnst(<<w>>, which) /\ cnst(<<w>>, which) = Merge({}, w)
<1>1. vpfx(<<w>>) = <<w>>
  BY OneWord
<1>2. 1 \in DOMAIN <<w>> /\ <<w>>[1] = w /\ Len(<<w>>) = 1
  OBVIOUS
<1>3. has_cnst(<<w>>, which)
  BY <1>1, <1>2, Zenon DEF has_cnst
<1> DEFINE p == vpfx(<<w>>)
           Loops(g) == g = [k \in 0..Len(p) |->
              IF k = 0 THEN {} ELSE IF For(p[k], which) THEN Merge(g[k-1], p[k]) ELSE g[k-1]]
           m == Merge({}, w)
           h == [k \in 0..Len(p) |-> IF k = 0 THEN {} ELSE m]
           c == CHOOSE g : Loops(g)
<1>4. Len(p) = 1 /\ p[1] = w
  BY <1>1, <1>2
<1>5. Loops(h)
  <2> DEFINE x == [k \in 0..Len(p) |->
              IF k = 0 THEN {} ELSE IF For(p[k], which) THEN Merge(h[k-1], p[k]) ELSE h[k-1]]
  <2>1. ASSUME NEW k \in 0..Len(p) PROVE h[k] = x[k]
    <3>1. CASE k = 0
      BY <3>1
    <3>2. CASE k = 1
      <4>1. h[k] = m /\ h[k-1] = {} /\ p[k] = w
        BY <1>4, <3>2
      <4>2. x[k] = IF For(p[k], which) THEN Merge(h[k-1], p[k]) ELSE h[k-1]
        BY <3>2
      <4> HIDE DEF x, h, p
      <4> QED
        BY <4>1, <4>2
    <3> QED
      BY <1>4, <3>1, <3>2
  <2>2. h = x
    <3> HIDE DEF p, m
    <3> QED
      BY <2>1
  <2> QED
    BY <2>2
<1>6. Loops(c)
  <2> HIDE DEF Loops
  <2> QED
    BY <1>5
<1>7. cnst(<<w>>, which) = c[Len(p)]
  BY DEF cnst
<1> HIDE DEF c, p
<1>8. c[0] = {} /\ c[1] = m
  <2>1. c[0] = {}
    BY <1>4, <1>6
  <2>2. c[1] = IF For(p[1], which) THEN Merge(c[1-1], p[1]) ELSE c[1-1]
    BY <1>4, <1>6
  <2>3. 1 - 1 = 0
    OBVIOUS
  <2> QED
    BY <1>4, <2>1, <2>2, <2>3
<1> QED
  BY <1>3, <1>4, <1>7, <1>8

-----------------------------------------------------------------------------
(* A number that fits the field is its sign extension; one that fits the   *)
(* field and 39 bits more is put together from the field and the postfix.  *)
LEMMA FieldDecoded ==
  ASSUME NEW v \in SUBSET (0..63), NEW n \in 1..25, FitsSigned(v, n)
  PROVE  SignExtended(v \cap 0..n - 1, n) \cap 0..63 = v
<1>1. v = (v \cap Low(n)) \cup (IF n - 1 \in v THEN n - 1..63 ELSE {})
  <2>1. n \in 1..64
    OBVIOUS
  <2> QED
    BY <2>1, SignedRangeIsExact
<1> DEFINE field == v \cap 0..n - 1
<1>2. n - 1 \in field <=> n - 1 \in v
  OBVIOUS
<1>4. \A b \in 0..63 : b \in SignExtended(field, n) <=> b \in v
  <2>1. \A b \in 0..63 : b \in field <=> b \in v /\ b < n
    OBVIOUS
  <2>2. \A b \in 0..63 : b \in SignExtended(field, n) <=> b \in field \/ (n - 1 \in v /\ b >= n)
    <3> HIDE DEF field
    <3> QED
      BY <1>2 DEF SignExtended
  <2>3. \A b \in 0..63 : b \in v <=> (b \in v /\ b < n) \/ (n - 1 \in v /\ b >= n - 1)
    BY <1>1 DEF Low
  <2> HIDE DEF field
  <2> QED
    BY <2>1, <2>2, <2>3
<1> HIDE DEF field
<1>5. SignExtended(field, n) \cap 0..63 = v
  BY <1>4
<1> QED
  BY <1>5 DEF field

Joined(field, n, c) == field \cup {b \in n..63 : b - n \in c}

LEMMA PostfixDecoded ==
  ASSUME NEW v \in SUBSET (0..63), NEW n \in 1..25, FitsSigned(v, n + 39), NEW code \in Codes,
         NEW w, Carries(w, v, code, n)
  PROVE  /\ has_cnst(<<w>>, Which(BitsOf(code)))
         /\ Joined(v \cap 0..n - 1, n, cnst(<<w>>, Which(BitsOf(code)))) = v
<1> USE DEF Carries
<1>0. BitsOf(code) = (IF code = 60 THEN {2, 3, 4, 5} ELSE {0, 2, 3, 4, 5})
  BY CodeBits
<1>1. \A x \in 0..8 : x \in w <=> x \in BitsOf(code)
  OBVIOUS
<1>2. IsPostfix(w)
  <2>1. \A x \in 2..6 : x \in w <=> x \in 2..5
    BY <1>0, <1>1
  <2> QED
    BY <2>1 DEF IsPostfix
<1>3. For(w, Which(BitsOf(code))) /\ Quarter(w) = {}
  <2>1. \A x \in 0..1 : x \in w <=> x \in BitsOf(code)
    BY <1>1
  <2>2. 7 \notin w /\ 8 \notin w
    BY <1>0, <1>1
  <2> QED
    BY <2>1, <2>2 DEF For, Which, Quarter
<1> DEFINE e == Extract(w, 9, 39)
           c == SignExtended(e, 39)
<1>4. has_cnst(<<w>>, Which(BitsOf(code))) /\ cnst(<<w>>, Which(BitsOf(code))) = c
  BY <1>2, <1>3, OneConstant DEF Merge
<1>5. \A b \in 0..38 : b \in e <=> b + n \in v
  <2>1. ASSUME NEW b \in 0..38 PROVE b + 9 \in w <=> b + n \in v
    <3>1. b + 9 \in 0..47 /\ ~(b + 9 < 9) /\ b + 9 - 9 + n = b + n
      OBVIOUS
    <3> QED
      BY <3>1
  <2> QED
    BY <2>1 DEF Extract
<1>6. e \subseteq 0..38
  BY DEF Extract
<1>7. v = (v \cap Low(n + 39)) \cup (IF n + 38 \in v THEN n + 38..63 ELSE {})
  <2> DEFINE m == n + 39
  <2>1. m \in 1..64 /\ m - 1 = n + 38 /\ FitsSigned(v, m)
    OBVIOUS
  <2> HIDE DEF m
  <2>2. v = (v \cap Low(m)) \cup (IF m - 1 \in v THEN m - 1..63 ELSE {})
    BY <2>1, SignedRangeIsExact
  <2> QED
    BY <2>1, <2>2 DEF m
<1> HIDE DEF e
<1>8. ASSUME NEW b \in n..63 PROVE b - n \in c <=> b \in v
  <2>1. CASE b < n + 39
    <3>1. b - n \in 0..38 /\ b - n + n = b
      BY <2>1
    <3>2. b - n \in c <=> b - n \in e
      BY <3>1 DEF SignExtended
    <3> QED
      BY <1>5, <3>1, <3>2
  <2>2. CASE b >= n + 39
    <3>1. b - n \in 39..127 /\ b - n \notin e
      BY <1>6, <2>2
    <3>2. b - n \in c <=> 38 \in e
      <4>1. 39 - 1 = 38
        OBVIOUS
      <4> QED
        BY <3>1, <4>1 DEF SignExtended
    <3>3. 38 \in e <=> n + 38 \in v
      <4>1. 38 \in 0..38 /\ 38 + n = n + 38
        OBVIOUS
      <4> QED
        BY <1>5, <4>1
    <3>4. b \in v <=> n + 38 \in v
      BY <1>7, <2>2 DEF Low
    <3> QED
      BY <3>2, <3>3, <3>4
  <2> QED
    BY <2>1, <2>2
<1> HIDE DEF c
<1>10. {b \in n..63 : b - n \in c} = v \cap n..63
  BY <1>8
<1>11. (v \cap 0..n - 1) \cup (v \cap n..63) = v
  <2>1. \A b \in v : b \in 0..n - 1 \/ b \in n..63
    OBVIOUS
  <2> QED
    BY <2>1
<1> QED
  BY <1>4, <1>10, <1>11 DEF Joined

LEMMA SevenParts ==
  ASSUME NEW v, NEW field, NEW code, is_nbit(v, 46)
  PROVE  SevenBits(v, field, code, 6).post = IF is_nbit(v, 7) THEN <<>> ELSE <<First(code, 7, 39)>>
  BY DEF SevenBits, Effect

(* The constant of an instruction: its place, its field and its postfix    *)
LEMMA InstructionConstants ==
  ASSUME NEW f \in DOMAIN InstructionConstant
  PROVE  LET c == InstructionConstant[f]
         IN  /\ f \in ConstantFormats /\ f # "DATA"
             /\ c[1] = PlaceOf(f) /\ c[2] \in 1..25 /\ c[3] \in 7..21 /\ c[2] + c[3] <= 46 /\ c[4] \in Codes
             /\ FieldOf(f) = <<0, c[2], c[3]>>
             /\ \A v : is_nbit(v, c[2] + 39) =>
                  TailOf(f, v) = IF is_nbit(v, c[2]) THEN <<>> ELSE <<First(c[4], c[2], 39)>>
<1>1. f \in {"RI", "RIA", "RIB"}
  BY DEF InstructionConstant
<1> USE DEF Codes
<1>2. 7 + 39 = 46 /\ 25 + 39 = 64
  OBVIOUS
<1>4. CASE f = "RI"
  <2>1. InstructionConstant[f] = <<2, 25, 21, 61>>
    BY <1>4 DEF InstructionConstant
  <2>2. \A v : TailOf(f, v) = IF is_nbit(v, 25) THEN <<>> ELSE <<First(61, 25, 39)>>
    BY <1>4 DEF TailOf
  <2>3. FieldOf(f) = <<0, 25, 21>> /\ PlaceOf(f) = 2 /\ f \in ConstantFormats
    BY <1>4 DEF FieldOf, PlaceOf, ConstantFormats
  <2> QED
    BY <1>4, <2>1, <2>2, <2>3
<1>5. CASE f = "RIA"
  <2>1. InstructionConstant[f] = <<1, 7, 14, 60>>
    BY <1>5 DEF InstructionConstant
  <2>2. ASSUME NEW v, is_nbit(v, 46)
        PROVE  TailOf(f, v) = IF is_nbit(v, 7) THEN <<>> ELSE <<First(60, 7, 39)>>
    <3>1. TailOf(f, v) = SevenBits(v, RS1, 60, 6).post
      BY <1>5 DEF TailOf
    <3>2. SevenBits(v, RS1, 60, 6).post = IF is_nbit(v, 7) THEN <<>> ELSE <<First(60, 7, 39)>>
      BY <2>2, SevenParts
    <3> QED
      BY <3>1, <3>2
  <2>3. FieldOf(f) = <<0, 7, 14>> /\ PlaceOf(f) = 1 /\ f \in ConstantFormats
    BY <1>5 DEF FieldOf, PlaceOf, ConstantFormats
  <2> QED
    BY <1>2, <1>5, <2>1, <2>2, <2>3
<1>6. CASE f = "RIB"
  <2>1. InstructionConstant[f] = <<2, 7, 21, 61>>
    BY <1>6 DEF InstructionConstant
  <2>2. ASSUME NEW v, is_nbit(v, 46)
        PROVE  TailOf(f, v) = IF is_nbit(v, 7) THEN <<>> ELSE <<First(61, 7, 39)>>
    <3>1. TailOf(f, v) = SevenBits(v, RS2, 61, 6).post
      BY <1>6 DEF TailOf
    <3>2. SevenBits(v, RS2, 61, 6).post = IF is_nbit(v, 7) THEN <<>> ELSE <<First(61, 7, 39)>>
      BY <2>2, SevenParts
    <3> QED
      BY <3>1, <3>2
  <2>3. FieldOf(f) = <<0, 7, 21>> /\ PlaceOf(f) = 2 /\ f \in ConstantFormats
    BY <1>6 DEF FieldOf, PlaceOf, ConstantFormats
  <2> QED
    BY <1>2, <1>6, <2>1, <2>2, <2>3
<1> QED
  BY <1>1, <1>4, <1>5, <1>6

(* The decoder puts the number together again.                             *)
LEMMA ConstantsHold == TypesInv /\ TailInv => PostfixesHoldConstant
<1> DEFINE c == InstructionConstant[row.f]
           d == DecodedConstant(c)
           n == c[2]
           code == c[4]
           field == Extract(Opcode, c[3], n)
<1> SUFFICES ASSUME TypesInv, TailInv, Done, row.f \in DOMAIN InstructionConstant,
                    NEW p \in placed, WholeConstant(p, c)
             PROVE  Immediate(field, n, d.has, d.c) = p.v
  BY DEF PostfixesHoldConstant
<1>1. /\ row.f \in ConstantFormats /\ row.f # "DATA"
      /\ c[1] = PlaceOf(row.f) /\ n \in 1..25 /\ c[3] \in 7..21 /\ n + c[3] <= 46 /\ code \in Codes
      /\ FieldOf(row.f) = <<0, n, c[3]>>
      /\ \A v : is_nbit(v, n + 39) =>
            TailOf(row.f, v) = IF is_nbit(v, n) THEN <<>> ELSE <<First(code, n, 39)>>
  BY InstructionConstants
<1>2. d.has = has_cnst(Postfixes, Which(BitsOf(code))) /\ d.c = cnst(Postfixes, Which(BitsOf(code)))
  BY DEF DecodedConstant, Decoded
<1>3. /\ p.op = c[1] /\ p.kind = "IMM" /\ ~LabelMisplaced
      /\ ~OneTooWide(p.v, n) /\ ~OneTooWide(p.v, n + 39) /\ is_nbit(p.v, n + 39)
  BY DEF WholeConstant
<1>4. /\ p.pieces = {<<0, n, c[3]>>} /\ p.v \subseteq 0..63 /\ post = TagsOf(row.f, p)
      /\ ReadsBack(word, p, Lane(row.f, Len(row.ops), p.op), {})
  BY <1>1, <1>3 DEF TailInv, HoldsConstant, LanesHold, Done
<1> HIDE DEF c, d
<1>5. field = p.v \cap 0..n - 1
  <2>1. Get(word, {<<0, n, c[3]>>}) = p.v \cap Carried({<<0, n, c[3]>>})
    BY <1>4 DEF ReadsBack
  <2> DEFINE m == n
             at == c[3]
  <2>2. m \in 1..25 /\ at \in 7..21 /\ m + at <= 46
    BY <1>1
  <2> HIDE DEF m, at
  <2>3. Get(word, {<<0, m, at>>}) = {b \in 0..0 + m - 1 : b - 0 + at \in word}
    BY DEF Get
  <2>4. Carried({<<0, m, at>>}) = 0..0 + m - 1
    BY DEF Carried
  <2>5. ASSUME NEW b \in 0..m - 1 PROVE b + at \in Opcode <=> b \in p.v
    <3>1. b + at \in 0..47 /\ b \in 0..0 + m - 1 /\ b - 0 + at = b + at
      BY <2>2
    <3>2. b + at \in Opcode <=> b + at \in word
      BY <1>1, <3>1, BytesLow
    <3> QED
      BY <2>1, <2>3, <2>4, <3>1, <3>2 DEF m, at
  <2>6. Extract(Opcode, at, m) = p.v \cap 0..m - 1
    BY <2>5 DEF Extract
  <2> QED
    BY <2>6 DEF m, at
<1> HIDE DEF field, n, code
<1>6. CASE is_nbit(p.v, n)
  <2>1. post = <<>>
    BY <1>1, <1>3, <1>4, <1>6 DEF TagsOf
  <2>2. Postfixes = <<>>
    BY <2>1 DEF Postfixes
  <2>3. ~d.has
    BY <1>2, <2>2, NoWord DEF has_cnst
  <2>4. FitsSigned(p.v, n)
    BY <1>3, <1>6 DEF OneTooWide
  <2>5. SignExtended(field, n) \cap 0..63 = p.v
    BY <1>1, <1>4, <1>5, <2>4, FieldDecoded
  <2> QED
    BY <2>3, <2>5, Zenon DEF Immediate
<1>7. CASE ~is_nbit(p.v, n)
  <2> DEFINE w == PostfixWord(p.v, First(code, n, 39)) \cap 0..47
  <2>1. TailOf(row.f, p.v) = <<First(code, n, 39)>>
    BY <1>1, <1>3, <1>7
  <2>2. DOMAIN post = 1..1 /\ post[1].v = p.v /\ post[1].pfx = First(code, n, 39)
    BY <1>4, <2>1 DEF TagsOf
  <2>3. Postfixes = <<w>>
    <3>1. Postfixes = [k \in 1..1 |-> w]
      BY <2>2 DEF Postfixes
    <3> HIDE DEF w
    <3> QED
      BY <3>1
  <2>4. Carries(w, p.v, code, n)
    <3>1. n \in Nat /\ code \in Codes
      BY <1>1
    <3> QED
      BY <3>1, FirstWord, Zenon
  <2>5. FitsSigned(p.v, n + 39)
    BY <1>3 DEF OneTooWide
  <2> HIDE DEF w
  <2>6. /\ has_cnst(<<w>>, Which(BitsOf(code)))
        /\ Joined(p.v \cap 0..n - 1, n, cnst(<<w>>, Which(BitsOf(code)))) = p.v
    <3>1. p.v \in SUBSET (0..63) /\ n \in 1..25 /\ code \in Codes
      BY <1>1, <1>4
    <3> QED
      BY <2>4, <2>5, <3>1, PostfixDecoded, Zenon
  <2>7. d.has /\ d.c = cnst(<<w>>, Which(BitsOf(code)))
    BY <1>2, <2>3, <2>6
  <2>8. Joined(field, n, d.c) = p.v
    BY <1>5, <2>6, <2>7, Zenon
  <2> QED
    BY <2>7, <2>8, Zenon DEF Immediate, Joined
<1> QED
  BY <1>6, <1>7

(***************************************************************************)
(* The inductive invariant: what the operands are, and for each property   *)
(* what it needs of the relocations, the word, the                         *)
(* number of postfixes, the lanes of the operands, and what a constant or  *)
(* a label has left in its field, in the postfixes and in the relocations. *)
(***************************************************************************)
IInv == OperandsInv /\ RelocTypeInv /\ TypesInv /\ SizeInv /\ LanesInv /\ TailInv

LEMMA InitIInv == Init => IInv
<1> SUFFICES ASSUME Init PROVE IInv
  OBVIOUS
<1>1. OperandsInv /\ TypesInv /\ SizeInv /\ LanesInv /\ TailInv
  BY InitOperands, InitTypes, InitSize, InitLanes, InitTail
<1>2. RelocTypeInv
  BY DEF Init, RelocTypeInv
<1> QED
  BY <1>1, <1>2 DEF IInv

LEMMA StartRelocTypes ==
  ASSUME OperandsInv, StartEmitting
  PROVE  RelocTypeInv'
<1>1. relocs' = {}
  BY DEF StartEmitting, OperandsInv
<1> QED
  BY <1>1 DEF RelocTypeInv

LEMMA NextIInv ==
  ASSUME IInv, Next
  PROVE  IInv'
<1>1. OperandsInv /\ RelocTypeInv /\ TypesInv /\ SizeInv /\ LanesInv /\ TailInv
  BY DEF IInv
<1>2. ASSUME NEW op \in Given, Step(op)
      PROVE  OperandsInv' /\ RelocTypeInv' /\ TypesInv' /\ SizeInv' /\ LanesInv' /\ TailInv'
  BY <1>1, <1>2, StepOperands, StepRelocTypes, StepTypes, StepSize, StepLanes, StepTail
<1>3. CASE StartEmitting
  BY <1>1, <1>3, StartOperands, StartRelocTypes, StartTypes, StartSizes, StartLanes, StartTail DEF IInv
<1>4. CASE EvalData
  BY <1>1, <1>4, DataOperands, DataRelocTypes, DataTypes, DataSize, DataLanes, DataTail DEF IInv
<1> QED
  BY <1>1, <1>2, <1>3, <1>4, Steps DEF IInv

(* Every step keeps the inductive invariant.                               *)
THEOREM InductiveInvariant == Spec => []IInv
<1>1. Init => IInv
  BY InitIInv
<1>2. IInv /\ [Next]_vars => IInv'
  <2> SUFFICES ASSUME IInv, [Next]_vars PROVE IInv'
    OBVIOUS
  <2>1. CASE Next
    BY <2>1, NextIInv
  <2>2. CASE UNCHANGED vars
    <3>1. OperandsInv' /\ RelocTypeInv' /\ TypesInv' /\ SizeInv'
      BY <2>2 DEF IInv, OperandsInv, RelocTypeInv, WellTyped, TypesInv, SizeInv,
                  PlainRow, Numbers, Given, Parsed, Taken, ParsedData, vars
    <3>2. LanesInv'
      BY <2>2 DEF IInv, LanesInv, LabelMisplaced, vars
    <3>3. TailInv'
      BY <2>2 DEF IInv, TailInv, LabelMisplaced, vars
    <3> QED
      BY <3>1, <3>2, <3>3 DEF IInv
  <2> QED
    BY <2>1, <2>2
<1> QED
  BY <1>1, <1>2, PTL DEF Spec

(* An instruction has at most four postfixes, its word no bit that the     *)
(* encoder has no name for, and its size stays within the data block.      *)
THEOREM TypesCorrect == Spec => []TypeOK
<1>1. IInv => TypeOK
  BY TypesHold DEF IInv
<1> QED
  BY <1>1, InductiveInvariant, PTL

(* A relocation has the type that was written (modify_reloctype,           *)
(* get_reloc_type), in every row but branches, whose targets have a type   *)
(* of their own, and whatever the operands and their order, but for the    *)
(* immediate that a store writes: it takes the type of the address.        *)
THEOREM RelocTypesWritten == Spec => []RelocTypeAsWritten
<1>1. IInv => RelocTypeAsWritten
  BY RelocTypesHold DEF IInv
<1> QED
  BY <1>1, InductiveInvariant, PTL

(* The sizing call and the emitting call of encode_qupls_instruction agree *)
(* on the postfixes of numbers, operand by operand.                        *)
THEOREM BlockHasTheSize == Spec => []SizesAgree
<1>1. IInv => SizesAgree
  BY SizesHold DEF IInv
<1> QED
  BY <1>1, InductiveInvariant, PTL

(* In every row whose fields are apart, whatever the operands, each is     *)
(* found again in the bytes that encode_qupls_instruction or-ed together,  *)
(* and none covers what the row fixes.                                     *)
THEOREM OperandsSafe == Spec => []OperandsReadBack
<1>1. IInv => OperandsReadBack
  BY ReadBackHolds DEF IInv
<1> QED
  BY <1>1, InductiveInvariant, PTL

(* In immediate formats and far jumps the relocations of a label name the  *)
(* bits of instruction and postfix that it was put into, and all of them;  *)
(* in a data item those that the directive wrote (make_reloc).             *)
THEOREM RelocationsSafe == Spec => []RelocsPatchTheField
<1>1. IInv => RelocsPatchTheField
  BY PatchesHold DEF IInv
<1> QED
  BY <1>1, InductiveInvariant, PTL

(* The field of encode_immed_RI, RIA or RIB and the postfix after it are   *)
(* what the decoder of the processor puts together to the number written.  *)
THEOREM ConstantsSafe == Spec => []PostfixesHoldConstant
<1>1. IInv => PostfixesHoldConstant
  BY ConstantsHold DEF IInv
<1> QED
  BY <1>1, InductiveInvariant, PTL
=============================================================================
