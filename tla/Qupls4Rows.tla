------------------------------ MODULE Qupls4Rows ------------------------------
(***************************************************************************)
(* The shapes of mnemonics[] of the Qupls4 assembler back end              *)
(* (src/software/vasm/cpus/Qupls4): for each row its format, the operands  *)
(* it takes, the fields its opcode fixes by name besides OPC, the flags    *)
(* that the encoder looks at and the length it gives.  Rows that differ    *)
(* only in their mnemonic or in the number of a field have one shape.      *)
(***************************************************************************)
EXTENDS Integers

Rows(f, fixed, tags, len, operands) ==
    {[f |-> f, fixed |-> fixed, tags |-> tags, len |-> len, ops |-> o] : o \in operands}

(* Operand types: the kinds of source operand that each takes *)
Rg == {"REG"}
Im == {"IMM"}
RgIm == {"REG", "IMM"}
Vr == {"VREG"}
VrRg == {"VREG", "REG"}
VrRgIm == {"VREG", "REG", "IMM7"}
Ind == {"REGIND"}
Scn == {"SCNDX"}
ISc == {"IND_SCNDX"}
Lk == {"LK"}
Ps == {"PREDSTR"}
Vs == {"VMSTR"}
Vm == {"VMREG"}
Nx == {"NEXTREG"}       \* omitted in the source, register 0

(* cpu.c, lines 113 to 262 *)
Rows4A == UNION {
    Rows("ATOM", {"FMT2"}, {}, 6, {<<Im>>}),
    Rows("B", {"CM"}, {}, 6, {<<Rg,Rg,Im>>}),
    Rows("B", {"COND"}, {}, 6, {<<RgIm,Im>>, <<Rg,Im,Im>>, <<Rg,Rg,Im>>, <<RgIm,RgIm,Im>>}),
    Rows("B", {}, {}, 6, {<<Im>>}),
    Rows("B2", {"RD"}, {}, 6, {<<Im>>}),
    Rows("BL2", {}, {}, 6, {<<Rg,Im>>}),
    Rows("BZ", {"BRMS","COND"}, {"BZ"}, 6, {<<Rg,Im>>}),
    Rows("R1", {}, {}, 6, {<<>>, <<Rg,Rg>>}),
    Rows("R2", {"FMT3","IM2","R2FUNC"}, {}, 6, {<<Rg,Rg,Rg>>}),
    Rows("R2", {"MS3","OP3","R2FUNC","RS3"}, {}, 6, {<<Rg,Rg,Rg>>}),
    Rows("R2", {"R2FUNC"}, {}, 8, {<<Rg,Rg,Rg>>}),
    Rows("R3", {"MS3","OP3","R3FUNC"}, {}, 6, {<<Rg,Rg,Rg>>}),
    Rows("R3", {"MS3","OP3","R3FUNC","RS3"}, {}, 6, {<<Rg,Rg,Rg>>}),
    Rows("R3", {"OP3","R3FUNC"}, {}, 6, {<<Rg,Rg,Im>>, <<Rg,Rg,Rg>>, <<Rg,Rg,RgIm,RgIm>>}),
    Rows("R3", {"R3FUNC"}, {}, 6, {<<Rg,Rg,RgIm,RgIm>>}),
    Rows("R3", {}, {}, 8, {<<Rg,Rg,Rg>>, <<Rg,Rg,Rg,Im>>, <<Rg,Rg,Rg,Rg>>}),
    Rows("R3", {}, {}, 64, {<<Rg,Rg>>}),
    Rows("R3RR", {}, {}, 8, {<<Nx,Nx,Rg>>, <<Rg,Rg,Rg>>}),
    Rows("RI", {"FUNC3"}, {}, 6, {<<Rg,Rg,Im>>}),
    Rows("RI", {}, {"INTI"}, 6, {<<Rg,Rg,Im>>}),
    Rows("RI", {}, {}, 4, {<<Rg,Rg,Im>>}),
    Rows("RI", {}, {}, 6, {<<Rg,Rg>>}),
    Rows("RI", {}, {}, 8, {<<Rg,Rg,Im>>}),
    Rows("RIA", {"MS3","OP3","R2FUNC","RS3"}, {}, 6, {<<Rg,Im,Rg>>}),
    Rows("RIB", {"MS3","OP3","R2FUNC","RS3"}, {}, 6, {<<Rg,Rg,Im>>}),
    Rows("RIB", {}, {}, 3, {<<Rg,Rg,Im>>})
}

(* cpu.c, lines 263 to 412 *)
Rows4B == UNION {
    Rows("B", {"COND"}, {}, 6, {<<RgIm,RgIm,Im>>}),
    Rows("BITS16", {}, {}, 6, {<<>>}),
    Rows("BITS16", {}, {}, 8, {<<Im>>}),
    Rows("DIRECT", {}, {"LSDISP"}, 3, {<<Rg,Im>>}),
    Rows("DIRECT", {}, {"LSDISP"}, 6, {<<Rg,Im>>}),
    Rows("DIRECT", {}, {"LSDISP"}, 8, {<<Rg,Im>>}),
    Rows("ENTER", {}, {}, 6, {<<Rg,Rg,Rg,Im>>}),
    Rows("INT", {}, {}, 4, {<<Im,Im>>}),
    Rows("J2", {"RD"}, {}, 6, {<<Rg>>, <<Ind>>}),
    Rows("J2", {}, {}, 6, {<<Ind>>}),
    Rows("J4", {"RD"}, {}, 6, {<<Im>>}),
    Rows("J4", {}, {}, 6, {<<Im>>}),
    Rows("JL2", {}, {}, 6, {<<Lk,Ind>>}),
    Rows("JL4", {}, {}, 6, {<<Lk,Im>>}),
    Rows("JSCNDX", {"R2FUNC"}, {}, 6, {<<Lk,ISc>>}),
    Rows("LEAVE", {}, {}, 6, {<<Rg,Rg,Rg,Im>>}),
    Rows("MV", {"BFFUNC","BFMB","BFME"}, {}, 8, {<<Rg,Rg>>}),
    Rows("MV", {"R3FUNC"}, {}, 6, {<<Rg,Rg>>}),
    Rows("MV", {}, {}, 3, {<<Rg,Rg>>}),
    Rows("R1", {"FLT1","FUNC5"}, {"FP"}, 8, {<<VrRg,VrRg>>}),
    Rows("R2", {"FUNC5","RB"}, {"FP"}, 8, {<<VrRg,VrRg>>}),
    Rows("R2", {"FUNC5"}, {"FP"}, 8, {<<VrRg,VrRg,VrRg>>}),
    Rows("R2", {"R2FUNC"}, {}, 8, {<<Rg,Rg,Rg>>}),
    Rows("R3", {"MS3","OP3","R3FUNC"}, {}, 6, {<<Rg,Rg,Rg>>}),
    Rows("R3", {"OP3","R3FUNC"}, {}, 6, {<<Rg,Rg,Im>>, <<Rg,Rg,Rg>>, <<Rg,Rg,RgIm,RgIm>>}),
    Rows("R3", {"R3FUNC"}, {}, 6, {<<Rg,Rg,RgIm,RgIm>>}),
    Rows("R3RR", {}, {}, 8, {<<Rg,Rg,Rg,Rg>>}),
    Rows("REGIND", {}, {"LSDISP"}, 3, {<<Rg,Ind>>}),
    Rows("REGIND", {}, {"LSDISP"}, 6, {<<Rg,Ind>>}),
    Rows("REGIND", {}, {"LSDISP"}, 8, {<<Rg,Ind>>}),
    Rows("RI", {}, {"FP"}, 8, {<<VrRg,VrRg,Im>>}),
    Rows("RI", {}, {"INTI"}, 6, {<<Rg,Rg,Im>>}),
    Rows("RI", {}, {"NEGIMM"}, 8, {<<VrRg,VrRg,Im>>}),
    Rows("RI", {}, {}, 6, {<<Rg,Nx,Im>>}),
    Rows("RI", {}, {}, 8, {<<Rg,Rg,Im>>}),
    Rows("RIA", {"R2FUNC"}, {}, 8, {<<Rg,Im,Rg>>}),
    Rows("RIB", {"R2FUNC"}, {}, 8, {<<Rg,Rg,Im>>}),
    Rows("RIL", {"R2FUNC"}, {}, 8, {<<Rg,Rg,Im>>}),
    Rows("RIV", {}, {"FP"}, 8, {<<VrRg,Im,VrRg>>}),
    Rows("SCNDX", {"LSFUNC"}, {"LSDISP"}, 8, {<<Rg,Scn>>}),
    Rows("SCNDX", {"S"}, {"LSDISP"}, 6, {<<Rg,Scn>>}),
    Rows("SCNDX", {}, {"LSDISP"}, 3, {<<Rg,Scn>>}),
    Rows("SCNDX", {}, {"LSDISP"}, 6, {<<Rg,Scn>>})
}

(* cpu.c, lines 413 to 562 *)
Rows4C == UNION {
    Rows("BITS16", {}, {}, 6, {<<>>}),
    Rows("MV", {"BFFUNC","BFMB","BFME"}, {}, 8, {<<Rg,Rg>>}),
    Rows("PADI", {}, {}, 0, {<<>>}),
    Rows("PFX", {}, {}, 3, {<<Im>>}),
    Rows("PRED", {"COND","R2FUNC"}, {}, 8, {<<Rg,Ps>>}),
    Rows("PRED", {}, {}, 8, {<<Nx,Rg,Ps>>}),
    Rows("R1", {"R1FUNC"}, {}, 8, {<<Rg,Rg>>}),
    Rows("R1", {}, {}, 4, {<<Rg,Rg>>}),
    Rows("R1", {}, {}, 0, {<<Rg,Rg>>}),
    Rows("R2", {"R2FUNC"}, {}, 8, {<<Rg,Rg,Rg>>, <<Rg,Rg,Rg,Rg>>}),
    Rows("R2", {}, {}, 6, {<<Rg,Rg>>, <<Rg,Nx,Rg>>}),
    Rows("R3", {"MS3","OP3","R3FUNC"}, {}, 6, {<<Rg,Rg,Rg>>}),
    Rows("R3", {"OP3","R3FUNC"}, {}, 6, {<<Rg,Rg,RgIm,RgIm>>}),
    Rows("R3", {"R3FUNC"}, {}, 6, {<<Rg,Rg,Im>>, <<Rg,Rg,Rg>>}),
    Rows("R3", {}, {}, 6, {<<Rg,Rg>>, <<Rg,Rg,Rg>>, <<Vr,Vr,VrRgIm,VrRgIm>>, <<Vr,Vr,VrRgIm,VrRgIm,Vm>>}),
    Rows("R3", {}, {}, 8, {<<Vr,Vr,VrRgIm,VrRgIm>>, <<Vr,Vr,VrRgIm,VrRgIm,Vm>>}),
    Rows("R3RI", {}, {}, 8, {<<Rg,Rg,Rg,Im>>}),
    Rows("R3RR", {}, {}, 8,
        {<<Rg>>, <<Nx,Nx,Im>>, <<Nx,Nx,Rg>>, <<Nx,Rg,Im>>, <<Nx,Rg,Rg>>, <<Rg,Nx,Im>>, <<Rg,Nx,Rg>>,
         <<Rg,Rg,Rg>>, <<Rg,Rg,Rg,Rg>>}),
    Rows("R4", {}, {}, 6, {<<Rg,Rg,Rg,Rg>>}),
    Rows("R5", {}, {}, 6, {<<Rg,Rg,Rg,Rg,Rg>>}),
    Rows("R6", {}, {}, 6, {<<Rg,Rg,Rg,Rg,Rg,Rg>>}),
    Rows("R7", {}, {}, 6, {<<Rg,Rg,Rg,Rg,Rg,Rg,Rg>>}),
    Rows("REP", {"CND3","R2FUNC"}, {}, 8, {<<Im,Im>>}),
    Rows("REX", {}, {}, 8, {<<Im,Rg>>}),
    Rows("RI", {}, {"INTI"}, 6, {<<Rg,Rg,Im>>}),
    Rows("RI", {}, {}, 0, {<<Rg,Rg,Im>>}),
    Rows("RIB", {}, {}, 3, {<<Rg,Rg,Im>>}),
    Rows("RII", {"FUNC3"}, {}, 8, {<<VrRg,VrRg,Im,Im>>}),
    Rows("RTDR", {"LKS","R2FUNC"}, {}, 6, {<<Rg,Rg,Rg,Rg>>}),
    Rows("RTDR", {"LKS","R2FUNC"}, {}, 8, {<<Rg,Rg,Rg,Rg>>}),
    Rows("RTDR", {"LKS","RTYPE"}, {}, 6, {<<>>, <<Nx,Im>>, <<Nx,Rg>>, <<Nx,Im,Im>>}),
    Rows("RTDR", {"LKS","RTYPE"}, {}, 8, {<<Nx,Im>>, <<Nx,Im,Im>>}),
    Rows("RTDR", {"RA","RTYPE"}, {}, 8, {<<>>}),
    Rows("RTDR", {"RTYPE"}, {}, 8, {<<>>, <<Nx,Rg>>}),
    Rows("RTS", {}, {}, 2, {<<>>}),
    Rows("SH", {"SHFUNC"}, {}, 8, {<<Rg,Rg,Rg>>}),
    Rows("SI", {"SHFUNC","SHI"}, {}, 8, {<<Rg,Rg,Im>>})
}

(* cpu.c, lines 563 to 681 *)
Rows4D == UNION {
    Rows("BITS16", {}, {}, 2, {<<>>}),
    Rows("BITS40", {}, {}, 8, {<<>>, <<Im>>}),
    Rows("DIRECT", {}, {"LSDISP"}, 6, {<<Im,Im>>, <<Rg,Im>>}),
    Rows("DIRECT", {}, {"LSDISP"}, 8, {<<Rg,Im>>}),
    Rows("MV", {}, {}, 4, {<<Rg,Rg>>}),
    Rows("R2", {"MS3","OP3","R2FUNC"}, {}, 6, {<<Rg,Rg,Rg>>}),
    Rows("R2", {"NRB","OP3","R2FUNC"}, {}, 6, {<<Rg,Rg,Rg>>}),
    Rows("R2", {"R2FUNC"}, {}, 8, {<<Rg,Rg,Rg>>, <<Vr,Vr,Vr>>}),
    Rows("R3", {"MS3","OP3","R3FUNC"}, {}, 6, {<<Rg,Rg,Rg>>}),
    Rows("R3", {"OP3","R3FUNC"}, {}, 6, {<<Rg,Rg,RgIm,RgIm>>}),
    Rows("R3", {"R3FUNC"}, {}, 6, {<<Rg,Rg,RgIm,RgIm>>}),
    Rows("R3", {}, {}, 8, {<<Rg,Rg,Rg>>}),
    Rows("R3RR", {}, {}, 8, {<<Rg,Nx,Im>>, <<Rg,Nx,Rg>>}),
    Rows("REGIND", {}, {"LSDISP"}, 6, {<<Im,Ind>>, <<Rg,Ind>>}),
    Rows("REGIND", {}, {"LSDISP"}, 8, {<<Rg,Ind>>}),
    Rows("RI", {}, {"INTI"}, 6, {<<Rg,Rg,Im>>}),
    Rows("RI", {}, {"NEGIMM"}, 6, {<<Rg,Rg,Im>>}),
    Rows("RI", {}, {}, 0, {<<Rg,Rg,Im>>}),
    Rows("RI", {}, {}, 8, {<<Rg,Rg,Im>>}),
    Rows("RIA", {"MS3","OP3","R2FUNC"}, {}, 6, {<<Rg,Im,Rg>>}),
    Rows("RIB", {"MS3","OP3","R2FUNC"}, {}, 6, {<<Rg,Rg,Im>>}),
    Rows("RIL", {}, {}, 8, {<<Rg,Rg,Im>>}),
    Rows("SCNDX", {"LSFUNC"}, {"LSDISP"}, 8, {<<Rg,Scn>>}),
    Rows("SCNDX", {}, {"LSDISP"}, 6, {<<Im,Scn>>, <<Rg,Scn>>}),
    Rows("SH", {"SHFUNC"}, {}, 6, {<<Rg,Rg,Rg,Rg>>}),
    Rows("SI", {"SHFUNC"}, {}, 6, {<<Rg,Rg,Im>>, <<Rg,Rg,Rg,Im>>}),
    Rows("SYNC", {}, {}, 8, {<<Im>>}),
    Rows("VMASK", {"R2FUNC"}, {}, 8, {<<Vs>>})
}

(* opcodes.h, lines 1 to 150 *)
Rows4E == UNION {
    Rows("ATOM", {"FMT2"}, {}, 8, {<<Im>>}),
    Rows("B", {"BFN"}, {}, 6, {<<Rg,Rg,Im>>}),
    Rows("B", {"CM"}, {}, 6, {<<Rg,Rg,Im>>}),
    Rows("B", {}, {}, 6, {<<Rg,Im,Im>>, <<Rg,Rg,Im>>}),
    Rows("B", {}, {}, 8, {<<Im>>}),
    Rows("B2", {"LKT"}, {}, 6, {<<Im>>}),
    Rows("B2", {}, {}, 6, {<<Im>>}),
    Rows("BFR3II", {"FUNC3"}, {}, 8, {<<Rg,Rg,Im,Im>>, <<VrRg,VrRg,Im,Im>>}),
    Rows("BI", {"BFN"}, {}, 6, {<<Rg,Im,Im>>}),
    Rows("BITS16", {}, {}, 8, {<<Im>>}),
    Rows("BL2", {}, {}, 6, {<<Lk,Im>>}),
    Rows("BZ", {"BFN"}, {"BZ"}, 6, {<<Rg,Im>>}),
    Rows("ENTER", {}, {}, 3, {<<Im,Im>>}),
    Rows("J2", {}, {}, 8, {<<Im>>}),
    Rows("JL2", {}, {}, 8, {<<Lk,Im>>}),
    Rows("R1", {"FLT1","FUNC5"}, {"FP"}, 8, {<<VrRg,VrRg>>}),
    Rows("R1", {}, {}, 3, {<<>>}),
    Rows("R1", {}, {}, 6, {<<Rg,Rg>>}),
    Rows("R2", {"FMT3","IM2","R2FUNC"}, {}, 8, {<<Rg,Rg,Rg>>}),
    Rows("R2", {"FUNC5","RB"}, {"FP"}, 8, {<<VrRg,VrRg>>}),
    Rows("R2", {"FUNC5"}, {"FP"}, 8, {<<VrRg,VrRg,VrRg>>}),
    Rows("R2", {"IM2","R2FUNC"}, {}, 8, {<<Rg,Rg,Rg>>}),
    Rows("R2", {"OP3","R2FUNC"}, {}, 8, {<<Rg,Rg,Rg>>}),
    Rows("R2", {"OP4","R2FUNC"}, {}, 6, {<<Rg,Rg,Rg>>}),
    Rows("R2", {"R2FUNC"}, {}, 6, {<<Rg,Rg,Rg>>}),
    Rows("R2", {"R2FUNC"}, {}, 8, {<<Rg,Rg,Rg>>}),
    Rows("R2", {}, {}, 0, {<<Rg,Rg>>}),
    Rows("R2S", {}, {}, 3, {<<Rg,Rg,Rg>>}),
    Rows("R3", {}, {}, 8, {<<Rg,Rg,Rg>>, <<Rg,Rg,Rg,Im>>, <<Rg,Rg,Rg,Rg>>}),
    Rows("R3RR", {}, {}, 8, {<<Nx,Nx,Rg>>, <<Rg,Rg,Rg>>}),
    Rows("RI", {"FUNC3"}, {}, 8, {<<Rg,Rg,Im>>}),
    Rows("RI", {"IPR"}, {}, 6, {<<Rg,Rg,Im>>}),
    Rows("RI", {"IPR"}, {}, 8, {<<Rg,Rg,Im>>}),
    Rows("RI", {}, {"FP"}, 8, {<<VrRg,VrRg,Im>>}),
    Rows("RI", {}, {}, 3, {<<Rg,Rg,Im>>}),
    Rows("RI", {}, {}, 4, {<<Rg,Rg,Im>>}),
    Rows("RI", {}, {}, 6, {<<Rg,Rg>>}),
    Rows("RI", {}, {}, 8, {<<Rg,Rg,Im>>}),
    Rows("RIA", {"IM2","R2FUNC"}, {}, 8, {<<Rg,Im,Rg>>}),
    Rows("RIA", {"R2FUNC"}, {}, 8, {<<Rg,Im,Rg>>}),
    Rows("RIB", {"R2FUNC"}, {}, 8, {<<Rg,Rg,Im>>}),
    Rows("RIS", {}, {}, 8, {<<Rg,Im,Im>>}),
    Rows("RISH", {"SC"}, {}, 8, {<<Rg,Im>>}),
    Rows("RISM", {"SC"}, {}, 8, {<<Rg,Im>>}),
    Rows("RIV", {}, {"FP"}, 8, {<<VrRg,Im,VrRg>>})
}

(* opcodes.h, lines 151 to 300 *)
Rows4F == UNION {
    Rows("B", {"BFN","INCDEC"}, {}, 6, {<<Rg,Rg,Im>>}),
    Rows("BITS16", {}, {}, 3, {<<>>}),
    Rows("BITS16", {}, {}, 8, {<<>>}),
    Rows("DIRECT", {"LSSIZE"}, {"LSDISP"}, 6, {<<Rg,Im>>}),
    Rows("DIRECT", {}, {"LSDISP"}, 3, {<<Rg,Im>>}),
    Rows("DIRECT", {}, {"LSDISP"}, 6, {<<Rg,Im>>}),
    Rows("DIRECT", {}, {"LSDISP"}, 8, {<<Rg,Im>>}),
    Rows("INT", {}, {}, 4, {<<Im,Im>>}),
    Rows("J2", {}, {}, 8, {<<Rg>>, <<Ind>>}),
    Rows("J4", {}, {}, 8, {<<Im>>}),
    Rows("JL2", {}, {}, 8, {<<Lk,Ind>>}),
    Rows("JL4", {}, {}, 8, {<<Lk,Im>>}),
    Rows("JSCNDX", {"R2FUNC"}, {}, 8, {<<Lk,ISc>>}),
    Rows("LEAVE", {}, {}, 3, {<<Im,Im>>}),
    Rows("MV", {"BFFUNC","BFMB","BFME"}, {}, 8, {<<Rg,Rg>>}),
    Rows("MV", {}, {}, 3, {<<Rg,Rg>>}),
    Rows("R1", {"R1FUNC"}, {}, 8, {<<Rg,Rg>>}),
    Rows("R2", {"FUNC5","RB"}, {"FP"}, 8, {<<VrRg,VrRg>>}),
    Rows("R2", {"R2FUNC"}, {}, 8, {<<Rg,Rg,Rg>>, <<Rg,Rg,Rg,Rg>>}),
    Rows("R2", {}, {}, 6, {<<Rg,Nx,Rg>>}),
    Rows("R3", {}, {}, 8, {<<Vr,Vr,VrRgIm,VrRgIm>>, <<Vr,Vr,VrRgIm,VrRgIm,Vm>>}),
    Rows("R3RI", {"R2FUNC"}, {}, 8, {<<Rg,Rg,Im>>}),
    Rows("R3RR", {}, {}, 8, {<<Rg,Rg,Rg>>, <<Rg,Rg,Rg,Rg>>}),
    Rows("REGIND", {"LSSIZE"}, {"LSDISP"}, 6, {<<Rg,Ind>>}),
    Rows("REGIND", {}, {"LSDISP"}, 3, {<<Rg,Ind>>}),
    Rows("REGIND", {}, {"LSDISP"}, 6, {<<Rg,Ind>>}),
    Rows("REGIND", {}, {"LSDISP"}, 8, {<<Rg,Ind>>}),
    Rows("RI", {}, {"NEGIMM"}, 8, {<<VrRg,VrRg,Im>>}),
    Rows("RI", {}, {}, 6, {<<Rg,Nx,Im>>}),
    Rows("RI", {}, {}, 8, {<<Rg,Rg,Im>>}),
    Rows("RI", {}, {}, 0, {<<Rg,Rg,Im>>}),
    Rows("RIL", {"R2FUNC"}, {}, 8, {<<Rg,Rg,Im>>}),
    Rows("RTS", {}, {}, 2, {<<>>}),
    Rows("SCNDX", {"LSFUNC"}, {"LSDISP"}, 8, {<<Rg,Scn>>}),
    Rows("SCNDX", {"LSSIZE"}, {"LSDISP"}, 6, {<<Rg,Scn>>}),
    Rows("SCNDX", {"S"}, {"LSDISP"}, 6, {<<Rg,Scn>>}),
    Rows("SCNDX", {}, {"LSDISP"}, 3, {<<Rg,Scn>>}),
    Rows("SCNDX", {}, {"LSDISP"}, 6, {<<Rg,Scn>>}),
    Rows("SH", {"SHFUNC"}, {}, 8, {<<Rg,Rg,Rg>>}),
    Rows("SI", {"SHFUNC","SHI"}, {}, 8, {<<Rg,Rg,Im>>})
}

(* opcodes.h, lines 301 to 450 *)
Rows4G == UNION {
    Rows("DIRECT", {"LSSIZE"}, {"LSDISP"}, 6, {<<Rg,Im>>}),
    Rows("DIRECT", {}, {"LSDISP"}, 8, {<<Rg,Im>>}),
    Rows("PADI", {}, {}, 0, {<<>>}),
    Rows("PFX", {}, {}, 3, {<<Im>>}),
    Rows("PRED", {"COND","R2FUNC"}, {}, 8, {<<Rg,Ps>>}),
    Rows("PRED", {}, {}, 8, {<<Nx,Rg,Ps>>}),
    Rows("R1", {}, {}, 4, {<<Rg,Rg>>}),
    Rows("R1", {}, {}, 0, {<<Rg,Rg>>}),
    Rows("R2", {"OP3","R2FUNC"}, {}, 8, {<<Rg,Rg,Rg>>}),
    Rows("R2", {"R2FUNC"}, {}, 8, {<<Rg,Rg,Rg>>, <<Vr,Vr,Vr>>}),
    Rows("R3", {}, {}, 3, {<<Rg>>, <<Rg,Rg>>}),
    Rows("R3", {}, {}, 6, {<<Rg,Rg,Rg>>}),
    Rows("R3RI", {}, {}, 8, {<<Rg,Rg,Rg,Im>>}),
    Rows("R3RR", {}, {}, 8,
        {<<Rg>>, <<Nx,Nx,Im>>, <<Nx,Nx,Rg>>, <<Nx,Rg,Im>>, <<Nx,Rg,Rg>>, <<Rg,Nx,Im>>, <<Rg,Nx,Rg>>,
         <<Rg,Rg,Rg,Rg>>}),
    Rows("R4", {}, {}, 6, {<<Rg,Rg,Rg,Rg>>}),
    Rows("R5", {}, {}, 6, {<<Rg,Rg,Rg,Rg,Rg>>}),
    Rows("REGIND", {}, {"LSDISP"}, 8, {<<Rg,Ind>>}),
    Rows("REP", {"CND3","R2FUNC"}, {}, 8, {<<Im,Im>>}),
    Rows("REX", {}, {}, 8, {<<Im,Rg>>}),
    Rows("RI", {"IPR"}, {}, 8, {<<Rg,Rg,Im>>}),
    Rows("RI", {}, {}, 8, {<<Rg,Rg,Im>>}),
    Rows("RIA", {"R2FUNC"}, {}, 8, {<<Rg,Im,Rg>>}),
    Rows("RIB", {"R2FUNC"}, {}, 8, {<<Rg,Rg,Im>>}),
    Rows("RIB", {}, {}, 0, {<<Rg,Rg,Im>>}),
    Rows("RII", {"FUNC3"}, {}, 8, {<<VrRg,VrRg,Im,Im>>}),
    Rows("RTDR", {"LKS","R2FUNC"}, {}, 6, {<<Rg,Rg,Rg,Rg>>}),
    Rows("RTDR", {"LKS","R2FUNC"}, {}, 8, {<<Rg,Rg,Rg,Rg>>}),
    Rows("RTDR", {"LKS","RTYPE"}, {}, 6, {<<>>, <<Nx,Im>>, <<Nx,Rg>>, <<Nx,Im,Im>>}),
    Rows("RTDR", {"LKS","RTYPE"}, {}, 8, {<<Nx,Im>>, <<Nx,Im,Im>>}),
    Rows("RTDR", {"RA","RTYPE"}, {}, 8, {<<>>}),
    Rows("RTDR", {"RTYPE"}, {}, 8, {<<>>, <<Nx,Rg>>}),
    Rows("SCNDX", {"LSFUNC"}, {"LSDISP"}, 8, {<<Rg,Scn>>}),
    Rows("SH", {"SHFUNC"}, {}, 6, {<<Rg,Rg,Rg,Rg>>}),
    Rows("SH", {"SHFUNC"}, {}, 8, {<<Rg,Rg,Rg>>}),
    Rows("SI", {"SHFUNC","SHI"}, {}, 8, {<<Rg,Rg,Im>>}),
    Rows("SI", {"SHFUNC"}, {}, 6, {<<Rg,Rg,Im>>, <<Rg,Rg,Rg,Im>>})
}

(* opcodes.h, lines 451 to 511 *)
Rows4H == UNION {
    Rows("BITS16", {}, {}, 2, {<<>>}),
    Rows("BITS40", {}, {}, 8, {<<>>, <<Im>>}),
    Rows("DIRECT", {"LSSIZE"}, {"LSDISP"}, 6, {<<Rg,Im>>}),
    Rows("DIRECT", {}, {"LSDISP"}, 3, {<<Rg,Im>>}),
    Rows("DIRECT", {}, {"LSDISP"}, 6, {<<Rg,Im>>}),
    Rows("DIRECT", {}, {"LSDISP"}, 8, {<<Rg,Im>>}),
    Rows("MV", {}, {}, 4, {<<Rg,Rg>>}),
    Rows("R2", {"NRB","OP3","R2FUNC"}, {}, 6, {<<Rg,Rg,Rg>>}),
    Rows("R2", {"OP3","R2FUNC"}, {}, 8, {<<Rg,Rg,Rg>>}),
    Rows("R2", {"R2FUNC"}, {}, 8, {<<Rg,Rg,Rg>>}),
    Rows("R3", {}, {}, 8, {<<Rg,Rg,Rg>>}),
    Rows("REGIND", {"LSSIZE"}, {"LSDISP"}, 6, {<<Rg,Ind>>}),
    Rows("REGIND", {}, {"LSDISP"}, 3, {<<Rg,Ind>>}),
    Rows("REGIND", {}, {"LSDISP"}, 6, {<<Rg,Ind>>}),
    Rows("REGIND", {}, {"LSDISP"}, 8, {<<Rg,Ind>>}),
    Rows("RI", {"IPR"}, {}, 8, {<<Rg,Rg,Im>>}),
    Rows("RI", {}, {"NEGIMM"}, 6, {<<Rg,Rg,Im>>}),
    Rows("RI", {}, {}, 0, {<<Rg,Rg,Im>>}),
    Rows("RI", {}, {}, 8, {<<Rg,Rg,Im>>}),
    Rows("RIA", {"R2FUNC"}, {}, 8, {<<Rg,Im,Rg>>}),
    Rows("RIL", {}, {}, 8, {<<Rg,Rg,Im>>}),
    Rows("RIS", {}, {}, 8, {<<Rg,Im,Im>>}),
    Rows("RISH", {}, {}, 8, {<<Rg,Im>>}),
    Rows("RISM", {}, {}, 8, {<<Rg,Im>>}),
    Rows("SCNDX", {"LSFUNC"}, {"LSDISP"}, 8, {<<Rg,Scn>>}),
    Rows("SCNDX", {"LSSIZE"}, {"LSDISP"}, 6, {<<Rg,Scn>>}),
    Rows("SCNDX", {}, {"LSDISP"}, 3, {<<Rg,Scn>>}),
    Rows("SCNDX", {}, {"LSDISP"}, 6, {<<Rg,Scn>>}),
    Rows("SYNC", {}, {}, 8, {<<Im>>}),
    Rows("VMASK", {"R2FUNC"}, {}, 8, {<<Vs>>})
}

mnemonics == UNION {Rows4A, Rows4B, Rows4C, Rows4D, Rows4E, Rows4F, Rows4G, Rows4H}
=============================================================================
