------------------------- MODULE StarkEncodeProofs -------------------------
(***************************************************************************)
(* What the runs of StarkEncode check on a few values, for every value of  *)
(* an operand, every row of the opcode table and every line of operands:   *)
(*    1. the operand table and what an insertion gives;                    *)
(*    2. LossIsReported;                                                   *)
(*    3. where an insertion may set bits, and TypeOK;                      *)
(*    4. OperandsReadBack;                                                 *)
(*    5. RelocsPatchTheField.                                              *)
(***************************************************************************)
EXTENDS StarkEncode, BaseLemmas, TLAPS

-----------------------------------------------------------------------------
(* The entries of powerpc_operands.                                        *)
LEMMA Domains ==
  /\ DOMAIN OperandsA = {"BA", "CSRUI", "BB", "BD", "BS", "BF", "CRS", "CSRNO", "BT", "D", "DX",
                         "FRS", "LI"}
  /\ DOMAIN OperandsB = {"BR", "BRS", "RL", "NSI", "RA", "RB", "RC", "RS", "SH6", "SI", "BLR",
                         "LMT", "UI", "UI9", "EXFMT"}
  /\ DOMAIN OperandsC = {"SCNDX", "DBRS", "MOVRD", "MOVRS", "M12", "MPV", "MD", "MVRD", "MVRS"}
  BY DEF OperandsA, OperandsB, OperandsC

LEMMA Entries ==
  /\ \A t \in DOMAIN OperandsA : powerpc_operands[t] = OperandsA[t]
  /\ \A t \in DOMAIN OperandsB : powerpc_operands[t] = OperandsB[t]
  /\ \A t \in DOMAIN OperandsC : powerpc_operands[t] = OperandsC[t]
<1>1. /\ DOMAIN OperandsB \cap DOMAIN OperandsA = {}
      /\ DOMAIN OperandsC \cap DOMAIN OperandsA = {}
      /\ DOMAIN OperandsC \cap DOMAIN OperandsB = {}
  BY Domains
<1> QED
  BY <1>1 DEF powerpc_operands, OperandTypes

LEMMA EntriesA ==
  /\ powerpc_operands["BD"] = Opd(31, 0, "bd", {"RELATIVE", "SIGNED"})
  /\ powerpc_operands["CSRUI"] = Opd(31, 0, "csrui", {})
  /\ powerpc_operands["CSRNO"] = Opd(12, 17, "none", {"U14"})
  /\ powerpc_operands["D"] = Opd(14, 17, "dsi", {"PARENS", "SIGNED"})
  /\ powerpc_operands["DX"] = Opd(14, 17, "xsi", {"PARENS", "SIGNED"})
  /\ powerpc_operands["LI"] = Opd(26, 0, "li", {"RELATIVE", "SIGNED"})
  /\ powerpc_operands["BA"] = Opd(11, 12, "ba", {"CR"})
  /\ powerpc_operands["BB"] = Opd(11, 18, "bb", {"CR"})
  /\ powerpc_operands["BS"] = Opd(3, 26, "none", {"BR"})
  /\ powerpc_operands["BF"] = Opd(3, 6, "none", {"CR"})
  /\ powerpc_operands["CRS"] = Opd(7, 20, "crs", {"CR"})
  /\ powerpc_operands["BT"] = Opd(11, 6, "bt", {"CR"})
  /\ powerpc_operands["FRS"] = Opd(5, 6, "none", {"FPR"})
<1> HIDE DEF powerpc_operands
<1> QED
  BY Domains, Entries DEF OperandsA

LEMMA EntriesB ==
  /\ powerpc_operands["NSI"] = Opd(14, 17, "nsi", {"NEGATIVE", "S14", "SIGNED"})
  /\ powerpc_operands["SH6"] = Opd(6, 17, "sh6", {})
  /\ powerpc_operands["SI"] = Opd(14, 17, "si", {"S14", "SIGNED"})
  /\ powerpc_operands["BLR"] = Opd(31, 0, "blr", {"SIGNED"})
  /\ powerpc_operands["LMT"] = Opd(9, 17, "none", {"SIGNED"})
  /\ powerpc_operands["UI"] = Opd(14, 17, "ui", {"U14"})
  /\ powerpc_operands["UI9"] = Opd(9, 17, "ui", {"UI"})
  /\ powerpc_operands["EXFMT"] = Opd(3, 26, "ui", {"UI"})
  /\ powerpc_operands["BR"] = Opd(3, 6, "none", {"BR"})
  /\ powerpc_operands["BRS"] = Opd(3, 26, "none", {"BR"})
  /\ powerpc_operands["RL"] = Opd(23, 6, "reglist", {"REGLIST"})
  /\ powerpc_operands["RA"] = Opd(5, 11, "none", {"GPR"})
  /\ powerpc_operands["RB"] = Opd(5, 17, "none", {"GPR"})
  /\ powerpc_operands["RC"] = Opd(5, 22, "none", {"GPR"})
  /\ powerpc_operands["RS"] = Opd(5, 6, "none", {"GPR"})
  BY Domains, Entries DEF OperandsB

LEMMA EntriesC ==
  /\ powerpc_operands["SCNDX"] = Opd(5, 24, "scndx", {"PARENS", "SCNDX"})
  /\ powerpc_operands["DBRS"] = Opd(31, 0, "dbrs", {"PARENS", "SIGNED"})
  /\ powerpc_operands["M12"] = Opd(31, 0, "m12", {})
  /\ powerpc_operands["MPV"] = Opd(3, 23, "none", {})
  /\ powerpc_operands["MD"] = Opd(4, 20, "none", {})
  /\ powerpc_operands["MVRD"] = Opd(31, 0, "mvrd", {})
  /\ powerpc_operands["MVRS"] = Opd(31, 0, "mvrs", {})
  /\ powerpc_operands["MOVRD"] = Opd(5, 8, "movrd", {"GPR", "FPR", "CR", "BR"})
  /\ powerpc_operands["MOVRS"] = Opd(5, 8, "movrs", {"GPR", "FPR", "CR", "BR"})
  BY Domains, Entries DEF OperandsC

LEMMA OpdFields ==
  \A b, s, f, g : /\ Opd(b, s, f, g).bits = b /\ Opd(b, s, f, g).shift = s
                  /\ Opd(b, s, f, g).insert = f /\ Opd(b, s, f, g).flags = g
  BY DEF Opd

(* The types that take registers, and the others.                          *)
RegisterTypes == {"BA", "BB", "BS", "BF", "CRS", "BT", "FRS", "BR", "BRS", "RL", "RA", "RB", "RC",
                  "RS", "MOVRD", "MOVRS"}
NumberTypes == {"BD", "CSRUI", "CSRNO", "D", "DX", "LI", "NSI", "SH6", "SI", "BLR", "LMT", "UI",
                "UI9", "EXFMT", "SCNDX", "DBRS", "M12", "MPV", "MD", "MVRD", "MVRS"}

LEMMA AllTypes == OperandTypes = RegisterTypes \cup NumberTypes
  BY Domains DEF OperandTypes, RegisterTypes, NumberTypes

LEMMA RegisterFields == \A t \in RegisterTypes : IsRegisterField(t)
<1> DEFINE Takes(t, c) == c \in powerpc_operands[t].flags
           Classes == {"GPR", "FPR", "CR", "BR", "REGLIST"}
<1>1. /\ Takes("BA", "CR") /\ Takes("BB", "CR") /\ Takes("BS", "BR") /\ Takes("BF", "CR")
      /\ Takes("CRS", "CR") /\ Takes("BT", "CR") /\ Takes("FRS", "FPR")
  BY EntriesA, OpdFields
<1>2. /\ Takes("BR", "BR") /\ Takes("BRS", "BR") /\ Takes("RL", "REGLIST") /\ Takes("RA", "GPR")
      /\ Takes("RB", "GPR") /\ Takes("RC", "GPR") /\ Takes("RS", "GPR")
  BY EntriesB, OpdFields
<1>3. Takes("MOVRD", "GPR") /\ Takes("MOVRS", "GPR")
  BY EntriesC, OpdFields
<1> HIDE DEF Takes
<1>4. \A t \in RegisterTypes : \E c \in Classes : Takes(t, c)
  BY <1>1, <1>2, <1>3 DEF RegisterTypes
<1> QED
  BY <1>4 DEF Takes, IsRegisterField

-----------------------------------------------------------------------------
(* What an insert function does to a number.                               *)
Value == SUBSET (0 .. 63)

(* The numbers that a field of the bits lo to top keeps: those of m bits   *)
(* with their sign that begin with bit lo, and those of these bits alone.  *)
LEMMA SignedKept ==
  ASSUME NEW v \in Value, NEW lo \in Nat, NEW top \in lo .. 63, NEW m \in 1 .. 64, m <= top + 1,
         FitsSigned(v, m), \A b \in v : b >= lo
  PROVE  \/ v = v \cap lo .. top
         \/ v = SignExtend(v \cap lo .. top, top)
<1>1. CASE Negative(v)
  <2>1. m - 1 .. 63 \subseteq v
    BY <1>1 DEF FitsSigned
  <2>2. \A b \in top .. 63 : b \in v
    BY <2>1
  <2>3. top \in v \cap lo .. top
    BY <2>2
  <2>4. \A b \in v : b \in lo .. top \/ b \in top .. 63
    BY DEF Value
  <2>5. v = (v \cap lo .. top) \cup top .. 63
    BY <2>2, <2>4
  <2> QED
    BY <2>3, <2>5 DEF SignExtend
<1>2. CASE ~Negative(v)
  <2>1. \A b \in v : b \in 0 .. m - 2
    BY <1>2 DEF FitsSigned
  <2>2. \A b \in v : b \in lo .. top
    BY <2>1
  <2> QED
    BY <2>2
<1> QED
  BY <1>1, <1>2

LEMMA PiecesCarry ==
  /\ \A a, n, at \in Int : Carried({<<a, n, at>>}) = a .. a + n - 1
  /\ Carried({}) = {}
  /\ Carried(BdPieces) = 2 .. 13
  /\ Carried(LiPieces) = 2 .. 24
  /\ Carried(M12Pieces(11)) = 0 .. 11
<1>1. \A a, n, at \in Int : Carried({<<a, n, at>>}) = a .. a + n - 1
  BY DEF Carried
<1>2. Carried({}) = {}
  BY DEF Carried
<1>3. Carried(BdPieces) = 2 .. 13
  <2>1. Carried(BdPieces) = (2 .. 2 + 1 - 1) \cup (3 .. 3 + 8 - 1) \cup (11 .. 11 + 3 - 1)
    BY DEF Carried, BdPieces
  <2> QED
    BY <2>1
<1>4. Carried(LiPieces) = 2 .. 24
  <2>1. Carried(LiPieces) = (2 .. 2 + 1 - 1) \cup (3 .. 3 + 22 - 1)
    BY DEF Carried, LiPieces
  <2> QED
    BY <2>1
<1>5. Carried(M12Pieces(11)) = 0 .. 11
  <2>1. Carried(M12Pieces(11)) = (0 .. 0 + 1 - 1) \cup (1 .. 1 + 11 - 1)
    BY DEF Carried, M12Pieces
  <2> QED
    BY <2>1
<1> QED
  BY <1>1, <1>2, <1>3, <1>4, <1>5

-----------------------------------------------------------------------------
(* Each number is accounted for by the insertion r that took it as an      *)
(* operand of type t.                                                      *)
Accounted(t, v, r) ==
  \/ r.size > 0 \/ r.error \/ r.whole
  \/ CutSilently(t, v)
  \/ t = "NSI" /\ Kept([v |-> Neg(v), pieces |-> r.pieces])
  \/ t # "NSI" /\ Kept([v |-> v, pieces |-> r.pieces])

(* What insertcode gives, and what the check of the range makes of it.     *)
Result(h, ps, fl, re, n, e, w) ==
  [held |-> h, pieces |-> ps, flags |-> fl, rest |-> re, size |-> n, error |-> e, whole |-> w]

LEMMA ResultFields ==
  ASSUME NEW h, NEW ps, NEW fl, NEW re, NEW n, NEW e, NEW w
  PROVE  LET c == Result(h, ps, fl, re, n, e, w)
         IN  /\ c.held = h /\ c.pieces = ps /\ c.flags = fl /\ c.rest = re
             /\ c.size = n /\ c.error = e /\ c.whole = w
             /\ \A x : [c EXCEPT !.error = x] = Result(h, ps, fl, re, n, x, w)
             /\ \A x : [c EXCEPT !.whole = x] = Result(h, ps, fl, re, n, e, x)
  BY DEF Result

LEMMA InsertedResult ==
  /\ \A v, ps : InField(v, ps) = Result(v, ps, {}, v, 0, FALSE, FALSE)
  /\ \A v, ps, fl, re, n : Inserted(v, ps, fl, re, n) = Result(v, ps, fl, re, n, FALSE, FALSE)
  BY DEF InField, Inserted, Result

LEMMA FieldWithError ==
  ASSUME NEW v, NEW ps, NEW e
  PROVE  [InField(v, ps) EXCEPT !.error = e] = Result(v, ps, {}, v, 0, e, FALSE)
<1>1. \A f : [Result(v, ps, {}, v, 0, f, f) EXCEPT !.error = e] = Result(v, ps, {}, v, 0, e, f)
  BY ResultFields
<1>2. InField(v, ps) = Result(v, ps, {}, v, 0, FALSE, FALSE)
  BY InsertedResult
<1> QED
  BY <1>1, <1>2

LEMMA FieldGivenUp ==
  ASSUME NEW v, NEW ps
  PROVE  [InField(v, ps) EXCEPT !.whole = TRUE] = Result(v, ps, {}, v, 0, FALSE, TRUE)
<1>1. \A f, x : [Result(v, ps, {}, v, 0, f, f) EXCEPT !.whole = x] = Result(v, ps, {}, v, 0, f, x)
  BY ResultFields
<1>2. InField(v, ps) = Result(v, ps, {}, v, 0, FALSE, FALSE)
  BY InsertedResult
<1> QED
  BY <1>1, <1>2

Code(t, v, used) == InsertCode(powerpc_operands[t], v, Total(used), Len(used))
OutOfRange(t, v) == RangeError(powerpc_operands[t], v, FALSE)

LEMMA RangeOutcome ==
  ASSUME NEW t, NEW v, NEW used,
         NEW h, NEW ps, NEW fl, NEW re, NEW n, NEW e \in BOOLEAN, NEW w,
         Code(t, v, used) = Result(h, ps, fl, re, n, e, w)
  PROVE  Insertion(t, v, used) = Result(h, ps, fl, re, n, (e \/ OutOfRange(t, re)), w)
<1>1. /\ Code(t, v, used).rest = re
      /\ Code(t, v, used).error = e
      /\ \A x : [Code(t, v, used) EXCEPT !.error = x] = Result(h, ps, fl, re, n, x, w)
  BY ResultFields
<1> QED
  BY <1>1 DEF Insertion, Code, OutOfRange

(* The three ways in which a number is accounted for.                      *)
LEMMA AccountedBy ==
  ASSUME NEW t, NEW v, NEW used,
         NEW h, NEW ps, NEW fl, NEW re, NEW n \in Nat, NEW e \in BOOLEAN, NEW w \in BOOLEAN,
         Code(t, v, used) = Result(h, ps, fl, re, n, e, w),
         \/ n > 0 \/ e \/ w \/ CutSilently(t, v)
         \/ OutOfRange(t, re)
         \/ t = "NSI" /\ Kept([v |-> Neg(v), pieces |-> ps])
         \/ t # "NSI" /\ Kept([v |-> v, pieces |-> ps])
  PROVE  Accounted(t, v, Insertion(t, v, used))
<1> DEFINE r == Insertion(t, v, used)
<1>1. r = Result(h, ps, fl, re, n, (e \/ OutOfRange(t, re)), w)
  BY RangeOutcome
<1> HIDE DEF r
<1>2. r.size = n /\ r.pieces = ps /\ r.whole = w
  BY <1>1, ResultFields
<1>3. r.error = (e \/ OutOfRange(t, re))
  BY <1>1, ResultFields
<1>4. OutOfRange(t, re) \in BOOLEAN
  BY DEF OutOfRange, RangeError
<1>5. e \/ OutOfRange(t, re) => r.error
  BY <1>3, <1>4
<1>6. Accounted(t, v, r)
  BY <1>2, <1>5 DEF Accounted
<1> QED
  BY <1>6 DEF r

-----------------------------------------------------------------------------
(* What each type of operand is inserted by.                               *)
LEMMA PieceTables ==
  /\ DOMAIN FieldPieces = {"movrd", "movrs", "reglist", "crs", "bt", "ba", "bb"}
  /\ DOMAIN MvPieces = {"mvrd", "mvrs"}
  BY DEF FieldPieces, MvPieces

(* The insert function of each type of number.                             *)
LEMMA CodesA ==
  ASSUME NEW v, NEW used
  PROVE  /\ Code("BD", v, used) = InsertBd(v, Total(used))
         /\ Code("CSRUI", v, used) = InsertCsrui(v, Total(used))
         /\ Code("CSRNO", v, used) = InField(v, {<<0, 12, 17>>})
         /\ Code("D", v, used) = InsertDsi(v, Total(used))
         /\ Code("DX", v, used) = InsertXsi(v, Total(used))
         /\ Code("LI", v, used) = InsertLi(v, Total(used))
<1>1. /\ powerpc_operands["BD"].insert = "bd"
      /\ powerpc_operands["CSRUI"].insert = "csrui"
      /\ powerpc_operands["CSRNO"].insert = "none"
      /\ powerpc_operands["D"].insert = "dsi"
      /\ powerpc_operands["DX"].insert = "xsi"
      /\ powerpc_operands["LI"].insert = "li"
  BY EntriesA, OpdFields
<1>2. /\ powerpc_operands["CSRNO"].bits = 12 /\ powerpc_operands["CSRNO"].shift = 17
  BY EntriesA, OpdFields
<1>3. Code("BD", v, used) = InsertBd(v, Total(used))
  BY <1>1, PieceTables DEF Code, InsertCode
<1>4. Code("CSRUI", v, used) = InsertCsrui(v, Total(used))
  BY <1>1, PieceTables DEF Code, InsertCode
<1>5. Code("CSRNO", v, used) = InField(v, {<<0, 12, 17>>})
  BY <1>1, <1>2, PieceTables DEF Code, InsertCode
<1>6. Code("D", v, used) = InsertDsi(v, Total(used))
  BY <1>1, PieceTables DEF Code, InsertCode
<1>7. Code("DX", v, used) = InsertXsi(v, Total(used))
  BY <1>1, PieceTables DEF Code, InsertCode
<1>8. Code("LI", v, used) = InsertLi(v, Total(used))
  BY <1>1, PieceTables DEF Code, InsertCode
<1> QED
  BY <1>3, <1>4, <1>5, <1>6, <1>7, <1>8

LEMMA CodesB ==
  ASSUME NEW v, NEW used
  PROVE  /\ Code("NSI", v, used) = InsertNsi(v, Total(used))
         /\ Code("SH6", v, used) = InsertSh6(v, Total(used))
         /\ Code("SI", v, used) = InsertSi(v, Total(used))
         /\ Code("BLR", v, used) = InsertBlr(v, Total(used))
         /\ Code("LMT", v, used) = InField(v, {<<0, 9, 17>>})
         /\ Code("UI", v, used) = InsertUi(v, Total(used))
         /\ Code("UI9", v, used) = InsertUi(v, Total(used))
         /\ Code("EXFMT", v, used) = InsertUi(v, Total(used))
<1>1. /\ powerpc_operands["NSI"].insert = "nsi"
      /\ powerpc_operands["SH6"].insert = "sh6"
      /\ powerpc_operands["SI"].insert = "si"
      /\ powerpc_operands["BLR"].insert = "blr"
      /\ powerpc_operands["LMT"].insert = "none"
      /\ powerpc_operands["UI"].insert = "ui"
      /\ powerpc_operands["UI9"].insert = "ui"
      /\ powerpc_operands["EXFMT"].insert = "ui"
  BY EntriesB, OpdFields
<1>2. /\ powerpc_operands["LMT"].bits = 9 /\ powerpc_operands["LMT"].shift = 17
  BY EntriesB, OpdFields
<1>3. Code("NSI", v, used) = InsertNsi(v, Total(used))
  BY <1>1, PieceTables DEF Code, InsertCode
<1>4. Code("SH6", v, used) = InsertSh6(v, Total(used))
  BY <1>1, PieceTables DEF Code, InsertCode
<1>5. Code("SI", v, used) = InsertSi(v, Total(used))
  BY <1>1, PieceTables DEF Code, InsertCode
<1>6. Code("BLR", v, used) = InsertBlr(v, Total(used))
  BY <1>1, PieceTables DEF Code, InsertCode
<1>7. Code("LMT", v, used) = InField(v, {<<0, 9, 17>>})
  BY <1>1, <1>2, PieceTables DEF Code, InsertCode
<1>8. Code("UI", v, used) = InsertUi(v, Total(used))
  BY <1>1, PieceTables DEF Code, InsertCode
<1>9. Code("UI9", v, used) = InsertUi(v, Total(used))
  BY <1>1, PieceTables DEF Code, InsertCode
<1>10. Code("EXFMT", v, used) = InsertUi(v, Total(used))
  BY <1>1, PieceTables DEF Code, InsertCode
<1> QED
  BY <1>3, <1>4, <1>5, <1>6, <1>7, <1>8, <1>9, <1>10

LEMMA CodesC ==
  ASSUME NEW v, NEW used
  PROVE  /\ Code("SCNDX", v, used) = InsertScndx(v, Total(used))
         /\ Code("DBRS", v, used) = InsertDbrs(v, Total(used), Len(used))
         /\ Code("M12", v, used) = InsertM12(v, Total(used))
         /\ Code("MPV", v, used) = InField(v, {<<0, 3, 23>>})
         /\ Code("MD", v, used) = InField(v, {<<0, 4, 20>>})
         /\ Code("MVRD", v, used) = [InField(v, MvPieces["mvrd"]) EXCEPT !.error = AboveMv(v)]
         /\ Code("MVRS", v, used) = [InField(v, MvPieces["mvrs"]) EXCEPT !.error = AboveMv(v)]
<1>1. /\ powerpc_operands["SCNDX"].insert = "scndx"
      /\ powerpc_operands["DBRS"].insert = "dbrs"
      /\ powerpc_operands["M12"].insert = "m12"
      /\ powerpc_operands["MPV"].insert = "none"
      /\ powerpc_operands["MD"].insert = "none"
      /\ powerpc_operands["MVRD"].insert = "mvrd"
      /\ powerpc_operands["MVRS"].insert = "mvrs"
  BY EntriesC, OpdFields
<1>2. /\ powerpc_operands["MPV"].bits = 3 /\ powerpc_operands["MPV"].shift = 23
      /\ powerpc_operands["MD"].bits = 4 /\ powerpc_operands["MD"].shift = 20
  BY EntriesC, OpdFields
<1>3. Code("SCNDX", v, used) = InsertScndx(v, Total(used))
  BY <1>1, PieceTables DEF Code, InsertCode
<1>4. Code("DBRS", v, used) = InsertDbrs(v, Total(used), Len(used))
  BY <1>1, PieceTables DEF Code, InsertCode
<1>5. Code("M12", v, used) = InsertM12(v, Total(used))
  BY <1>1, PieceTables DEF Code, InsertCode
<1>6. Code("MPV", v, used) = InField(v, {<<0, 3, 23>>})
  BY <1>1, <1>2, PieceTables DEF Code, InsertCode
<1>7. Code("MD", v, used) = InField(v, {<<0, 4, 20>>})
  BY <1>1, <1>2, PieceTables DEF Code, InsertCode
<1>8. Code("MVRD", v, used) = [InField(v, MvPieces["mvrd"]) EXCEPT !.error = AboveMv(v)]
  BY <1>1, PieceTables DEF Code, InsertCode
<1>9. Code("MVRS", v, used) = [InField(v, MvPieces["mvrs"]) EXCEPT !.error = AboveMv(v)]
  BY <1>1, PieceTables DEF Code, InsertCode
<1> QED
  BY <1>3, <1>4, <1>5, <1>6, <1>7, <1>8, <1>9

(* A constant on the line has one word or two.                             *)
LEMMA OnLineResult ==
  ASSUME NEW n \in {1, 2}, NEW tot, NEW at
  PROVE  OnLine(n, tot, at) = Result(BitsOf((Words - tot - n) % 16), {<<0, 4, at>>}, {28 + n}, {},
                                     n, FALSE, FALSE)
<1> DEFINE place == BitsOf((Words - tot - n) % 16)
<1>1. OnLine(n, tot, at) = Inserted(place, {<<0, 4, at>>}, {28 + n}, {}, n)
  BY DEF OnLine
<1> HIDE DEF place
<1>2. OnLine(n, tot, at) = Result(place, {<<0, 4, at>>}, {28 + n}, {}, n, FALSE, FALSE)
  BY <1>1, InsertedResult
<1> QED
  BY <1>2 DEF place

LEMMA PooledAccounted ==
  ASSUME NEW t, NEW v, NEW used, NEW n \in {1, 2}, NEW tot, NEW at,
         Code(t, v, used) = OnLine(n, tot, at)
  PROVE  Accounted(t, v, Insertion(t, v, used))
<1> DEFINE place == BitsOf((Words - tot - n) % 16)
<1>1. Code(t, v, used) = Result(place, {<<0, 4, at>>}, {28 + n}, {}, n, FALSE, FALSE)
  BY OnLineResult
<1> HIDE DEF place
<1>2. n \in Nat /\ n > 0
  OBVIOUS
<1> QED
  BY <1>1, <1>2, AccountedBy

LEMMA FieldAccounted ==
  ASSUME NEW t, NEW v, NEW used, NEW ps, NEW e \in BOOLEAN,
         Code(t, v, used) = [InField(v, ps) EXCEPT !.error = e],
         \/ e \/ CutSilently(t, v) \/ OutOfRange(t, v)
         \/ t # "NSI" /\ Kept([v |-> v, pieces |-> ps])
  PROVE  Accounted(t, v, Insertion(t, v, used))
<1>1. Code(t, v, used) = Result(v, ps, {}, v, 0, e, FALSE)
  BY FieldWithError
<1> QED
  BY <1>1, AccountedBy

LEMMA PlainAccounted ==
  ASSUME NEW t, NEW v, NEW used, NEW ps,
         Code(t, v, used) = InField(v, ps),
         \/ CutSilently(t, v) \/ OutOfRange(t, v)
         \/ t # "NSI" /\ Kept([v |-> v, pieces |-> ps])
  PROVE  Accounted(t, v, Insertion(t, v, used))
<1>1. Code(t, v, used) = Result(v, ps, {}, v, 0, FALSE, FALSE)
  BY InsertedResult, ResultFields
<1> QED
  BY <1>1, AccountedBy

LEMMA KeptSigned ==
  ASSUME NEW v \in Value, NEW lo \in Nat, NEW top \in lo .. 63, NEW m \in 1 .. 64, m <= top + 1,
         FitsSigned(v, m), \A b \in v : b >= lo,
         NEW ps, Carried(ps) = lo .. top
  PROVE  Kept([v |-> v, pieces |-> ps])
<1> DEFINE p == [v |-> v, pieces |-> ps]
<1>1. top \in Carried(ps) /\ \A b \in Carried(ps) : b <= top
  OBVIOUS
<1>2. v = v \cap Carried(ps) \/ v = SignExtend(v \cap Carried(ps), top)
  BY SignedKept
<1>3. p.v = v /\ p.pieces = ps
  OBVIOUS
<1> HIDE DEF p
<1>4. Kept(p)
  BY <1>1, <1>2, <1>3 DEF Kept
<1> QED
  BY <1>4 DEF p

LEMMA KeptUnsigned ==
  ASSUME NEW v \in Value, NEW m \in Nat, NEW top \in Nat, m <= top + 1, FitsUnsigned(v, m),
         NEW ps, Carried(ps) = 0 .. top
  PROVE  Kept([v |-> v, pieces |-> ps])
<1>1. \A b \in v : b \in 0 .. m - 1
  BY DEF FitsUnsigned
<1>2. \A b \in v : b \in 0 .. top
  BY <1>1
<1>3. v = v \cap 0 .. top
  BY <1>2
<1> QED
  BY <1>3 DEF Kept

-----------------------------------------------------------------------------
(* Every number that an instruction takes is accounted for.                *)
LEMMA NegIsValue == \A v : Neg(v) \in Value
  BY DEF Neg, Value

LEMMA PooledResult ==
  ASSUME NEW t, NEW v, NEW used, NEW h, NEW ps, NEW fl, NEW re, NEW n \in {1, 2},
         Code(t, v, used) = Result(h, ps, fl, re, n, FALSE, FALSE)
  PROVE  Accounted(t, v, Insertion(t, v, used))
<1>1. n \in Nat /\ n > 0
  OBVIOUS
<1> QED
  BY <1>1, AccountedBy

LEMMA AlwaysPooled ==
  ASSUME NEW v \in Value, NEW used, NEW t \in {"CSRUI", "BLR", "DBRS"}
  PROVE  Accounted(t, v, Insertion(t, v, used))
<1>1. CASE t = "CSRUI"
  <2>1. PICK n \in {1, 2} : Code(t, v, used) = OnLine(n, Total(used), 12)
    BY <1>1, CodesA DEF InsertCsrui
  <2> QED
    BY <2>1, PooledAccounted
<1>2. CASE t = "BLR"
  <2>1. PICK n \in {1, 2} : Code(t, v, used) = OnLine(n, Total(used), 10)
    BY <1>2, CodesB DEF InsertBlr
  <2> QED
    BY <2>1, PooledAccounted
<1>3. CASE t = "DBRS"
  <2>1. CASE FitsSigned(v, 32)
    <3> DEFINE place == BitsOf(Len(used) % 16)
    <3>1. Code(t, v, used) = Inserted(place, {<<0, 4, 10>>}, {29}, {}, 1)
      BY <1>3, <2>1, CodesC DEF InsertDbrs
    <3> HIDE DEF place
    <3>2. Code(t, v, used) = Result(place, {<<0, 4, 10>>}, {29}, {}, 1, FALSE, FALSE)
      BY <3>1, InsertedResult
    <3> QED
      BY <3>2, PooledResult
  <2>2. CASE ~FitsSigned(v, 32)
    <3>1. Code(t, v, used) = OnLine(2, Total(used), 10)
      BY <1>3, <2>2, CodesC DEF InsertDbrs
    <3> QED
      BY <3>1, PooledAccounted
  <2> QED
    BY <2>1, <2>2
<1> QED
  BY <1>1, <1>2, <1>3

LEMMA UnsignedAccounted ==
  ASSUME NEW v \in Value, NEW used, NEW t \in {"UI", "UI9", "EXFMT"}
  PROVE  Accounted(t, v, Insertion(t, v, used))
<1>1. Code(t, v, used) = InsertUi(v, Total(used))
  BY CodesB
<1>2. CASE FitsUnsigned(v, 14)
  <2>1. Code(t, v, used) = Result(v, {}, {}, v, 0, FALSE, TRUE)
    BY <1>1, <1>2, FieldGivenUp DEF InsertUi
  <2> QED
    BY <2>1, AccountedBy
<1>3. CASE ~FitsUnsigned(v, 14)
  <2>1. PICK n \in {1, 2} : Code(t, v, used) = OnLine(n, Total(used), 18)
    BY <1>1, <1>3 DEF InsertUi
  <2> QED
    BY <2>1, PooledAccounted
<1> QED
  BY <1>2, <1>3

(* A field of the bits from 0 up keeps what fits in it.                    *)
LEMMA KeptInField ==
  ASSUME NEW v \in Value, NEW n \in 1 .. 64, NEW at \in Nat, FitsSigned(v, n) \/ FitsUnsigned(v, n)
  PROVE  Kept([v |-> v, pieces |-> {<<0, n, at>>}])
<1> DEFINE ps == {<<0, n, at>>}
<1>1. Carried(ps) = 0 .. n - 1
  BY DEF Carried
<1> HIDE DEF ps
<1>2. CASE FitsSigned(v, n)
  <2> DEFINE top == n - 1
  <2>1. top \in 0 .. 63 /\ n <= top + 1 /\ \A b \in v : b >= 0
    BY DEF Value
  <2>2. Carried(ps) = 0 .. top
    BY <1>1
  <2> HIDE DEF top
  <2>3. Kept([v |-> v, pieces |-> ps])
    BY <1>2, <2>1, <2>2, KeptSigned
  <2> QED
    BY <2>3 DEF ps
<1>3. CASE FitsUnsigned(v, n)
  <2> DEFINE top == n - 1
  <2>1. top \in Nat /\ n <= top + 1 /\ n \in Nat
    OBVIOUS
  <2>2. Carried(ps) = 0 .. top
    BY <1>1
  <2> HIDE DEF top
  <2>3. Kept([v |-> v, pieces |-> ps])
    BY <1>3, <2>1, <2>2, KeptUnsigned
  <2> QED
    BY <2>3 DEF ps
<1> QED
  BY <1>2, <1>3

LEMMA KeptBranch ==
  ASSUME NEW v \in Value, \A b \in v : b >= 2
  PROVE  /\ FitsSigned(v, 13) => Kept([v |-> v, pieces |-> BdPieces])
         /\ FitsSigned(v, 25) => Kept([v |-> v, pieces |-> LiPieces])
<1>1. ASSUME NEW top \in 2 .. 63, NEW m \in 1 .. 64, m <= top + 1, FitsSigned(v, m),
             NEW ps, Carried(ps) = 2 .. top
      PROVE  Kept([v |-> v, pieces |-> ps])
  <2>1. 2 \in Nat
    OBVIOUS
  <2> QED
    BY <1>1, <2>1, KeptSigned
<1>2. 13 \in 2 .. 63 /\ 13 \in 1 .. 64 /\ 13 <= 13 + 1
  OBVIOUS
<1>3. 24 \in 2 .. 63 /\ 25 \in 1 .. 64 /\ 25 <= 24 + 1
  OBVIOUS
<1>4. FitsSigned(v, 13) => Kept([v |-> v, pieces |-> BdPieces])
  BY <1>1, <1>2, PiecesCarry
<1>5. FitsSigned(v, 25) => Kept([v |-> v, pieces |-> LiPieces])
  BY <1>1, <1>3, PiecesCarry
<1> QED
  BY <1>4, <1>5

LEMMA MvCarry ==
  /\ Carried(MvPieces["mvrd"]) = 0 .. 6
  /\ Carried(MvPieces["mvrs"]) = 0 .. 6
<1>1. /\ MvPieces["mvrd"] = {<<0, 5, 6>>, <<5, 2, 17>>}
      /\ MvPieces["mvrs"] = {<<0, 5, 11>>, <<5, 2, 19>>}
  BY DEF MvPieces
<1>2. /\ Carried(MvPieces["mvrd"]) = (0 .. 0 + 5 - 1) \cup (5 .. 5 + 2 - 1)
      /\ Carried(MvPieces["mvrs"]) = (0 .. 0 + 5 - 1) \cup (5 .. 5 + 2 - 1)
  BY <1>1 DEF Carried
<1> QED
  BY <1>2

(* A number of n bits with its sign is kept or pooled.                     *)
LEMMA SignedAccounted ==
  ASSUME NEW v \in Value, NEW used, NEW t \in {"SI", "D", "SCNDX", "BD"}
  PROVE  Accounted(t, v, Insertion(t, v, used))
<1> DEFINE bits == CASE t = "SCNDX" -> 5 [] t = "BD" -> 13 [] OTHER -> 14
<1>1. CASE ~FitsSigned(v, bits)
  <2>1. CASE t = "SI"
    <3>1. PICK n \in {1, 2} : Code(t, v, used) = OnLine(n, Total(used), 18)
      BY <1>1, <2>1, CodesB DEF InsertSi
    <3> QED
      BY <3>1, PooledAccounted
  <2>2. CASE t = "D"
    <3>1. PICK n \in {1, 2} : Code(t, v, used) = OnLine(n, Total(used), 18)
      BY <1>1, <2>2, CodesA DEF InsertDsi
    <3> QED
      BY <3>1, PooledAccounted
  <2>3. CASE t = "SCNDX"
    <3>1. PICK n \in {1, 2} : Code(t, v, used) = OnLine(n, Total(used), 24)
      BY <1>1, <2>3, CodesC DEF InsertScndx
    <3> QED
      BY <3>1, PooledAccounted
  <2>4. CASE t = "BD"
    <3>1. PICK n \in {1, 2} : Code(t, v, used) = OnLine(n, Total(used), 10)
      BY <1>1, <2>4, CodesA DEF InsertBd
    <3> QED
      BY <3>1, PooledAccounted
  <2> QED
    BY <2>1, <2>2, <2>3, <2>4
<1>2. CASE FitsSigned(v, bits)
  <2>1. CASE t \in {"SI", "D"}
    <3>1. FitsSigned(v, 14) /\ Code(t, v, used) = InField(v, {<<0, 14, 17>>})
      BY <1>2, <2>1, CodesA, CodesB DEF InsertSi, InsertDsi
    <3>3. Kept([v |-> v, pieces |-> {<<0, 14, 17>>}])
      BY <3>1, KeptInField
    <3> QED
      BY <2>1, <3>1, <3>3, PlainAccounted
  <2>2. CASE t = "SCNDX"
    <3>1. FitsSigned(v, 5) /\ Code(t, v, used) = InField(v, {<<0, 5, 24>>})
      BY <1>2, <2>2, CodesC DEF InsertScndx
    <3>3. Kept([v |-> v, pieces |-> {<<0, 5, 24>>}])
      BY <3>1, KeptInField
    <3> QED
      BY <2>2, <3>1, <3>3, PlainAccounted
  <2>3. CASE t = "BD"
    <3>1. FitsSigned(v, 13) /\ Code(t, v, used) = InField(v, BdPieces)
      BY <1>2, <2>3, CodesA DEF InsertBd
    <3>2. CASE v \cap {0, 1} # {}
      <4>1. CutSilently(t, v)
        BY <2>3, <3>2 DEF CutSilently
      <4> QED
        BY <3>1, <4>1, PlainAccounted
    <3>3. CASE v \cap {0, 1} = {}
      <4>1. \A b \in v : b >= 2
        BY <3>3 DEF Value
      <4>2. Kept([v |-> v, pieces |-> BdPieces])
        BY <3>1, <4>1, KeptBranch
      <4> QED
        BY <2>3, <3>1, <4>2, PlainAccounted
    <3> QED
      BY <3>2, <3>3
  <2> QED
    BY <2>1, <2>2, <2>3
<1> QED
  BY <1>1, <1>2

(* Those of the other types that hold numbers.                             *)
LEMMA LinkAccounted ==
  ASSUME NEW v \in Value, NEW used
  PROVE  Accounted("LI", v, Insertion("LI", v, used))
<1>1. Code("LI", v, used) = InsertLi(v, Total(used))
  BY CodesA
<1>2. CASE ~FitsSigned(v, 25)
  <2>1. Code("LI", v, used) = [InField(v, {}) EXCEPT !.error = TRUE]
    BY <1>1, <1>2 DEF InsertLi
  <2> QED
    BY <2>1, FieldAccounted
<1>3. CASE FitsSigned(v, 25)
  <2> DEFINE e == v \cap {0, 1} # {}
  <2>1. Code("LI", v, used) = [InField(v, LiPieces) EXCEPT !.error = e]
    BY <1>1, <1>3 DEF InsertLi
  <2>2. e \/ Kept([v |-> v, pieces |-> LiPieces])
    <3>1. CASE v \cap {0, 1} = {}
      <4>1. \A b \in v : b >= 2
        BY <3>1 DEF Value
      <4> QED
        BY <1>3, <4>1, KeptBranch
    <3> QED
      BY <3>1
  <2>3. e \in BOOLEAN
    OBVIOUS
  <2> HIDE DEF e
  <2> QED
    BY <2>1, <2>2, <2>3, FieldAccounted
<1> QED
  BY <1>2, <1>3

LEMMA NegatedAccounted ==
  ASSUME NEW v \in Value, NEW used
  PROVE  Accounted("NSI", v, Insertion("NSI", v, used))
<1>1. Code("NSI", v, used) = InsertSi(Neg(v), Total(used))
  BY CodesB DEF InsertNsi
<1>2. CASE FitsSigned(Neg(v), 14)
  <2> DEFINE w == Neg(v)
             ps == {<<0, 14, 17>>}
  <2>1. Code("NSI", v, used) = InField(w, ps)
    BY <1>1, <1>2 DEF InsertSi
  <2>2. Kept([v |-> w, pieces |-> ps])
    BY <1>2, NegIsValue, KeptInField
  <2> HIDE DEF ps
  <2>3. Code("NSI", v, used) = Result(w, ps, {}, w, 0, FALSE, FALSE)
    BY <2>1, InsertedResult
  <2> QED
    BY <2>2, <2>3, AccountedBy
<1>3. CASE ~FitsSigned(Neg(v), 14)
  <2>1. PICK n \in {1, 2} : Code("NSI", v, used) = OnLine(n, Total(used), 18)
    BY <1>1, <1>3 DEF InsertSi
  <2> QED
    BY <2>1, PooledAccounted
<1> QED
  BY <1>2, <1>3

LEMMA NoDisplacementAccounted ==
  ASSUME NEW v \in Value, NEW used
  PROVE  Accounted("DX", v, Insertion("DX", v, used))
<1> DEFINE e == v # {}
<1>1. [Inserted(v, {}, {31}, v, 0) EXCEPT !.error = e] = Result(v, {}, {31}, v, 0, e, FALSE)
  <2>1. \A f, x : [Result(v, {}, {31}, v, 0, f, f) EXCEPT !.error = x]
                    = Result(v, {}, {31}, v, 0, x, f)
    BY ResultFields
  <2>2. Inserted(v, {}, {31}, v, 0) = Result(v, {}, {31}, v, 0, FALSE, FALSE)
    BY InsertedResult
  <2> QED
    BY <2>1, <2>2
<1>2. Code("DX", v, used) = Result(v, {}, {31}, v, 0, e, FALSE)
  BY <1>1, CodesA DEF InsertXsi
<1>3. e \/ Kept([v |-> v, pieces |-> {}])
  BY PiecesCarry DEF Kept
<1>4. e \in BOOLEAN
  OBVIOUS
<1> HIDE DEF e
<1> QED
  BY <1>2, <1>3, <1>4, AccountedBy

(* Fields without an insert function of their own are checked by the width *)
(* of the field.                                                           *)
LEMMA RangeOf ==
  ASSUME NEW v
  PROVE  /\ \A t \in {"SH6", "MPV", "MD"} : ~OutOfRange(t, v) => FitsUnsigned(v, powerpc_operands[t].bits)
         /\ ~OutOfRange("LMT", v) => FitsSigned(v, 9)
<1>1. /\ powerpc_operands["SH6"].flags = {} /\ powerpc_operands["MPV"].flags = {}
      /\ powerpc_operands["MD"].flags = {}
  BY EntriesB, EntriesC, OpdFields
<1>2. powerpc_operands["LMT"].flags = {"SIGNED"} /\ powerpc_operands["LMT"].bits = 9
  BY EntriesB, OpdFields
<1>3. ASSUME NEW t, powerpc_operands[t].flags = {}
      PROVE  ~OutOfRange(t, v) => FitsUnsigned(v, powerpc_operands[t].bits)
  BY <1>3 DEF OutOfRange, RangeError
<1>4. ~OutOfRange("LMT", v) => FitsSigned(v, 9)
  BY <1>2 DEF OutOfRange, RangeError
<1> QED
  BY <1>1, <1>3, <1>4

LEMMA SmallAccounted ==
  ASSUME NEW v \in Value, NEW used, NEW t \in {"SH6", "MPV", "MD", "LMT"}
  PROVE  Accounted(t, v, Insertion(t, v, used))
<1>1. ASSUME NEW n \in 1 .. 64, NEW at \in Nat, t # "NSI",
             Code(t, v, used) = InField(v, {<<0, n, at>>}),
             ~OutOfRange(t, v) => FitsSigned(v, n) \/ FitsUnsigned(v, n)
      PROVE  Accounted(t, v, Insertion(t, v, used))
  <2>1. OutOfRange(t, v) \/ Kept([v |-> v, pieces |-> {<<0, n, at>>}])
    BY <1>1, KeptInField
  <2> QED
    BY <1>1, <2>1, PlainAccounted
<1>2. CASE t = "SH6"
  <2>1. Code(t, v, used) = InField(v, {<<0, 6, 17>>})
    BY <1>2, CodesB DEF InsertSh6
  <2>2. powerpc_operands["SH6"].bits = 6
    BY EntriesB, OpdFields
  <2>3. ~OutOfRange(t, v) => FitsUnsigned(v, 6)
    BY <1>2, <2>2, RangeOf
  <2> QED
    BY <1>1, <1>2, <2>1, <2>3
<1>3. CASE t = "MPV"
  <2>1. Code(t, v, used) = InField(v, {<<0, 3, 23>>})
    BY <1>3, CodesC
  <2>2. powerpc_operands["MPV"].bits = 3
    BY EntriesC, OpdFields
  <2>3. ~OutOfRange(t, v) => FitsUnsigned(v, 3)
    BY <1>3, <2>2, RangeOf
  <2> QED
    BY <1>1, <1>3, <2>1, <2>3
<1>4. CASE t = "MD"
  <2>1. Code(t, v, used) = InField(v, {<<0, 4, 20>>})
    BY <1>4, CodesC
  <2>2. powerpc_operands["MD"].bits = 4
    BY EntriesC, OpdFields
  <2>3. ~OutOfRange(t, v) => FitsUnsigned(v, 4)
    BY <1>4, <2>2, RangeOf
  <2> QED
    BY <1>1, <1>4, <2>1, <2>3
<1>5. CASE t = "LMT"
  <2>1. Code(t, v, used) = InField(v, {<<0, 9, 17>>})
    BY <1>5, CodesB
  <2>2. ~OutOfRange(t, v) => FitsSigned(v, 9)
    BY <1>5, RangeOf
  <2> QED
    BY <1>1, <1>5, <2>1, <2>2
<1> QED
  BY <1>2, <1>3, <1>4, <1>5

LEMMA MaskAccounted ==
  ASSUME NEW v \in Value, NEW used
  PROVE  Accounted("M12", v, Insertion("M12", v, used))
<1>1. CASE FitsUnsigned(v, 12)
  <2>1. Code("M12", v, used) = InField(v, M12Pieces(11))
    BY <1>1, CodesC DEF InsertM12
  <2>2. 12 \in Nat /\ 11 \in Nat /\ 12 <= 11 + 1
    OBVIOUS
  <2>3. Kept([v |-> v, pieces |-> M12Pieces(11)])
    BY <1>1, <2>2, PiecesCarry, KeptUnsigned
  <2> QED
    BY <2>1, <2>3, PlainAccounted
<1>2. CASE ~FitsUnsigned(v, 12)
  <2>1. Code("M12", v, used) = [InField(v, M12Pieces(23)) EXCEPT !.error = TRUE]
    BY <1>2, CodesC DEF InsertM12
  <2> QED
    BY <2>1, FieldAccounted
<1> QED
  BY <1>1, <1>2

LEMMA MoveAccounted ==
  ASSUME NEW v \in Value, NEW used, NEW t \in {"MVRD", "MVRS"}
  PROVE  Accounted(t, v, Insertion(t, v, used))
<1> DEFINE e == AboveMv(v)
<1>1. PICK ps : /\ Carried(ps) = 0 .. 6
                /\ Code(t, v, used) = [InField(v, ps) EXCEPT !.error = e]
  BY CodesC, MvCarry
<1>2. e \/ CutSilently(t, v) \/ Kept([v |-> v, pieces |-> ps])
  <2>1. CASE FitsUnsigned(v, 8) /\ 7 \notin v
    <3>1. \A b \in v : b \in 0 .. 8 - 1 /\ b # 7
      BY <2>1 DEF FitsUnsigned
    <3>2. FitsUnsigned(v, 7)
      BY <3>1 DEF FitsUnsigned
    <3>3. 7 \in Nat /\ 6 \in Nat /\ 7 <= 6 + 1
      OBVIOUS
    <3> QED
      BY <1>1, <3>2, <3>3, KeptUnsigned
  <2> QED
    BY <2>1 DEF AboveMv, CutSilently
<1>3. e \in BOOLEAN
  BY DEF AboveMv, FitsUnsigned
<1> HIDE DEF e
<1> QED
  BY <1>1, <1>2, <1>3, FieldAccounted

LEMMA StatusAccounted ==
  ASSUME NEW v \in Value, NEW used
  PROVE  Accounted("CSRNO", v, Insertion("CSRNO", v, used))
<1>1. CutSilently("CSRNO", v) \/ FitsUnsigned(v, 12)
  BY DEF CutSilently
<1>2. Code("CSRNO", v, used) = InField(v, {<<0, 12, 17>>})
  BY CodesA
<1>3. FitsUnsigned(v, 12) => Kept([v |-> v, pieces |-> {<<0, 12, 17>>}])
  BY KeptInField
<1> QED
  BY <1>1, <1>2, <1>3, PlainAccounted

LEMMA NumbersAccounted ==
  ASSUME NEW v \in Value, NEW used, NEW t \in NumberTypes
  PROVE  Accounted(t, v, Insertion(t, v, used))
  BY AlwaysPooled, UnsignedAccounted, SignedAccounted, LinkAccounted, NegatedAccounted,
     NoDisplacementAccounted, SmallAccounted, MaskAccounted, MoveAccounted, StatusAccounted
  DEF NumberTypes

-----------------------------------------------------------------------------
(* The operands of every row are entries of powerpc_operands.              *)
LEMMA ShortSequences ==
  ASSUME NEW S
  PROVE  /\ <<>> \in Seq(S)
         /\ \A a \in S : <<a>> \in Seq(S)
         /\ \A a, b \in S : <<a, b>> \in Seq(S)
         /\ \A a, b, c \in S : <<a, b, c>> \in Seq(S)
         /\ \A a, b, c, d \in S : <<a, b, c, d>> \in Seq(S)
  OBVIOUS

LEMMA RowsAreTyped == Rows \subseteq Seq(OperandTypes)
<1> DEFINE T == RegisterTypes \cup NumberTypes
<1>1. /\ {"RS", "RA", "RB", "RC", "CRS", "BS", "BR", "BF", "BT", "BA", "BB", "FRS"} \subseteq T
      /\ {"RL", "MOVRD", "MOVRS"} \subseteq T
  BY DEF RegisterTypes
<1>2. /\ {"SI", "DX", "UI", "M12", "BD", "LI", "BLR", "DBRS", "LMT", "D", "CSRNO", "CSRUI"} \subseteq T
      /\ {"UI9", "EXFMT", "SH6", "SCNDX", "MD", "MPV", "NSI", "MVRD", "MVRS"} \subseteq T
  BY DEF NumberTypes
<1> HIDE DEF T
<1>3. RowsA \subseteq Seq(T)
  BY <1>1, <1>2, ShortSequences DEF RowsA
<1>4. RowsB \subseteq Seq(T)
  BY <1>1, <1>2, ShortSequences DEF RowsB
<1> QED
  BY <1>3, <1>4, AllTypes DEF Rows, T

-----------------------------------------------------------------------------
(* What the operands of a row are parsed to.                               *)
LEMMA HoldFields ==
  ASSUME NEW part, NEW t, NEW v, NEW r
  PROVE  LET p == Hold(part, t, v, r)
         IN  /\ p.op = i /\ p.part = part /\ p.type = t /\ p.v = v
             /\ p.held = r.held /\ p.pieces = r.pieces /\ p.size = r.size /\ p.whole = r.whole
             /\ [p EXCEPT !.v = Neg(p.v)].v = Neg(v)
             /\ [p EXCEPT !.v = Neg(p.v)].pieces = r.pieces
  BY DEF Hold

LEMMA NumberFlags ==
  \A t \in NumberTypes : powerpc_operands[t].flags \cap {"BR", "CB", "MPC", "CR", "FPR", "GPR", "REGLIST"} = {}
<1> DEFINE None(t) == powerpc_operands[t].flags \cap {"BR", "CB", "MPC", "CR", "FPR", "GPR", "REGLIST"} = {}
<1>1. None("BD") /\ None("CSRUI") /\ None("CSRNO") /\ None("D") /\ None("DX") /\ None("LI")
  BY EntriesA, OpdFields
<1>2. /\ None("NSI") /\ None("SH6") /\ None("SI") /\ None("BLR") /\ None("LMT") /\ None("UI")
      /\ None("UI9") /\ None("EXFMT")
  BY EntriesB, OpdFields
<1>3. /\ None("SCNDX") /\ None("DBRS") /\ None("M12") /\ None("MPV") /\ None("MD")
      /\ None("MVRD") /\ None("MVRS")
  BY EntriesC, OpdFields
<1> HIDE DEF None
<1>4. \A t \in NumberTypes : None(t)
  BY <1>1, <1>2, <1>3 DEF NumberTypes
<1> QED
  BY <1>4 DEF None

LEMMA Classes == \A r : IsReg(r).class \in {"BR", "CB", "MPC", "CR", "FPR", "GPR"}
  BY DEF IsReg, RegClass

(* A number comes from an expression or from the displacement of a memory  *)
(* operand.                                                                *)
LEMMA NumbersAreParsed ==
  ASSUME NEW s \in Sources, NEW t \in NumberTypes, ParseOperand(s, t).match
  PROVE  s.t \in {"expr", "mem"} /\ ParseOperand(s, t).v = s.v /\ s.v \in Value
<1>1. s.t \in {"reg", "list", "expr", "mem"}
  BY SourcesAssumption
<1>2. ASSUME s.t \in {"reg", "list"}
      PROVE  FALSE
  <2>1. ParseOperand(s, t) = ParseRegisters(s, t)
    BY <1>2 DEF ParseOperand
  <2>2. t # "RL"
    BY DEF NumberTypes
  <2>3. ParseRegisters(s, t) = NoMatch
    BY <2>2, NumberFlags, Classes DEF ParseRegisters
  <2> QED
    BY <2>1, <2>3 DEF NoMatch
<1>3. ASSUME s.t = "expr"
      PROVE  ParseOperand(s, t).v = s.v
  BY <1>3 DEF ParseOperand, Parsed
<1>4. ASSUME s.t = "mem"
      PROVE  ParseOperand(s, t).v = s.v
  <2>1. ParseOperand(s, t) = ParseMemory(s, t)
    BY <1>4 DEF ParseOperand
  <2>2. ParseMemory(s, t).v = s.v
    BY <2>1 DEF ParseMemory, Parsed, NoMatch
  <2> QED
    BY <2>1, <2>2, <1>4
<1>5. s.t \in {"expr", "mem"} => s.v \in Value
  BY SourcesAssumption DEF Value
<1> QED
  BY <1>1, <1>2, <1>3, <1>4, <1>5

LEMMA ParensAreNumbers ==
  \A t \in OperandTypes : "PARENS" \in powerpc_operands[t].flags => t \in {"D", "DX", "SCNDX", "DBRS"}
<1> DEFINE None(t) == "PARENS" \notin powerpc_operands[t].flags
<1>1. /\ None("BD") /\ None("CSRUI") /\ None("CSRNO") /\ None("LI") /\ None("BA") /\ None("BB")
      /\ None("BS") /\ None("BF") /\ None("CRS") /\ None("BT") /\ None("FRS")
  BY EntriesA, OpdFields
<1>2. /\ None("NSI") /\ None("SH6") /\ None("SI") /\ None("BLR") /\ None("LMT") /\ None("UI")
      /\ None("UI9") /\ None("EXFMT") /\ None("BR") /\ None("BRS") /\ None("RL") /\ None("RA")
      /\ None("RB") /\ None("RC") /\ None("RS")
  BY EntriesB, OpdFields
<1>3. /\ None("M12") /\ None("MPV") /\ None("MD") /\ None("MVRD") /\ None("MVRS")
      /\ None("MOVRD") /\ None("MOVRS")
  BY EntriesC, OpdFields
<1> HIDE DEF None
<1>4. \A t \in OperandTypes : None(t) \/ t \in {"D", "DX", "SCNDX", "DBRS"}
  BY <1>1, <1>2, <1>3, AllTypes DEF RegisterTypes, NumberTypes
<1> QED
  BY <1>4 DEF None

-----------------------------------------------------------------------------
(* LossIsReported.  What an operand put into the instruction is settled    *)
(* when it was kept, pooled, given up or reported.                         *)
Settled(p, reported) ==
  \/ p.size > 0 \/ p.op \in reported \/ p.whole
  \/ IsRegisterField(p.type) \/ CutSilently(p.type, p.v)
  \/ p.type = "NSI" /\ Kept([p EXCEPT !.v = Neg(p.v)])
  \/ p.type # "NSI" /\ Kept(p)

LossInv ==
  /\ row \in Rows \cup data_items
  /\ i \in Nat \ {0}
  /\ LossIsReported

LEMMA KeptByFields ==
  ASSUME NEW p, NEW q, p.v = q.v, p.pieces = q.pieces, Kept(p)
  PROVE  Kept(q)
  BY DEF Kept

LEMMA TypedOperand ==
  ASSUME LossInv, ~IsData, i <= Len(row)
  PROVE  row[i] \in OperandTypes
<1>1. row \in Seq(OperandTypes)
  BY RowsAreTyped DEF LossInv, IsData
<1> QED
  BY <1>1 DEF LossInv

LEMMA SettledByInsertion ==
  ASSUME NEW part, NEW t \in OperandTypes, NEW v, NEW used, t \in NumberTypes => v \in Value,
         NEW reported, Insertion(t, v, used).error => i \in reported
  PROVE  Settled(Hold(part, t, v, Insertion(t, v, used)), reported)
<1> DEFINE r == Insertion(t, v, used)
           p == Hold(part, t, v, r)
           q == [p EXCEPT !.v = Neg(p.v)]
<1>1. /\ p.op = i /\ p.type = t /\ p.v = v /\ p.pieces = r.pieces
      /\ p.size = r.size /\ p.whole = r.whole
      /\ q.v = Neg(v) /\ q.pieces = r.pieces
  BY HoldFields
<1>2. r.error => i \in reported
  OBVIOUS
<1>3. CASE t \in RegisterTypes
  <2>1. IsRegisterField(t)
    BY <1>3, RegisterFields
  <2> HIDE DEF p, r
  <2>2. Settled(p, reported)
    BY <2>1, <1>1 DEF Settled
  <2> QED
    BY <2>2 DEF p, r
<1>4. CASE t \in NumberTypes
  <2>1. Accounted(t, v, r)
    BY <1>4, NumbersAccounted
  <2> HIDE DEF p, r
  <2> DEFINE a == [v |-> v, pieces |-> r.pieces]
             n == [v |-> Neg(v), pieces |-> r.pieces]
  <2>2. a.v = v /\ a.pieces = r.pieces /\ n.v = Neg(v) /\ n.pieces = r.pieces
    OBVIOUS
  <2>3. Kept(a) => Kept(p)
    <3> HIDE DEF a
    <3> QED
      BY <1>1, <2>2, KeptByFields
  <2>4. Kept(n) => Kept(q)
    <3> HIDE DEF n, q
    <3> QED
      BY <1>1, <2>2, KeptByFields
  <2> HIDE DEF a, n, q
  <2>5. \/ r.size > 0 \/ r.error \/ r.whole
        \/ CutSilently(t, v)
        \/ t = "NSI" /\ Kept(n)
        \/ t # "NSI" /\ Kept(a)
    BY <2>1 DEF Accounted, a, n
  <2>6. \/ p.size > 0 \/ p.op \in reported \/ p.whole
        \/ IsRegisterField(p.type) \/ CutSilently(p.type, p.v)
        \/ p.type = "NSI" /\ Kept(q)
        \/ p.type # "NSI" /\ Kept(p)
    BY <1>1, <1>2, <2>3, <2>4, <2>5
  <2>7. Settled(p, reported)
    BY <2>6 DEF Settled, q
  <2> QED
    BY <2>7 DEF p, r
<1> QED
  BY <1>3, <1>4, AllTypes

LEMMA LossStep ==
  ASSUME LossInv, [Next]_vars
  PROVE  LossInv'
<1>1. CASE UNCHANGED vars
  BY <1>1 DEF vars, LossInv, LossIsReported, IsData
<1>2. ASSUME NEW s \in Sources, EvalData(s)
      PROVE  LossInv'
  BY <1>2 DEF EvalData, LossInv, LossIsReported, IsData
<1>3. ASSUME ~IsData, row' = row, i' = i + 1, NEW new, errors \subseteq errors',
             placed' \subseteq placed \cup new, \A p \in new : Settled(p, errors')
      PROVE  LossInv'
  <2>1. row' \in Rows \cup data_items /\ i' \in Nat \ {0}
    BY <1>3 DEF LossInv, data_items
  <2>2. \A p \in placed : Settled(p, errors)
    BY <1>3 DEF LossInv, LossIsReported, Settled
  <2>3. \A p \in placed' : Settled(p, errors')
    BY <1>3, <2>2 DEF Settled
  <2> QED
    BY <2>1, <2>3 DEF LossInv, LossIsReported, Settled
<1>4. ASSUME NEW s \in Sources, EvalOperand(s)
      PROVE  LossInv'
  <2> DEFINE t == row[i]
             p == ParseOperand(s, t)
             r == Insertion(t, p.v, pool)
             new == {Hold("self", t, p.v, r)}
  <2>1. /\ ~IsData /\ i <= Len(row) /\ p.match /\ row' = row /\ i' = i + 1
        /\ placed' = placed \cup new
        /\ Errors(r.error \/ RelocError(s, t, p))
    BY <1>4 DEF EvalOperand
  <2>2. t \in OperandTypes
    BY <2>1, TypedOperand
  <2>3. t \in NumberTypes => p.v \in Value
    BY <2>1, NumbersAreParsed
  <2>4. errors \subseteq errors' /\ (r.error => i \in errors')
    BY <2>1 DEF Errors
  <2>5. \A h \in new : Settled(h, errors')
    BY <2>2, <2>3, <2>4, SettledByInsertion
  <2> HIDE DEF new, p, r
  <2> QED
    BY <2>1, <2>4, <2>5, <1>3
<1>5. ASSUME NEW s \in Sources, EvalFarBranch(s)
      PROVE  LossInv'
  <2> DEFINE t == row[i]
             p == ParseOperand(s, t)
             v == Neg(Neg(p.v) \cup {2})
             r == Insertion("LI", v, pool)
             new == {Hold("self", "LI", v, r)}
  <2>1. /\ ~IsData /\ row' = row /\ i' = i + 1
        /\ placed' = new
        /\ Errors(r.error \/ RelocError(s, t, p))
    BY <1>5 DEF EvalFarBranch
  <2>2. "LI" \in OperandTypes
    BY AllTypes DEF NumberTypes
  <2>3. v \in Value
    BY NegIsValue
  <2>4. errors \subseteq errors' /\ (r.error => i \in errors')
    BY <2>1 DEF Errors
  <2>5. \A h \in new : Settled(h, errors')
    BY <2>2, <2>3, <2>4, SettledByInsertion
  <2> HIDE DEF new, p, r
  <2> QED
    BY <2>1, <2>4, <2>5, <1>3
<1>6. ASSUME NEW s \in Sources, EvalMemory(s)
      PROVE  LossInv'
  <2> DEFINE t == row[i]
             p == ParseOperand(s, t)
             base == IF t = "DBRS" THEN "BRS" ELSE "RA"
             d == Insertion(t, p.v, pool)
             rest == pool \o SizeOf(d)
             b == Insertion(base, p.base, rest)
             x == Insertion("RB", p.ndx, rest)
             new == {Hold("disp", t, p.v, d), Hold("base", base, p.base, b), Hold("ndx", "RB", p.ndx, x)}
  <2>1. /\ ~IsData /\ i <= Len(row) /\ p.match /\ row' = row /\ i' = i + 1
        /\ placed' \subseteq placed \cup new
        /\ Errors(d.error \/ b.error \/ x.error \/ RelocError(s, t, p))
    BY <1>6 DEF EvalMemory
  <2>2. t \in OperandTypes
    BY <2>1, TypedOperand
  <2>3. t \in NumberTypes => p.v \in Value
    BY <2>1, NumbersAreParsed
  <2>4. base \in RegisterTypes /\ "RB" \in RegisterTypes /\ RegisterTypes \cap NumberTypes = {}
    BY DEF RegisterTypes, NumberTypes
  <2>5. /\ errors \subseteq errors'
        /\ d.error => i \in errors'
        /\ b.error => i \in errors'
        /\ x.error => i \in errors'
    BY <2>1 DEF Errors
  <2> HIDE DEF p, t, base, rest
  <2>6. Settled(Hold("disp", t, p.v, d), errors')
    BY <2>2, <2>3, <2>5, SettledByInsertion
  <2>7. Settled(Hold("base", base, p.base, b), errors')
    BY <2>4, <2>5, AllTypes, SettledByInsertion
  <2>8. Settled(Hold("ndx", "RB", p.ndx, x), errors')
    BY <2>4, <2>5, AllTypes, SettledByInsertion
  <2>9. \A h \in new : Settled(h, errors')
    BY <2>6, <2>7, <2>8
  <2> HIDE DEF new, d, b, x
  <2> QED
    BY <2>1, <2>5, <2>9, <1>3
<1> QED
  BY <1>1, <1>2, <1>4, <1>5, <1>6 DEF Next

(* LossIsReported: whatever numbers the source gives, each is kept whole   *)
(* by the instruction, goes to the constant pool or is reported, the ones  *)
(* that CutSilently names apart.                                           *)
THEOREM NoSilentLoss == Spec => []LossIsReported
<1>1. Init => LossInv
  BY DEF Init, LossInv, LossIsReported
<1>2. LossInv /\ [Next]_vars => LossInv'
  BY LossStep
<1>3. LossInv => LossIsReported
  BY DEF LossInv
<1> QED
  BY <1>1, <1>2, <1>3, PTL DEF Spec

-----------------------------------------------------------------------------
(* Where each type of operand may set bits in the instruction, for memory  *)
(* operands without their base and index registers.                        *)
Reach(t) ==
  CASE t \in {"RS", "FRS"} -> 6 .. 10
    [] t \in {"BF", "BR"} -> 6 .. 8
    [] t = "RA" -> 11 .. 15
    [] t = "RB" -> 17 .. 21
    [] t = "RC" -> 22 .. 26
    [] t \in {"BS", "BRS"} -> 26 .. 28
    [] t = "CRS" -> 20 .. 21
    [] t = "BT" -> 6 .. 11
    [] t = "BA" -> 12 .. 17
    [] t = "BB" -> 18 .. 23
    [] t = "RL" -> 6 .. 28
    [] t \in {"MOVRD", "MVRD"} -> 6 .. 10 \cup 17 .. 18
    [] t \in {"MOVRS", "MVRS"} -> 11 .. 15 \cup 19 .. 20
    [] t \in {"SI", "NSI", "UI", "UI9", "EXFMT"} -> 17 .. 30
    [] t = "D" -> 17 .. 30
    [] t = "DX" -> {31}
    [] t = "SCNDX" -> 24 .. 30
    [] t = "DBRS" -> 10 .. 13 \cup 29 .. 30
    [] t = "BLR" -> 10 .. 13 \cup 29 .. 30
    [] t = "CSRUI" -> 12 .. 15 \cup 29 .. 30
    [] t = "CSRNO" -> 17 .. 28
    [] t = "LMT" -> 17 .. 25
    [] t = "BD" -> {0} \cup 6 .. 13 \cup 29 .. 31
    [] t = "LI" -> {0} \cup 9 .. 30
    [] t = "SH6" -> 17 .. 22
    [] t = "M12" -> {0} \cup 9 .. 19
    [] t = "MPV" -> 23 .. 25
    [] t = "MD" -> 20 .. 23

PoolTypes == {"SI", "NSI", "UI", "UI9", "EXFMT", "D", "SCNDX", "DBRS", "BLR", "CSRUI", "BD"}

(* An insertion of size words with these pieces and further bits.          *)
Sound(t, pieces, flags, size, wrong) ==
  /\ pieces \subseteq Layout /\ Apart(pieces)
  /\ Span(pieces) \cup flags \subseteq 0 .. 31
  /\ Span(pieces) \cap flags = {}
  /\ size \in 0 .. 2 /\ (size > 0 => t \in PoolTypes)
  /\ wrong \/ Span(pieces) \cup flags \subseteq Reach(t)

WellPlaced(t, r) == Sound(t, r.pieces, r.flags, r.size, r.error)

LEMMA PlacedByCode ==
  ASSUME NEW t, NEW v, NEW used,
         NEW h, NEW ps, NEW fl, NEW re, NEW n, NEW e \in BOOLEAN, NEW w,
         Code(t, v, used) = Result(h, ps, fl, re, n, e, w), Sound(t, ps, fl, n, e)
  PROVE  WellPlaced(t, Insertion(t, v, used))
<1> DEFINE r == Insertion(t, v, used)
<1>1. r = Result(h, ps, fl, re, n, (e \/ OutOfRange(t, re)), w)
  BY RangeOutcome
<1> HIDE DEF r
<1>2. r.size = n /\ r.pieces = ps /\ r.flags = fl
  BY <1>1, ResultFields
<1>3. r.error = (e \/ OutOfRange(t, re))
  BY <1>1, ResultFields
<1>4. OutOfRange(t, re) \in BOOLEAN
  BY DEF OutOfRange, RangeError
<1>5. e => r.error
  BY <1>3, <1>4
<1>6. WellPlaced(t, r)
  BY <1>2, <1>5 DEF WellPlaced, Sound
<1> QED
  BY <1>6 DEF r

LEMMA OnePiece ==
  ASSUME NEW lo \in Nat, NEW n \in Nat, NEW at \in Nat
  PROVE  /\ {<<lo, n, at>>} \subseteq Layout /\ Apart({<<lo, n, at>>})
         /\ Span({<<lo, n, at>>}) = at .. at + n - 1
  BY DEF Layout, Apart, Span

LEMMA FieldSound ==
  ASSUME NEW t, NEW n \in Nat, NEW at \in Nat, at .. at + n - 1 \subseteq 0 .. 31, NEW e,
         at .. at + n - 1 \subseteq Reach(t)
  PROVE  Sound(t, {<<0, n, at>>}, {}, 0, e)
<1> DEFINE ps == {<<0, n, at>>}
<1>1. ps \subseteq Layout /\ Apart(ps) /\ Span(ps) = at .. at + n - 1
  BY OnePiece
<1> HIDE DEF ps
<1>2. Sound(t, ps, {}, 0, e)
  BY <1>1 DEF Sound
<1> QED
  BY <1>2 DEF ps

LEMMA LineSound ==
  ASSUME NEW t \in PoolTypes, NEW n \in {1, 2}, NEW at \in {10, 12, 18, 24}, NEW e,
         at .. at + 3 \subseteq Reach(t), {29, 30} \subseteq Reach(t)
  PROVE  Sound(t, {<<0, 4, at>>}, {28 + n}, n, e)
<1> DEFINE ps == {<<0, 4, at>>}
<1>1. ps \subseteq Layout /\ Apart(ps)
  BY DEF Layout, Apart
<1>2. ps \subseteq Layout /\ Apart(ps) /\ Span(ps) = at .. at + 3
  BY <1>1 DEF Span
<1> HIDE DEF ps
<1>3. /\ at .. at + 3 \subseteq 0 .. 28 /\ 28 + n \in {29, 30}
      /\ n \in 0 .. 2
  OBVIOUS
<1>4. Sound(t, ps, {28 + n}, n, e)
  BY <1>2, <1>3 DEF Sound
<1> QED
  BY <1>4 DEF ps

LEMMA LinePlaced ==
  ASSUME NEW t \in PoolTypes, NEW v, NEW used, NEW n \in {1, 2}, NEW tot, NEW at \in {10, 12, 18, 24},
         at .. at + 3 \subseteq Reach(t), {29, 30} \subseteq Reach(t),
         Code(t, v, used) = OnLine(n, tot, at)
  PROVE  WellPlaced(t, Insertion(t, v, used))
<1> DEFINE place == BitsOf((Words - tot - n) % 16)
           ps == {<<0, 4, at>>}
           fl == {28 + n}
<1>1. Code(t, v, used) = Result(place, ps, fl, {}, n, FALSE, FALSE)
  BY OnLineResult
<1>2. Sound(t, ps, fl, n, FALSE)
  BY LineSound
<1> HIDE DEF place, ps, fl
<1> QED
  BY <1>1, <1>2, PlacedByCode

LEMMA FieldPlaced ==
  ASSUME NEW t, NEW v, NEW used, NEW w, NEW ps, Sound(t, ps, {}, 0, FALSE),
         Code(t, v, used) = InField(w, ps)
  PROVE  WellPlaced(t, Insertion(t, v, used))
<1>1. Code(t, v, used) = Result(w, ps, {}, w, 0, FALSE, FALSE)
  BY InsertedResult
<1> QED
  BY <1>1, PlacedByCode

LEMMA CheckedPlaced ==
  ASSUME NEW t, NEW v, NEW used, NEW ps, NEW e \in BOOLEAN, Sound(t, ps, {}, 0, e),
         Code(t, v, used) = [InField(v, ps) EXCEPT !.error = e]
  PROVE  WellPlaced(t, Insertion(t, v, used))
<1>1. Code(t, v, used) = Result(v, ps, {}, v, 0, e, FALSE)
  BY FieldWithError
<1> DEFINE fl == {}
           n == 0
           w == FALSE
<1>2. Code(t, v, used) = Result(v, ps, fl, v, n, e, w) /\ Sound(t, ps, fl, n, e)
  BY <1>1
<1> HIDE DEF fl, n, w
<1> QED
  BY <1>2, PlacedByCode

(* The operands that are put at several places.                            *)
LaidOver(pieces, bits) ==
  pieces \subseteq Layout /\ Apart(pieces) /\ Span(pieces) = bits

LEMMA TwoPieces ==
  ASSUME NEW a \in Layout, NEW b \in Layout, SpanOf(a) \cap SpanOf(b) = {}
  PROVE  LaidOver({a, b}, SpanOf(a) \cup SpanOf(b))
<1>1. Apart({a, b})
  BY DEF Apart
<1>2. Span({a, b}) = SpanOf(a) \cup SpanOf(b)
  BY DEF Span, SpanOf
<1> QED
  BY <1>1, <1>2 DEF LaidOver

LEMMA PieceOf ==
  ASSUME NEW lo \in Nat, NEW n \in Nat, NEW at \in Nat
  PROVE  <<lo, n, at>> \in Layout /\ SpanOf(<<lo, n, at>>) = at .. at + n - 1
  BY DEF Layout, SpanOf

LEMMA ManyPieces ==
  /\ LaidOver(FieldPieces["movrd"], 6 .. 10 \cup 17 .. 18)
  /\ LaidOver(FieldPieces["movrs"], 11 .. 15 \cup 19 .. 20)
  /\ LaidOver(FieldPieces["reglist"], 6 .. 13 \cup 17 .. 25 \cup 14 .. 15 \cup 27 .. 28)
  /\ LaidOver(FieldPieces["bt"], 9 .. 11 \cup 6 .. 8)
  /\ LaidOver(FieldPieces["ba"], 15 .. 17 \cup 12 .. 14)
  /\ LaidOver(FieldPieces["bb"], 21 .. 23 \cup 18 .. 20)
  /\ LaidOver(MvPieces["mvrd"], 6 .. 10 \cup 17 .. 18)
  /\ LaidOver(MvPieces["mvrs"], 11 .. 15 \cup 19 .. 20)
  /\ LaidOver(BdPieces, 0 .. 0 \cup 6 .. 13 \cup 29 .. 31)
  /\ LaidOver(LiPieces, 0 .. 0 \cup 9 .. 30)
  /\ LaidOver(M12Pieces(11), 0 .. 0 \cup 9 .. 19)
  /\ LaidOver(M12Pieces(23), 0 .. 0 \cup 9 .. 31)
<1>1. LaidOver(FieldPieces["movrd"], 6 .. 10 \cup 17 .. 18)
  <2> DEFINE p0 == <<0, 5, 6>>
             p1 == <<5, 2, 17>>
  <2>1. p0 \in Layout /\ SpanOf(p0) = 6 .. 10
    BY DEF Layout, SpanOf
  <2>2. p1 \in Layout /\ SpanOf(p1) = 17 .. 18
    BY DEF Layout, SpanOf
  <2>3. FieldPieces["movrd"] = {p0, p1}
    BY DEF FieldPieces
  <2> HIDE DEF p0, p1
  <2> QED
    BY <2>1, <2>2, <2>3, TwoPieces
<1>2. LaidOver(FieldPieces["movrs"], 11 .. 15 \cup 19 .. 20)
  <2> DEFINE p0 == <<0, 5, 11>>
             p1 == <<5, 2, 19>>
  <2>1. p0 \in Layout /\ SpanOf(p0) = 11 .. 15
    BY DEF Layout, SpanOf
  <2>2. p1 \in Layout /\ SpanOf(p1) = 19 .. 20
    BY DEF Layout, SpanOf
  <2>3. FieldPieces["movrs"] = {p0, p1}
    BY DEF FieldPieces
  <2> HIDE DEF p0, p1
  <2> QED
    BY <2>1, <2>2, <2>3, TwoPieces
<1>3. LaidOver(FieldPieces["reglist"], 6 .. 13 \cup 17 .. 25 \cup 14 .. 15 \cup 27 .. 28)
  <2> DEFINE p0 == <<0, 8, 6>>
             p1 == <<8, 9, 17>>
             p2 == <<28, 2, 14>>
             p3 == <<30, 2, 27>>
  <2>1. p0 \in Layout /\ SpanOf(p0) = 6 .. 13
    BY DEF Layout, SpanOf
  <2>2. p1 \in Layout /\ SpanOf(p1) = 17 .. 25
    BY DEF Layout, SpanOf
  <2>3. p2 \in Layout /\ SpanOf(p2) = 14 .. 15
    BY DEF Layout, SpanOf
  <2>4. p3 \in Layout /\ SpanOf(p3) = 27 .. 28
    BY DEF Layout, SpanOf
  <2>5. FieldPieces["reglist"] = {p0, p1, p2, p3}
    BY DEF FieldPieces
  <2> HIDE DEF p0, p1, p2, p3
  <2>6. Apart({p0, p1, p2, p3})
    BY <2>1, <2>2, <2>3, <2>4 DEF Apart
  <2>7. Span({p0, p1, p2, p3}) = SpanOf(p0) \cup SpanOf(p1) \cup SpanOf(p2) \cup SpanOf(p3)
    BY DEF Span, SpanOf
  <2> QED
    BY <2>1, <2>2, <2>3, <2>4, <2>5, <2>6, <2>7 DEF LaidOver
<1>4. LaidOver(FieldPieces["bt"], 9 .. 11 \cup 6 .. 8)
  <2> DEFINE p0 == <<0, 3, 9>>
             p1 == <<8, 3, 6>>
  <2>1. p0 \in Layout /\ SpanOf(p0) = 9 .. 11
    BY DEF Layout, SpanOf
  <2>2. p1 \in Layout /\ SpanOf(p1) = 6 .. 8
    BY DEF Layout, SpanOf
  <2>3. FieldPieces["bt"] = {p0, p1}
    BY DEF FieldPieces
  <2> HIDE DEF p0, p1
  <2> QED
    BY <2>1, <2>2, <2>3, TwoPieces
<1>5. LaidOver(FieldPieces["ba"], 15 .. 17 \cup 12 .. 14)
  <2> DEFINE p0 == <<0, 3, 15>>
             p1 == <<8, 3, 12>>
  <2>1. p0 \in Layout /\ SpanOf(p0) = 15 .. 17
    BY DEF Layout, SpanOf
  <2>2. p1 \in Layout /\ SpanOf(p1) = 12 .. 14
    BY DEF Layout, SpanOf
  <2>3. FieldPieces["ba"] = {p0, p1}
    BY DEF FieldPieces
  <2> HIDE DEF p0, p1
  <2> QED
    BY <2>1, <2>2, <2>3, TwoPieces
<1>6. LaidOver(FieldPieces["bb"], 21 .. 23 \cup 18 .. 20)
  <2> DEFINE p0 == <<0, 3, 21>>
             p1 == <<8, 3, 18>>
  <2>1. p0 \in Layout /\ SpanOf(p0) = 21 .. 23
    BY DEF Layout, SpanOf
  <2>2. p1 \in Layout /\ SpanOf(p1) = 18 .. 20
    BY DEF Layout, SpanOf
  <2>3. FieldPieces["bb"] = {p0, p1}
    BY DEF FieldPieces
  <2> HIDE DEF p0, p1
  <2> QED
    BY <2>1, <2>2, <2>3, TwoPieces
<1>7. LaidOver(MvPieces["mvrd"], 6 .. 10 \cup 17 .. 18)
  <2> DEFINE p0 == <<0, 5, 6>>
             p1 == <<5, 2, 17>>
  <2>1. p0 \in Layout /\ SpanOf(p0) = 6 .. 10
    BY DEF Layout, SpanOf
  <2>2. p1 \in Layout /\ SpanOf(p1) = 17 .. 18
    BY DEF Layout, SpanOf
  <2>3. MvPieces["mvrd"] = {p0, p1}
    BY DEF MvPieces
  <2> HIDE DEF p0, p1
  <2> QED
    BY <2>1, <2>2, <2>3, TwoPieces
<1>8. LaidOver(MvPieces["mvrs"], 11 .. 15 \cup 19 .. 20)
  <2> DEFINE p0 == <<0, 5, 11>>
             p1 == <<5, 2, 19>>
  <2>1. p0 \in Layout /\ SpanOf(p0) = 11 .. 15
    BY DEF Layout, SpanOf
  <2>2. p1 \in Layout /\ SpanOf(p1) = 19 .. 20
    BY DEF Layout, SpanOf
  <2>3. MvPieces["mvrs"] = {p0, p1}
    BY DEF MvPieces
  <2> HIDE DEF p0, p1
  <2> QED
    BY <2>1, <2>2, <2>3, TwoPieces
<1>9. LaidOver(BdPieces, 0 .. 0 \cup 6 .. 13 \cup 29 .. 31)
  <2> DEFINE p0 == <<2, 1, 0>>
             p1 == <<3, 8, 6>>
             p2 == <<11, 3, 29>>
  <2>1. p0 \in Layout /\ SpanOf(p0) = 0 .. 0
    BY DEF Layout, SpanOf
  <2>2. p1 \in Layout /\ SpanOf(p1) = 6 .. 13
    BY DEF Layout, SpanOf
  <2>3. p2 \in Layout /\ SpanOf(p2) = 29 .. 31
    BY DEF Layout, SpanOf
  <2>4. BdPieces = {p0, p1, p2}
    BY DEF BdPieces
  <2> HIDE DEF p0, p1, p2
  <2>5. Apart({p0, p1, p2})
    BY <2>1, <2>2, <2>3 DEF Apart
  <2>6. Span({p0, p1, p2}) = SpanOf(p0) \cup SpanOf(p1) \cup SpanOf(p2)
    BY DEF Span, SpanOf
  <2> QED
    BY <2>1, <2>2, <2>3, <2>4, <2>5, <2>6 DEF LaidOver
<1>10. LaidOver(LiPieces, 0 .. 0 \cup 9 .. 30)
  <2> DEFINE p0 == <<2, 1, 0>>
             p1 == <<3, 22, 9>>
  <2>1. p0 \in Layout /\ SpanOf(p0) = 0 .. 0
    BY DEF Layout, SpanOf
  <2>2. p1 \in Layout /\ SpanOf(p1) = 9 .. 30
    BY DEF Layout, SpanOf
  <2>3. LiPieces = {p0, p1}
    BY DEF LiPieces
  <2> HIDE DEF p0, p1
  <2> QED
    BY <2>1, <2>2, <2>3, TwoPieces
<1>11. LaidOver(M12Pieces(11), 0 .. 0 \cup 9 .. 19)
  <2> DEFINE p0 == <<0, 1, 0>>
             p1 == <<1, 11, 9>>
  <2>1. p0 \in Layout /\ SpanOf(p0) = 0 .. 0
    BY DEF Layout, SpanOf
  <2>2. p1 \in Layout /\ SpanOf(p1) = 9 .. 19
    BY DEF Layout, SpanOf
  <2>3. M12Pieces(11) = {p0, p1}
    BY DEF M12Pieces
  <2> HIDE DEF p0, p1
  <2> QED
    BY <2>1, <2>2, <2>3, TwoPieces
<1>12. LaidOver(M12Pieces(23), 0 .. 0 \cup 9 .. 31)
  <2> DEFINE p0 == <<0, 1, 0>>
             p1 == <<1, 23, 9>>
  <2>1. p0 \in Layout /\ SpanOf(p0) = 0 .. 0
    BY DEF Layout, SpanOf
  <2>2. p1 \in Layout /\ SpanOf(p1) = 9 .. 31
    BY DEF Layout, SpanOf
  <2>3. M12Pieces(23) = {p0, p1}
    BY DEF M12Pieces
  <2> HIDE DEF p0, p1
  <2> QED
    BY <2>1, <2>2, <2>3, TwoPieces
<1> QED
  BY <1>1, <1>2, <1>3, <1>4, <1>5, <1>6, <1>7, <1>8, <1>9, <1>10, <1>11, <1>12

LEMMA LaidOverSound ==
  ASSUME NEW t, NEW ps, NEW bits, LaidOver(ps, bits), bits \subseteq 0 .. 31, NEW e,
         e \/ bits \subseteq Reach(t)
  PROVE  Sound(t, ps, {}, 0, e)
  BY DEF LaidOver, Sound

LEMMA RegisterCodes ==
  ASSUME NEW v, NEW used
  PROVE  /\ Code("BS", v, used) = InField(v, {<<0, 3, 26>>})
         /\ Code("BRS", v, used) = InField(v, {<<0, 3, 26>>})
         /\ Code("BF", v, used) = InField(v, {<<0, 3, 6>>})
         /\ Code("BR", v, used) = InField(v, {<<0, 3, 6>>})
         /\ Code("FRS", v, used) = InField(v, {<<0, 5, 6>>})
         /\ Code("RS", v, used) = InField(v, {<<0, 5, 6>>})
         /\ Code("RA", v, used) = InField(v, {<<0, 5, 11>>})
         /\ Code("RB", v, used) = InField(v, {<<0, 5, 17>>})
         /\ Code("RC", v, used) = InField(v, {<<0, 5, 22>>})
         /\ Code("CRS", v, used) = InField(v, {<<0, 2, 20>>})
         /\ Code("BT", v, used) = InField(v, FieldPieces["bt"])
         /\ Code("BA", v, used) = InField(v, FieldPieces["ba"])
         /\ Code("BB", v, used) = InField(v, FieldPieces["bb"])
         /\ Code("RL", v, used) = InField(v, FieldPieces["reglist"])
         /\ Code("MOVRD", v, used) = InField(v, FieldPieces["movrd"])
         /\ Code("MOVRS", v, used) = InField(v, FieldPieces["movrs"])
<1> DEFINE Fn(t, k) == powerpc_operands[t].insert = k
           At(t, n, at) == powerpc_operands[t].bits = n /\ powerpc_operands[t].shift = at
<1>1. /\ Fn("BS", "none") /\ At("BS", 3, 26) /\ Fn("BF", "none") /\ At("BF", 3, 6)
      /\ Fn("FRS", "none") /\ At("FRS", 5, 6)
      /\ Fn("CRS", "crs") /\ Fn("BT", "bt") /\ Fn("BA", "ba") /\ Fn("BB", "bb")
  BY EntriesA, OpdFields
<1>2. /\ Fn("BRS", "none") /\ At("BRS", 3, 26) /\ Fn("BR", "none") /\ At("BR", 3, 6)
      /\ Fn("RS", "none") /\ At("RS", 5, 6) /\ Fn("RA", "none") /\ At("RA", 5, 11)
      /\ Fn("RB", "none") /\ At("RB", 5, 17) /\ Fn("RC", "none") /\ At("RC", 5, 22)
      /\ Fn("RL", "reglist")
  BY EntriesB, OpdFields
<1>3. Fn("MOVRD", "movrd") /\ Fn("MOVRS", "movrs")
  BY EntriesC, OpdFields
<1>4. FieldPieces["crs"] = {<<0, 2, 20>>}
  BY DEF FieldPieces
<1>5. ASSUME NEW t, NEW n, NEW at, Fn(t, "none"), At(t, n, at)
      PROVE  Code(t, v, used) = InField(v, {<<0, n, at>>})
  BY <1>5, PieceTables DEF Code, InsertCode
<1>6. ASSUME NEW t, NEW k \in DOMAIN FieldPieces, Fn(t, k)
      PROVE  Code(t, v, used) = InField(v, FieldPieces[k])
  BY <1>6, PieceTables DEF Code, InsertCode
<1> HIDE DEF Fn, At
<1>7. /\ Code("BS", v, used) = InField(v, {<<0, 3, 26>>})
      /\ Code("BRS", v, used) = InField(v, {<<0, 3, 26>>})
      /\ Code("BF", v, used) = InField(v, {<<0, 3, 6>>})
      /\ Code("BR", v, used) = InField(v, {<<0, 3, 6>>})
  BY <1>1, <1>2, <1>5
<1>8. /\ Code("FRS", v, used) = InField(v, {<<0, 5, 6>>})
      /\ Code("RS", v, used) = InField(v, {<<0, 5, 6>>})
      /\ Code("RA", v, used) = InField(v, {<<0, 5, 11>>})
      /\ Code("RB", v, used) = InField(v, {<<0, 5, 17>>})
      /\ Code("RC", v, used) = InField(v, {<<0, 5, 22>>})
  BY <1>1, <1>2, <1>5
<1>9. /\ Code("CRS", v, used) = InField(v, FieldPieces["crs"])
      /\ Code("BT", v, used) = InField(v, FieldPieces["bt"])
      /\ Code("BA", v, used) = InField(v, FieldPieces["ba"])
      /\ Code("BB", v, used) = InField(v, FieldPieces["bb"])
  BY <1>1, <1>6, PieceTables
<1>10. /\ Code("RL", v, used) = InField(v, FieldPieces["reglist"])
       /\ Code("MOVRD", v, used) = InField(v, FieldPieces["movrd"])
       /\ Code("MOVRS", v, used) = InField(v, FieldPieces["movrs"])
  BY <1>2, <1>3, <1>6, PieceTables
<1> QED
  BY <1>4, <1>7, <1>8, <1>9, <1>10

(* Every operand stays within its reach.                                   *)
LEMMA OneFieldPlaced ==
  ASSUME NEW t, NEW v, NEW used, NEW w, NEW n \in Nat, NEW at \in Nat,
         Code(t, v, used) = InField(w, {<<0, n, at>>}),
         at .. at + n - 1 \subseteq 0 .. 31, at .. at + n - 1 \subseteq Reach(t)
  PROVE  WellPlaced(t, Insertion(t, v, used))
<1>1. Sound(t, {<<0, n, at>>}, {}, 0, FALSE)
  BY FieldSound
<1> QED
  BY <1>1, FieldPlaced

LEMMA ManyFieldsPlaced ==
  ASSUME NEW t, NEW v, NEW used, NEW ps, NEW bits,
         Code(t, v, used) = InField(v, ps), LaidOver(ps, bits),
         bits \subseteq 0 .. 31, bits \subseteq Reach(t)
  PROVE  WellPlaced(t, Insertion(t, v, used))
<1>1. Sound(t, ps, {}, 0, FALSE)
  BY LaidOverSound
<1> QED
  BY <1>1, FieldPlaced

LEMMA RegistersPlaced ==
  ASSUME NEW v, NEW used, NEW t \in RegisterTypes
  PROVE  WellPlaced(t, Insertion(t, v, used))
<1>1. CASE t = "BS"
  <2>1. Code(t, v, used) = InField(v, {<<0, 3, 26>>})
    BY <1>1, RegisterCodes
  <2>2. 26 .. 26 + 3 - 1 \subseteq 0 .. 31 /\ 26 .. 26 + 3 - 1 \subseteq Reach(t)
    BY <1>1 DEF Reach
  <2> QED
    BY <2>1, <2>2, OneFieldPlaced
<1>2. CASE t = "BRS"
  <2>1. Code(t, v, used) = InField(v, {<<0, 3, 26>>})
    BY <1>2, RegisterCodes
  <2>2. 26 .. 26 + 3 - 1 \subseteq 0 .. 31 /\ 26 .. 26 + 3 - 1 \subseteq Reach(t)
    BY <1>2 DEF Reach
  <2> QED
    BY <2>1, <2>2, OneFieldPlaced
<1>3. CASE t = "BF"
  <2>1. Code(t, v, used) = InField(v, {<<0, 3, 6>>})
    BY <1>3, RegisterCodes
  <2>2. 6 .. 6 + 3 - 1 \subseteq 0 .. 31 /\ 6 .. 6 + 3 - 1 \subseteq Reach(t)
    BY <1>3 DEF Reach
  <2> QED
    BY <2>1, <2>2, OneFieldPlaced
<1>4. CASE t = "BR"
  <2>1. Code(t, v, used) = InField(v, {<<0, 3, 6>>})
    BY <1>4, RegisterCodes
  <2>2. 6 .. 6 + 3 - 1 \subseteq 0 .. 31 /\ 6 .. 6 + 3 - 1 \subseteq Reach(t)
    BY <1>4 DEF Reach
  <2> QED
    BY <2>1, <2>2, OneFieldPlaced
<1>5. CASE t = "FRS"
  <2>1. Code(t, v, used) = InField(v, {<<0, 5, 6>>})
    BY <1>5, RegisterCodes
  <2>2. 6 .. 6 + 5 - 1 \subseteq 0 .. 31 /\ 6 .. 6 + 5 - 1 \subseteq Reach(t)
    BY <1>5 DEF Reach
  <2> QED
    BY <2>1, <2>2, OneFieldPlaced
<1>6. CASE t = "RS"
  <2>1. Code(t, v, used) = InField(v, {<<0, 5, 6>>})
    BY <1>6, RegisterCodes
  <2>2. 6 .. 6 + 5 - 1 \subseteq 0 .. 31 /\ 6 .. 6 + 5 - 1 \subseteq Reach(t)
    BY <1>6 DEF Reach
  <2> QED
    BY <2>1, <2>2, OneFieldPlaced
<1>7. CASE t = "RA"
  <2>1. Code(t, v, used) = InField(v, {<<0, 5, 11>>})
    BY <1>7, RegisterCodes
  <2>2. 11 .. 11 + 5 - 1 \subseteq 0 .. 31 /\ 11 .. 11 + 5 - 1 \subseteq Reach(t)
    BY <1>7 DEF Reach
  <2> QED
    BY <2>1, <2>2, OneFieldPlaced
<1>8. CASE t = "RB"
  <2>1. Code(t, v, used) = InField(v, {<<0, 5, 17>>})
    BY <1>8, RegisterCodes
  <2>2. 17 .. 17 + 5 - 1 \subseteq 0 .. 31 /\ 17 .. 17 + 5 - 1 \subseteq Reach(t)
    BY <1>8 DEF Reach
  <2> QED
    BY <2>1, <2>2, OneFieldPlaced
<1>9. CASE t = "RC"
  <2>1. Code(t, v, used) = InField(v, {<<0, 5, 22>>})
    BY <1>9, RegisterCodes
  <2>2. 22 .. 22 + 5 - 1 \subseteq 0 .. 31 /\ 22 .. 22 + 5 - 1 \subseteq Reach(t)
    BY <1>9 DEF Reach
  <2> QED
    BY <2>1, <2>2, OneFieldPlaced
<1>10. CASE t = "CRS"
  <2>1. Code(t, v, used) = InField(v, {<<0, 2, 20>>})
    BY <1>10, RegisterCodes
  <2>2. 20 .. 20 + 2 - 1 \subseteq 0 .. 31 /\ 20 .. 20 + 2 - 1 \subseteq Reach(t)
    BY <1>10 DEF Reach
  <2> QED
    BY <2>1, <2>2, OneFieldPlaced
<1>11. CASE t = "BT"
  <2>1. Code(t, v, used) = InField(v, FieldPieces["bt"])
    BY <1>11, RegisterCodes
  <2>2. 9 .. 11 \cup 6 .. 8 \subseteq 0 .. 31 /\ 9 .. 11 \cup 6 .. 8 \subseteq Reach(t)
    BY <1>11 DEF Reach
  <2> QED
    BY <2>1, <2>2, ManyPieces, ManyFieldsPlaced
<1>12. CASE t = "BA"
  <2>1. Code(t, v, used) = InField(v, FieldPieces["ba"])
    BY <1>12, RegisterCodes
  <2>2. 15 .. 17 \cup 12 .. 14 \subseteq 0 .. 31 /\ 15 .. 17 \cup 12 .. 14 \subseteq Reach(t)
    BY <1>12 DEF Reach
  <2> QED
    BY <2>1, <2>2, ManyPieces, ManyFieldsPlaced
<1>13. CASE t = "BB"
  <2>1. Code(t, v, used) = InField(v, FieldPieces["bb"])
    BY <1>13, RegisterCodes
  <2>2. 21 .. 23 \cup 18 .. 20 \subseteq 0 .. 31 /\ 21 .. 23 \cup 18 .. 20 \subseteq Reach(t)
    BY <1>13 DEF Reach
  <2> QED
    BY <2>1, <2>2, ManyPieces, ManyFieldsPlaced
<1>14. CASE t = "RL"
  <2>1. Code(t, v, used) = InField(v, FieldPieces["reglist"])
    BY <1>14, RegisterCodes
  <2>2. 6 .. 13 \cup 17 .. 25 \cup 14 .. 15 \cup 27 .. 28 \subseteq 0 .. 31 /\ 6 .. 13 \cup 17 .. 25 \cup 14 .. 15 \cup 27 .. 28 \subseteq Reach(t)
    BY <1>14 DEF Reach
  <2> QED
    BY <2>1, <2>2, ManyPieces, ManyFieldsPlaced
<1>15. CASE t = "MOVRD"
  <2>1. Code(t, v, used) = InField(v, FieldPieces["movrd"])
    BY <1>15, RegisterCodes
  <2>2. 6 .. 10 \cup 17 .. 18 \subseteq 0 .. 31 /\ 6 .. 10 \cup 17 .. 18 \subseteq Reach(t)
    BY <1>15 DEF Reach
  <2> QED
    BY <2>1, <2>2, ManyPieces, ManyFieldsPlaced
<1>16. CASE t = "MOVRS"
  <2>1. Code(t, v, used) = InField(v, FieldPieces["movrs"])
    BY <1>16, RegisterCodes
  <2>2. 11 .. 15 \cup 19 .. 20 \subseteq 0 .. 31 /\ 11 .. 15 \cup 19 .. 20 \subseteq Reach(t)
    BY <1>16 DEF Reach
  <2> QED
    BY <2>1, <2>2, ManyPieces, ManyFieldsPlaced
<1> QED
  BY <1>1, <1>2, <1>3, <1>4, <1>5, <1>6, <1>7, <1>8, <1>9, <1>10, <1>11, <1>12, <1>13, <1>14, <1>15, <1>16 DEF RegisterTypes

LEMMA LineTypesPlaced ==
  ASSUME NEW v, NEW used, NEW t \in PoolTypes,
         NEW at \in {10, 12, 18, 24}, at .. at + 3 \subseteq Reach(t), {29, 30} \subseteq Reach(t),
         \/ \E n \in {1, 2} : Code(t, v, used) = OnLine(n, Total(used), at)
         \/ \E w, ps : Code(t, v, used) = InField(w, ps) /\ Sound(t, ps, {}, 0, FALSE)
         \/ Code(t, v, used) = [InField(v, {}) EXCEPT !.whole = TRUE]
  PROVE  WellPlaced(t, Insertion(t, v, used))
<1>1. CASE \E n \in {1, 2} : Code(t, v, used) = OnLine(n, Total(used), at)
  BY <1>1, LinePlaced
<1>2. CASE \E w, ps : Code(t, v, used) = InField(w, ps) /\ Sound(t, ps, {}, 0, FALSE)
  BY <1>2, FieldPlaced
<1>3. CASE Code(t, v, used) = [InField(v, {}) EXCEPT !.whole = TRUE]
  <2> DEFINE ps == {}
             n == 0
             e == FALSE
             w == TRUE
  <2>1. Code(t, v, used) = Result(v, ps, ps, v, n, e, w) /\ e \in BOOLEAN
    BY <1>3, FieldGivenUp
  <2>2. Sound(t, ps, ps, n, e)
    BY DEF Sound, Apart, Span
  <2> HIDE DEF ps, n, e, w
  <2> QED
    BY <2>1, <2>2, PlacedByCode
<1> QED
  BY <1>1, <1>2, <1>3

LEMMA NumbersPlaced ==
  ASSUME NEW v, NEW used, NEW t \in NumberTypes
  PROVE  WellPlaced(t, Insertion(t, v, used))
<1>1. CASE t = "SI"
  <2>1. t \in PoolTypes /\ 18 .. 18 + 3 \subseteq Reach(t) /\ {29, 30} \subseteq Reach(t)
    BY <1>1 DEF PoolTypes, Reach
  <2>2. 17 .. 17 + 14 - 1 \subseteq 0 .. 31 /\ 17 .. 17 + 14 - 1 \subseteq Reach(t)
    BY <1>1 DEF Reach
  <2>3. Sound(t, {<<0, 14, 17>>}, {}, 0, FALSE)
    BY <2>2, FieldSound
  <2>4. \/ \E n \in {1, 2} : Code(t, v, used) = OnLine(n, Total(used), 18)
        \/ \E w : Code(t, v, used) = InField(w, {<<0, 14, 17>>})
    BY <1>1, CodesB DEF InsertSi
  <2> QED
    BY <2>1, <2>3, <2>4, LineTypesPlaced
<1>2. CASE t = "NSI"
  <2>1. t \in PoolTypes /\ 18 .. 18 + 3 \subseteq Reach(t) /\ {29, 30} \subseteq Reach(t)
    BY <1>2 DEF PoolTypes, Reach
  <2>2. 17 .. 17 + 14 - 1 \subseteq 0 .. 31 /\ 17 .. 17 + 14 - 1 \subseteq Reach(t)
    BY <1>2 DEF Reach
  <2>3. Sound(t, {<<0, 14, 17>>}, {}, 0, FALSE)
    BY <2>2, FieldSound
  <2>4. \/ \E n \in {1, 2} : Code(t, v, used) = OnLine(n, Total(used), 18)
        \/ \E w : Code(t, v, used) = InField(w, {<<0, 14, 17>>})
    BY <1>2, CodesB DEF InsertNsi, InsertSi
  <2> QED
    BY <2>1, <2>3, <2>4, LineTypesPlaced
<1>3. CASE t = "D"
  <2>1. t \in PoolTypes /\ 18 .. 18 + 3 \subseteq Reach(t) /\ {29, 30} \subseteq Reach(t)
    BY <1>3 DEF PoolTypes, Reach
  <2>2. 17 .. 17 + 14 - 1 \subseteq 0 .. 31 /\ 17 .. 17 + 14 - 1 \subseteq Reach(t)
    BY <1>3 DEF Reach
  <2>3. Sound(t, {<<0, 14, 17>>}, {}, 0, FALSE)
    BY <2>2, FieldSound
  <2>4. \/ \E n \in {1, 2} : Code(t, v, used) = OnLine(n, Total(used), 18)
        \/ \E w : Code(t, v, used) = InField(w, {<<0, 14, 17>>})
    BY <1>3, CodesA DEF InsertDsi
  <2> QED
    BY <2>1, <2>3, <2>4, LineTypesPlaced
<1>4. CASE t = "SCNDX"
  <2>1. t \in PoolTypes /\ 24 .. 24 + 3 \subseteq Reach(t) /\ {29, 30} \subseteq Reach(t)
    BY <1>4 DEF PoolTypes, Reach
  <2>2. 24 .. 24 + 5 - 1 \subseteq 0 .. 31 /\ 24 .. 24 + 5 - 1 \subseteq Reach(t)
    BY <1>4 DEF Reach
  <2>3. Sound(t, {<<0, 5, 24>>}, {}, 0, FALSE)
    BY <2>2, FieldSound
  <2>4. \/ \E n \in {1, 2} : Code(t, v, used) = OnLine(n, Total(used), 24)
        \/ \E w : Code(t, v, used) = InField(w, {<<0, 5, 24>>})
    BY <1>4, CodesC DEF InsertScndx
  <2> QED
    BY <2>1, <2>3, <2>4, LineTypesPlaced
<1>5. CASE t = "BD"
  <2>1. t \in PoolTypes /\ 10 .. 10 + 3 \subseteq Reach(t) /\ {29, 30} \subseteq Reach(t)
    BY <1>5 DEF PoolTypes, Reach
  <2>2. 0 .. 0 \cup 6 .. 13 \cup 29 .. 31 \subseteq 0 .. 31 /\ 0 .. 0 \cup 6 .. 13 \cup 29 .. 31 \subseteq Reach(t)
    BY <1>5 DEF Reach
  <2>3. Sound(t, BdPieces, {}, 0, FALSE)
    BY <2>2, ManyPieces, LaidOverSound
  <2>4. \/ \E n \in {1, 2} : Code(t, v, used) = OnLine(n, Total(used), 10)
        \/ Code(t, v, used) = InField(v, BdPieces)
    BY <1>5, CodesA DEF InsertBd
  <2> QED
    BY <2>1, <2>3, <2>4, LineTypesPlaced
<1>6. CASE t = "UI"
  <2>1. t \in PoolTypes /\ 18 .. 18 + 3 \subseteq Reach(t) /\ {29, 30} \subseteq Reach(t)
    BY <1>6 DEF PoolTypes, Reach
  <2>2. \/ \E n \in {1, 2} : Code(t, v, used) = OnLine(n, Total(used), 18)
        \/ Code(t, v, used) = [InField(v, {}) EXCEPT !.whole = TRUE]
    BY <1>6, CodesB DEF InsertUi
  <2> QED
    BY <2>1, <2>2, LineTypesPlaced
<1>7. CASE t = "UI9"
  <2>1. t \in PoolTypes /\ 18 .. 18 + 3 \subseteq Reach(t) /\ {29, 30} \subseteq Reach(t)
    BY <1>7 DEF PoolTypes, Reach
  <2>2. \/ \E n \in {1, 2} : Code(t, v, used) = OnLine(n, Total(used), 18)
        \/ Code(t, v, used) = [InField(v, {}) EXCEPT !.whole = TRUE]
    BY <1>7, CodesB DEF InsertUi
  <2> QED
    BY <2>1, <2>2, LineTypesPlaced
<1>8. CASE t = "EXFMT"
  <2>1. t \in PoolTypes /\ 18 .. 18 + 3 \subseteq Reach(t) /\ {29, 30} \subseteq Reach(t)
    BY <1>8 DEF PoolTypes, Reach
  <2>2. \/ \E n \in {1, 2} : Code(t, v, used) = OnLine(n, Total(used), 18)
        \/ Code(t, v, used) = [InField(v, {}) EXCEPT !.whole = TRUE]
    BY <1>8, CodesB DEF InsertUi
  <2> QED
    BY <2>1, <2>2, LineTypesPlaced
<1>9. CASE t = "CSRUI"
  <2>1. t \in PoolTypes /\ 12 .. 12 + 3 \subseteq Reach(t) /\ {29, 30} \subseteq Reach(t)
    BY <1>9 DEF PoolTypes, Reach
  <2>2. \/ \E n \in {1, 2} : Code(t, v, used) = OnLine(n, Total(used), 12)
    BY <1>9, CodesA DEF InsertCsrui
  <2> QED
    BY <2>1, <2>2, LineTypesPlaced
<1>10. CASE t = "BLR"
  <2>1. t \in PoolTypes /\ 10 .. 10 + 3 \subseteq Reach(t) /\ {29, 30} \subseteq Reach(t)
    BY <1>10 DEF PoolTypes, Reach
  <2>2. \/ \E n \in {1, 2} : Code(t, v, used) = OnLine(n, Total(used), 10)
    BY <1>10, CodesB DEF InsertBlr
  <2> QED
    BY <2>1, <2>2, LineTypesPlaced
<1>11. CASE t = "SH6"
  <2>1. Code(t, v, used) = InField(v, {<<0, 6, 17>>})
    BY <1>11, CodesB DEF InsertSh6
  <2>2. 17 .. 17 + 6 - 1 \subseteq 0 .. 31 /\ 17 .. 17 + 6 - 1 \subseteq Reach(t)
    BY <1>11 DEF Reach
  <2> QED
    BY <2>1, <2>2, OneFieldPlaced
<1>12. CASE t = "LMT"
  <2>1. Code(t, v, used) = InField(v, {<<0, 9, 17>>})
    BY <1>12, CodesB
  <2>2. 17 .. 17 + 9 - 1 \subseteq 0 .. 31 /\ 17 .. 17 + 9 - 1 \subseteq Reach(t)
    BY <1>12 DEF Reach
  <2> QED
    BY <2>1, <2>2, OneFieldPlaced
<1>13. CASE t = "CSRNO"
  <2>1. Code(t, v, used) = InField(v, {<<0, 12, 17>>})
    BY <1>13, CodesA
  <2>2. 17 .. 17 + 12 - 1 \subseteq 0 .. 31 /\ 17 .. 17 + 12 - 1 \subseteq Reach(t)
    BY <1>13 DEF Reach
  <2> QED
    BY <2>1, <2>2, OneFieldPlaced
<1>14. CASE t = "MPV"
  <2>1. Code(t, v, used) = InField(v, {<<0, 3, 23>>})
    BY <1>14, CodesC
  <2>2. 23 .. 23 + 3 - 1 \subseteq 0 .. 31 /\ 23 .. 23 + 3 - 1 \subseteq Reach(t)
    BY <1>14 DEF Reach
  <2> QED
    BY <2>1, <2>2, OneFieldPlaced
<1>15. CASE t = "MD"
  <2>1. Code(t, v, used) = InField(v, {<<0, 4, 20>>})
    BY <1>15, CodesC
  <2>2. 20 .. 20 + 4 - 1 \subseteq 0 .. 31 /\ 20 .. 20 + 4 - 1 \subseteq Reach(t)
    BY <1>15 DEF Reach
  <2> QED
    BY <2>1, <2>2, OneFieldPlaced
<1>16. CASE t = "MVRD"
  <2> DEFINE e == AboveMv(v)
  <2>1. Code(t, v, used) = [InField(v, MvPieces["mvrd"]) EXCEPT !.error = e]
    BY <1>16, CodesC
  <2>2. 6 .. 10 \cup 17 .. 18 \subseteq 0 .. 31 /\ 6 .. 10 \cup 17 .. 18 \subseteq Reach(t)
    BY <1>16 DEF Reach
  <2>3. e \in BOOLEAN
    BY DEF AboveMv, FitsUnsigned
  <2> HIDE DEF e
  <2>4. Sound(t, MvPieces["mvrd"], {}, 0, e)
    BY <2>2, ManyPieces, LaidOverSound
  <2> QED
    BY <2>1, <2>3, <2>4, CheckedPlaced
<1>17. CASE t = "MVRS"
  <2> DEFINE e == AboveMv(v)
  <2>1. Code(t, v, used) = [InField(v, MvPieces["mvrs"]) EXCEPT !.error = e]
    BY <1>17, CodesC
  <2>2. 11 .. 15 \cup 19 .. 20 \subseteq 0 .. 31 /\ 11 .. 15 \cup 19 .. 20 \subseteq Reach(t)
    BY <1>17 DEF Reach
  <2>3. e \in BOOLEAN
    BY DEF AboveMv, FitsUnsigned
  <2> HIDE DEF e
  <2>4. Sound(t, MvPieces["mvrs"], {}, 0, e)
    BY <2>2, ManyPieces, LaidOverSound
  <2> QED
    BY <2>1, <2>3, <2>4, CheckedPlaced
<1>18. CASE t = "M12"
  <2>1. CASE FitsUnsigned(v, 12)
    <3>1. Code(t, v, used) = InField(v, M12Pieces(11))
      BY <1>18, <2>1, CodesC DEF InsertM12
    <3>2. 0 .. 0 \cup 9 .. 19 \subseteq 0 .. 31 /\ 0 .. 0 \cup 9 .. 19 \subseteq Reach(t)
      BY <1>18 DEF Reach
    <3> QED
      BY <3>1, <3>2, ManyPieces, ManyFieldsPlaced
  <2>2. CASE ~FitsUnsigned(v, 12)
    <3>1. Code(t, v, used) = [InField(v, M12Pieces(23)) EXCEPT !.error = TRUE]
      BY <1>18, <2>2, CodesC DEF InsertM12
    <3>2. 0 .. 0 \cup 9 .. 31 \subseteq 0 .. 31
      OBVIOUS
    <3>3. Sound(t, M12Pieces(23), {}, 0, TRUE)
      BY <3>2, ManyPieces, LaidOverSound
    <3> QED
      BY <3>1, <3>3, CheckedPlaced
  <2> QED
    BY <2>1, <2>2
<1>19. CASE t = "LI"
  <2>1. Code(t, v, used) = InsertLi(v, Total(used))
    BY <1>19, CodesA
  <2>2. CASE ~FitsSigned(v, 25)
    <3>1. Code(t, v, used) = [InField(v, {}) EXCEPT !.error = TRUE]
      BY <2>1, <2>2 DEF InsertLi
    <3>2. Sound(t, {}, {}, 0, TRUE)
      BY DEF Sound, Apart, Span
    <3> QED
      BY <3>1, <3>2, CheckedPlaced
  <2>3. CASE FitsSigned(v, 25)
    <3> DEFINE e == v \cap {0, 1} # {}
    <3>1. Code(t, v, used) = [InField(v, LiPieces) EXCEPT !.error = e]
      BY <2>1, <2>3 DEF InsertLi
    <3>2. 0 .. 0 \cup 9 .. 30 \subseteq 0 .. 31 /\ 0 .. 0 \cup 9 .. 30 \subseteq Reach(t)
      BY <1>19 DEF Reach
    <3>3. e \in BOOLEAN
      OBVIOUS
    <3> HIDE DEF e
    <3>4. Sound(t, LiPieces, {}, 0, e)
      BY <3>2, ManyPieces, LaidOverSound
    <3> QED
      BY <3>1, <3>3, <3>4, CheckedPlaced
  <2> QED
    BY <2>2, <2>3
<1>20. CASE t = "DX"
  <2> DEFINE e == v # {}
             ps == {}
             fl == {31}
             n == 0
             w == FALSE
  <2>1. [Inserted(v, {}, {31}, v, 0) EXCEPT !.error = e] = Result(v, {}, {31}, v, 0, e, FALSE)
    <3>1. \A f, x : [Result(v, {}, {31}, v, 0, f, f) EXCEPT !.error = x]
                      = Result(v, {}, {31}, v, 0, x, f)
      BY ResultFields
    <3>2. Inserted(v, {}, {31}, v, 0) = Result(v, {}, {31}, v, 0, FALSE, FALSE)
      BY InsertedResult
    <3> QED
      BY <3>1, <3>2
  <2>2. Code(t, v, used) = Result(v, ps, fl, v, n, e, w)
    BY <1>20, <2>1, CodesA DEF InsertXsi
  <2>3. e \in BOOLEAN
    OBVIOUS
  <2>4. Sound(t, ps, fl, n, e)
    BY <1>20 DEF Sound, Apart, Span, Reach
  <2> HIDE DEF e, ps, fl, n, w
  <2> QED
    BY <2>2, <2>3, <2>4, PlacedByCode
<1>21. CASE t = "DBRS"
  <2>1. t \in PoolTypes /\ 10 .. 10 + 3 \subseteq Reach(t) /\ {29, 30} \subseteq Reach(t)
    BY <1>21 DEF PoolTypes, Reach
  <2>2. CASE FitsSigned(v, 32)
    <3> DEFINE place == BitsOf(Len(used) % 16)
               ps == {<<0, 4, 10>>}
               n == 1
               fl == {28 + n}
               e == FALSE
    <3>1. 28 + 1 = 29
      OBVIOUS
    <3>2. Code(t, v, used) = Inserted(place, ps, fl, {}, n)
      BY <1>21, <2>2, <3>1, CodesC DEF InsertDbrs
    <3>3. n \in {1, 2} /\ e \in BOOLEAN
      OBVIOUS
    <3> HIDE DEF n
    <3>4. Sound(t, ps, fl, n, e)
      BY <2>1, <3>3, LineSound
    <3> HIDE DEF place, ps, fl
    <3>5. Code(t, v, used) = Result(place, ps, fl, {}, n, FALSE, FALSE)
      BY <3>2, InsertedResult
    <3> QED
      BY <3>4, <3>5, PlacedByCode
  <2>3. CASE ~FitsSigned(v, 32)
    <3>1. \E n \in {1, 2} : Code(t, v, used) = OnLine(n, Total(used), 10)
      BY <1>21, <2>3, CodesC DEF InsertDbrs
    <3> QED
      BY <2>1, <3>1, LineTypesPlaced
  <2> QED
    BY <2>2, <2>3
<1> QED
  BY <1>1, <1>2, <1>3, <1>4, <1>5, <1>6, <1>7, <1>8, <1>9, <1>10, <1>11, <1>12, <1>13, <1>14, <1>15, <1>16, <1>17, <1>18, <1>19, <1>20, <1>21 DEF NumberTypes

LEMMA OperandsPlaced ==
  ASSUME NEW v, NEW used, NEW t \in OperandTypes
  PROVE  WellPlaced(t, Insertion(t, v, used))
  BY RegistersPlaced, NumbersPlaced, AllTypes

-----------------------------------------------------------------------------
(* No row has three operands that may bring a constant.                    *)
FewPools(r) ==
  \A j, k, l \in 1 .. Len(r) : j < k /\ k < l => ~({r[j], r[k], r[l]} \subseteq PoolTypes)

LEMMA ShortRowsArePoor ==
  /\ FewPools(<<>>)
  /\ \A a : FewPools(<<a>>)
  /\ \A a, b : FewPools(<<a, b>>)
  /\ \A a, b, c : a \notin PoolTypes => FewPools(<<a, b, c>>)
  /\ \A a, b, c, d : {a, b} \cap PoolTypes = {} => FewPools(<<a, b, c, d>>)
<1>1. FewPools(<<>>) /\ \A a : FewPools(<<a>>)
  BY DEF FewPools
<1>2. \A a, b : FewPools(<<a, b>>)
  BY DEF FewPools
<1>3. \A a, b, c : a \notin PoolTypes => FewPools(<<a, b, c>>)
  BY DEF FewPools
<1>4. \A a, b, c, d : {a, b} \cap PoolTypes = {} => FewPools(<<a, b, c, d>>)
  BY DEF FewPools
<1> QED
  BY <1>1, <1>2, <1>3, <1>4

LEMMA RowsArePoor == \A r \in Rows : FewPools(r)
<1>1. {"RS", "RA", "RB", "CRS", "BF", "BT", "MOVRD", "MVRD"} \cap PoolTypes = {}
  BY DEF PoolTypes
<1> HIDE DEF PoolTypes
<1>2. \A r \in RowsA : FewPools(r)
  BY <1>1, ShortRowsArePoor DEF RowsA
<1>3. \A r \in RowsB : FewPools(r)
  BY <1>1, ShortRowsArePoor DEF RowsB
<1> QED
  BY <1>2, <1>3 DEF Rows

LEMMA PutInSpan == \A v, pieces : Put(v, pieces) \subseteq Span(pieces)
  BY DEF Put, PutPiece, Span

LEMMA BitsInWord ==
  ASSUME NEW t \in OperandTypes, NEW v, NEW used
  PROVE  Bits(Insertion(t, v, used)) \subseteq 0 .. 31
<1> DEFINE r == Insertion(t, v, used)
<1>1. WellPlaced(t, r)
  BY OperandsPlaced
<1> HIDE DEF r
<1>2. Bits(r) \subseteq 0 .. 31
  BY <1>1, PutInSpan DEF WellPlaced, Sound, Bits
<1> QED
  BY <1>2 DEF r

(* The bytes of a data item.                                               *)
LEMMA BytesLaidOut ==
  ASSUME NEW n \in {8, 16, 32, 64}, NEW big \in BOOLEAN
  PROVE  /\ setval(big, n) \subseteq Layout
         /\ Apart(setval(big, n))
         /\ Span(setval(big, n)) \subseteq 0 .. 63
<1> DEFINE last == (n \div 8) - 1
           Byte(k) == <<8 * k, 8, IF big THEN n - 8 * (k + 1) ELSE 8 * k>>
<1>1. last \in Nat /\ 8 * (last + 1) = n /\ n <= 64
  OBVIOUS
<1>2. setval(big, n) = {Byte(k) : k \in 0 .. last}
  BY DEF setval
<1> HIDE DEF last
<1>3. ASSUME NEW k \in 0 .. last
      PROVE  Byte(k) \in Layout /\ SpanOf(Byte(k)) \subseteq 0 .. 63
  BY <1>1 DEF Layout, SpanOf
<1>4. ASSUME NEW j \in 0 .. last, NEW k \in 0 .. last, j < k
      PROVE  SpanOf(Byte(j)) \cap SpanOf(Byte(k)) = {}
  BY <1>1, <1>4 DEF SpanOf
<1> HIDE DEF Byte
<1>5. ASSUME NEW j \in 0 .. last, NEW k \in 0 .. last, Byte(j) # Byte(k)
      PROVE  SpanOf(Byte(j)) \cap SpanOf(Byte(k)) = {}
  <2>1. j < k \/ k < j
    BY <1>1, <1>5
  <2> QED
    BY <2>1, <1>4
<1> QED
  BY <1>2, <1>3, <1>5 DEF Apart, Span, SpanOf

LEMMA DataPieces ==
  ASSUME IsData, i = 1, NEW form
  PROVE  LET at == StarkDataPieces(form, BigEndian, RelocBits[row[1]])
         IN  at \subseteq Layout /\ Apart(at) /\ Span(at) \subseteq 0 .. 63
<1>1. PICK d \in Directives : row = <<ppc_data_operand(d)>>
  BY DEF IsData, data_items
<1>2. ppc_data_operand(d) \in {"D8", "D16", "D32", "D64", "F32", "F64"}
  <2>1. d.bits \in {8, 16, 32, 64}
    BY DEF Directives
  <2>2. CASE d.float
    BY <2>2 DEF ppc_data_operand
  <2>3. CASE ~d.float
    <3>1. CASE d.bits = 8
      BY <2>3, <3>1 DEF ppc_data_operand
    <3>2. CASE d.bits = 16
      BY <2>3, <3>2 DEF ppc_data_operand
    <3>3. CASE d.bits = 32
      BY <2>3, <3>3 DEF ppc_data_operand
    <3>4. CASE d.bits = 64
      BY <2>3, <3>4 DEF ppc_data_operand
    <3> QED
      BY <2>1, <3>1, <3>2, <3>3, <3>4
  <2> QED
    BY <2>2, <2>3
<1>3. RelocBits[row[1]] \in {8, 16, 32, 64}
  BY <1>1, <1>2 DEF RelocBits
<1>4. PICK big \in BOOLEAN : StarkDataPieces(form, BigEndian, RelocBits[row[1]])
                               = setval(big, RelocBits[row[1]])
  BY OptBranchAssumption, BigEndianAssumption DEF StarkDataPieces
<1> QED
  BY <1>3, <1>4, BytesLaidOut

-----------------------------------------------------------------------------
(* TypeOK.  Behind the evaluated operands: each constant has an operand    *)
(* that brought it.                                                        *)
TypeInv ==
  /\ row \in Rows \cup data_items
  /\ i \in 1 .. Len(row) + 1
  /\ word \subseteq 0 .. (IF IsData THEN 63 ELSE 31)
  /\ pool \in Seq(1 .. 2) /\ Len(pool) <= 2
  /\ Len(pool) >= 1 => \E k \in 1 .. i - 1 : row[k] \in PoolTypes
  /\ Len(pool) >= 2 => \E j, k \in 1 .. i - 1 : j < k /\ row[j] \in PoolTypes /\ row[k] \in PoolTypes
  /\ clr \in 0 .. i - 1
  /\ isize \in 1 .. 2
  /\ errors \subseteq 1 .. i - 1

LEMMA RowsAreFinite ==
  ASSUME row \in Rows \cup data_items
  PROVE  Len(row) \in Nat
<1>1. CASE row \in Rows
  BY <1>1, RowsAreTyped
<1>2. CASE row \in data_items
  BY <1>2 DEF data_items
<1> QED
  BY <1>1, <1>2

LEMMA TypeInvIsEnough == TypeInv => TypeOK
<1> SUFFICES ASSUME TypeInv
             PROVE  TypeOK
  OBVIOUS
<1>1. Len(row) \in Nat
  BY RowsAreFinite DEF TypeInv
<1>2. pool \in {<<>>} \cup [{1} -> 1 .. 2] \cup [{1, 2} -> 1 .. 2]
  <2>0. pool \in Seq(1 .. 2) /\ Len(pool) <= 2
    BY DEF TypeInv
  <2>1. pool \in [1 .. Len(pool) -> 1 .. 2] /\ Len(pool) \in 0 .. 2
    <3>1. Len(pool) \in Nat
      BY <2>0
    <3>2. pool \in [1 .. Len(pool) -> 1 .. 2]
      BY <2>0
    <3> QED
      BY <2>0, <3>1, <3>2
  <2>2. CASE Len(pool) = 0
    BY <2>0, <2>2
  <2>3. CASE Len(pool) = 1
    <3>1. 1 .. 1 = {1}
      OBVIOUS
    <3> QED
      BY <2>1, <2>3, <3>1
  <2>4. CASE Len(pool) = 2
    <3>1. 1 .. 2 = {1, 2}
      OBVIOUS
    <3> QED
      BY <2>1, <2>4, <3>1
  <2> QED
    BY <2>1, <2>2, <2>3, <2>4
<1>3. i - 1 \in 0 .. Len(row) /\ \A x : x \in 0 .. i - 1 => x \in 0 .. Len(row)
  BY <1>1 DEF TypeInv
<1> QED
  BY <1>1, <1>2, <1>3 DEF TypeInv, TypeOK

LEMMA TypeInit == Init => TypeInv
<1> SUFFICES ASSUME Init
             PROVE  TypeInv
  OBVIOUS
<1>1. row \in Rows \cup data_items
  BY DEF Init
<1>2. Len(row) \in Nat
  BY <1>1, RowsAreFinite
<1> QED
  BY <1>1, <1>2 DEF Init, TypeInv

(* What a step of an instruction does to the variables.                    *)
TypeStep(t) ==
  /\ row' = row /\ i' = i + 1
  /\ word' \subseteq 0 .. 31
  /\ pool' = pool \/ (t \in PoolTypes /\ \E n \in 1 .. 2 : pool' = Append(pool, n))
  /\ clr' \in {clr, clr + 1}
  /\ isize' \in {isize, 2}
  /\ errors' \subseteq errors \cup {i}

LEMMA TypeStepKeeps ==
  ASSUME TypeInv, ~IsData, i <= Len(row), TypeStep(row[i])
  PROVE  TypeInv'
<1>1. row \in Rows /\ Len(row) \in Nat /\ i \in 1 .. Len(row)
  BY RowsAreFinite DEF TypeInv, IsData
<1>2. row' = row /\ i' = i + 1 /\ i' \in 1 .. Len(row) + 1 /\ i' - 1 = i
  BY <1>1 DEF TypeStep
<1>3. /\ pool' \in Seq(1 .. 2) /\ Len(pool') <= 2
      /\ Len(pool') >= 1 => \E k \in 1 .. i : row[k] \in PoolTypes
      /\ Len(pool') >= 2 => \E j, k \in 1 .. i : j < k /\ row[j] \in PoolTypes /\ row[k] \in PoolTypes
  <2>1. CASE pool' = pool
    BY <1>1, <2>1 DEF TypeInv
  <2>2. ASSUME row[i] \in PoolTypes, NEW n \in 1 .. 2, pool' = Append(pool, n)
        PROVE  <1>3!:
    <3>1. pool' \in Seq(1 .. 2) /\ Len(pool') = Len(pool) + 1
      BY <2>2 DEF TypeInv
    <3>2. Len(pool) # 2
      <4> SUFFICES ASSUME Len(pool) = 2
                   PROVE  FALSE
        OBVIOUS
      <4>1. PICK j, k \in 1 .. i - 1 : j < k /\ row[j] \in PoolTypes /\ row[k] \in PoolTypes
        BY DEF TypeInv
      <4>2. j \in 1 .. Len(row) /\ k \in 1 .. Len(row) /\ k < i
        BY <1>1
      <4> QED
        BY <1>1, <2>2, <4>1, <4>2, RowsArePoor DEF FewPools
    <3>3. Len(pool) \in Nat /\ Len(pool') <= 2
      <4>1. pool \in Seq(1 .. 2) /\ Len(pool) <= 2
        BY DEF TypeInv
      <4>2. Len(pool) \in Nat
        BY <4>1
      <4> DEFINE m == Len(pool)
      <4>3. m \in Nat /\ m <= 2 /\ m # 2
        BY <3>2, <4>1, <4>2
      <4>4. Len(pool') = m + 1
        BY <3>1
      <4> HIDE DEF m
      <4>5. m + 1 <= 2
        BY <4>3
      <4>6. Len(pool') <= 2
        BY <4>4, <4>5
      <4> QED
        BY <4>2, <4>6
    <3>4. i \in 1 .. i
      BY <1>1
    <3>5. ASSUME Len(pool') >= 2
          PROVE  \E j, k \in 1 .. i : j < k /\ row[j] \in PoolTypes /\ row[k] \in PoolTypes
      <4>1. PICK j \in 1 .. i - 1 : row[j] \in PoolTypes
        BY <3>1, <3>3, <3>5 DEF TypeInv
      <4>2. j \in 1 .. i /\ j < i
        BY <1>1
      <4> QED
        BY <2>2, <3>4, <4>1, <4>2
    <3> QED
      BY <2>2, <3>1, <3>3, <3>4, <3>5
  <2> QED
    BY <2>1, <2>2 DEF TypeStep
<1>4. clr' \in 0 .. i /\ isize' \in 1 .. 2 /\ errors' \subseteq 1 .. i
  BY <1>1 DEF TypeStep, TypeInv
<1>5. ~IsData' /\ word' \subseteq 0 .. 31
  BY <1>2 DEF IsData, TypeStep, data_items
<1> QED
  BY <1>1, <1>2, <1>3, <1>4, <1>5 DEF TypeInv

LEMMA PoolGrows ==
  ASSUME pool \in Seq(1 .. 2), NEW t \in OperandTypes, NEW v, NEW used,
         pool' = pool \o SizeOf(Insertion(t, v, used))
  PROVE  pool' = pool \/ (t \in PoolTypes /\ \E n \in 1 .. 2 : pool' = Append(pool, n))
<1> DEFINE r == Insertion(t, v, used)
<1>1. r.size \in 0 .. 2 /\ (r.size > 0 => t \in PoolTypes)
  BY OperandsPlaced DEF WellPlaced, Sound
<1> HIDE DEF r
<1>2. pool' = pool \o SizeOf(r)
  BY DEF r
<1>3. CASE r.size = 0
  BY <1>2, <1>3 DEF SizeOf
<1>5. CASE r.size # 0
  <2>1. r.size \in 1 .. 2 /\ t \in PoolTypes
    BY <1>1, <1>5
  <2>2. pool' = Append(pool, r.size)
    BY <1>2, <1>5, <2>1 DEF SizeOf
  <2> QED
    BY <2>1, <2>2
<1> QED
  BY <1>3, <1>5

LEMMA OperandType ==
  ASSUME row \in Rows \cup data_items, ~IsData, i \in 1 .. Len(row)
  PROVE  row[i] \in OperandTypes
<1>1. row \in Seq(OperandTypes)
  BY RowsAreTyped DEF IsData
<1> QED
  BY <1>1

LEMMA TypeNext ==
  ASSUME TypeInv, [Next]_vars
  PROVE  TypeInv'
<1>1. CASE UNCHANGED vars
  BY <1>1 DEF vars, TypeInv, IsData
<1>2. /\ row \in Rows \cup data_items /\ i \in 1 .. Len(row) + 1 /\ pool \in Seq(1 .. 2)
      /\ isize \in 1 .. 2
  BY DEF TypeInv
<1>3. ASSUME ~IsData, i <= Len(row)
      PROVE  row[i] \in OperandTypes
  BY <1>2, <1>3, RowsAreFinite, OperandType
<1>4. ~IsData => word \subseteq 0 .. 31
  BY DEF TypeInv
<1>5. ASSUME NEW s \in Sources, EvalOperand(s)
      PROVE  TypeInv'
  <2> DEFINE t == row[i]
             p == ParseOperand(s, t)
             r == Insertion(t, p.v, pool)
  <2>1. /\ ~IsData /\ i <= Len(row) /\ row' = row /\ i' = i + 1 /\ isize' = isize
        /\ word' = (IF r.whole THEN {2} ELSE word \cup Bits(r))
        /\ pool' = pool \o SizeOf(r)
        /\ Errors(r.error \/ RelocError(s, t, p))
        /\ Mark(p)
    BY <1>5 DEF EvalOperand
  <2>2. t \in OperandTypes
    BY <1>3, <2>1
  <2>3. Bits(r) \subseteq 0 .. 31
    BY <2>2, BitsInWord
  <2>4. word' \subseteq 0 .. 31
    <3> HIDE DEF p, r
    <3>1. word \subseteq 0 .. 31
      BY <1>4, <2>1
    <3>2. word \cup Bits(r) \subseteq 0 .. 31
      BY <2>3, <3>1
    <3>3. {2} \subseteq 0 .. 31
      OBVIOUS
    <3> QED
      BY <2>1, <3>2, <3>3
  <2>5. pool' = pool \/ (t \in PoolTypes /\ \E n \in 1 .. 2 : pool' = Append(pool, n))
    BY <1>2, <2>1, <2>2, PoolGrows
  <2>6. clr' \in {clr, clr + 1} /\ errors' \subseteq errors \cup {i}
    BY <2>1 DEF Mark, Errors, TypeInv
  <2> HIDE DEF p, r
  <2>7. TypeStep(t)
    BY <2>1, <2>4, <2>5, <2>6 DEF TypeStep
  <2> QED
    BY <2>1, <2>7, TypeStepKeeps
<1>6. ASSUME NEW s \in Sources, EvalFarBranch(s)
      PROVE  TypeInv'
  <2> DEFINE t == row[i]
             p == ParseOperand(s, t)
             r == Insertion("LI", Neg(Neg(p.v) \cup {2}), pool)
  <2>1. /\ ~IsData /\ i <= Len(row) /\ row' = row /\ i' = i + 1 /\ isize' = 2
        /\ word' = Bits(r) /\ pool' = pool
        /\ Errors(r.error \/ RelocError(s, t, p))
        /\ Mark(p)
    BY <1>6 DEF EvalFarBranch
  <2>2. "LI" \in OperandTypes
    BY AllTypes DEF NumberTypes
  <2>3. word' \subseteq 0 .. 31
    BY <2>1, <2>2, BitsInWord
  <2>4. clr' \in {clr, clr + 1} /\ errors' \subseteq errors \cup {i}
    BY <2>1 DEF Mark, Errors, TypeInv
  <2> HIDE DEF p, r
  <2>5. TypeStep(t)
    BY <2>1, <2>3, <2>4 DEF TypeStep
  <2> QED
    BY <2>1, <2>5, TypeStepKeeps
<1>7. ASSUME NEW s \in Sources, EvalMemory(s)
      PROVE  TypeInv'
  <2> DEFINE t == row[i]
             p == ParseOperand(s, t)
             base == IF t = "DBRS" THEN "BRS" ELSE "RA"
             d == Insertion(t, p.v, pool)
             rest == pool \o SizeOf(d)
             b == Insertion(base, p.base, rest)
             x == Insertion("RB", p.ndx, rest)
  <2>1. /\ ~IsData /\ i <= Len(row) /\ row' = row /\ i' = i + 1 /\ isize' = isize
        /\ word' = word \cup Bits(d) \cup Bits(b) \cup Bits(x)
        /\ pool' = rest
        /\ Errors(d.error \/ b.error \/ x.error \/ RelocError(s, t, p))
        /\ Mark(p)
    BY <1>7 DEF EvalMemory
  <2>2. t \in OperandTypes /\ base \in OperandTypes /\ "RB" \in OperandTypes
    BY <1>3, <2>1, AllTypes DEF RegisterTypes
  <2>3. Bits(d) \subseteq 0 .. 31 /\ Bits(b) \subseteq 0 .. 31 /\ Bits(x) \subseteq 0 .. 31
    BY <2>2, BitsInWord
  <2>4. word' \subseteq 0 .. 31
    BY <1>4, <2>1, <2>3
  <2>5. pool' = pool \/ (t \in PoolTypes /\ \E n \in 1 .. 2 : pool' = Append(pool, n))
    BY <1>2, <2>1, <2>2, PoolGrows
  <2>6. clr' \in {clr, clr + 1} /\ errors' \subseteq errors \cup {i}
    BY <2>1 DEF Mark, Errors, TypeInv
  <2> HIDE DEF p, d, b, x, base, rest
  <2>7. TypeStep(t)
    BY <2>1, <2>4, <2>5, <2>6 DEF TypeStep
  <2> QED
    BY <2>1, <2>7, TypeStepKeeps
<1>8. ASSUME NEW s \in Sources, EvalData(s)
      PROVE  TypeInv'
  <2> DEFINE form == IF row[1] \in {"F32", "F64"} /\ s.form = "num" THEN "flt" ELSE s.form
             at == StarkDataPieces(form, BigEndian, RelocBits[row[1]])
  <2>1. /\ IsData /\ i = 1 /\ i' = 2 /\ word' = Put(s.v, at)
        /\ UNCHANGED <<row, pool, isize, errors>>
    BY <1>8 DEF EvalData
  <2>2. Span(at) \subseteq 0 .. 63
    BY <2>1, DataPieces
  <2>3. word' \subseteq 0 .. 63
    BY <2>1, <2>2, PutInSpan
  <2>4. clr' \in 0 .. 1
    BY <1>8 DEF EvalData
  <2>5. Len(row) = 1
    BY <2>1 DEF IsData, data_items
  <2>6. /\ i' \in 1 .. Len(row') + 1 /\ clr' \in 0 .. i' - 1
        /\ i - 1 = 0 /\ i' - 1 = 1
    BY <2>1, <2>4, <2>5
  <2>7. /\ Len(pool) <= 2 /\ ~(Len(pool) >= 1) /\ ~(Len(pool) >= 2) /\ errors \subseteq 1 .. 0
    BY <2>1, <2>6 DEF TypeInv
  <2>8. IsData'
    BY <2>1 DEF IsData, data_items
  <2> HIDE DEF at
  <2> QED
    BY <1>2, <2>1, <2>3, <2>6, <2>7, <2>8 DEF TypeInv
<1> QED
  BY <1>1, <1>5, <1>6, <1>7, <1>8 DEF Next

(* TypeOK, and with it that no instruction of the table brings more than   *)
(* two constants, whatever its operands are.                               *)
THEOREM TypesHold == Spec => []TypeOK
<1>1. TypeInv /\ [Next]_vars => TypeInv'
  BY TypeNext
<1> QED
  BY TypeInit, <1>1, TypeInvIsEnough, PTL DEF Spec

-----------------------------------------------------------------------------
(* What the operands of a row may set is apart, in every row that is not   *)
(* one of SharedRows.                                                      *)
Covers(t) ==
  CASE t \in {"D", "DX"} -> Reach(t) \cup Reach("RA")
    [] t = "SCNDX" -> Reach(t) \cup Reach("RA") \cup Reach("RB")
    [] t = "DBRS" -> Reach(t) \cup Reach("BRS")
    [] OTHER -> Reach(t)

Off(s, t) == Covers(s) \cap Covers(t) = {}
RowApart(r) == \A j, k \in 1 .. Len(r) : j # k => Off(r[j], r[k])

LEMMA OffIsSymmetric == \A s, t : Off(s, t) => Off(t, s)
  BY DEF Off

LEMMA ApartRows ==
  /\ RowApart(<<>>)
  /\ \A a : RowApart(<<a>>)
  /\ \A a, b : Off(a, b) => RowApart(<<a, b>>)
  /\ \A a, b, c : Off(a, b) /\ Off(a, c) /\ Off(b, c) => RowApart(<<a, b, c>>)
<1>1. RowApart(<<>>) /\ \A a : RowApart(<<a>>)
  BY DEF RowApart
<1>2. \A a, b : Off(a, b) => RowApart(<<a, b>>)
  BY OffIsSymmetric DEF RowApart
<1>3. \A a, b, c : Off(a, b) /\ Off(a, c) /\ Off(b, c) => RowApart(<<a, b, c>>)
  BY OffIsSymmetric DEF RowApart
<1> QED
  BY <1>1, <1>2, <1>3

LEMMA FieldsApart ==
  /\ Off("RA", "RS") /\ Off("RS", "SI") /\ Off("RA", "SI")
  /\ Off("RB", "RS") /\ Off("RA", "RB") /\ Off("DX", "RS")
  /\ Off("DX", "RB") /\ Off("RS", "UI") /\ Off("RA", "UI")
  /\ Off("BD", "CRS") /\ Off("BS", "CRS") /\ Off("BS", "RA")
  /\ Off("BLR", "BS") /\ Off("DBRS", "LMT") /\ Off("BR", "DBRS")
  /\ Off("BF", "RA") /\ Off("BF", "RB") /\ Off("BF", "SI")
  /\ Off("BF", "UI") /\ Off("BA", "BT") /\ Off("BB", "BT")
  /\ Off("BA", "BB") /\ Off("CSRNO", "RS") /\ Off("CSRNO", "RA")
  /\ Off("CSRUI", "RS") /\ Off("CSRNO", "CSRUI") /\ Off("D", "RS")
  /\ Off("RS", "SCNDX") /\ Off("D", "FRS") /\ Off("FRS", "SCNDX")
  /\ Off("MOVRD", "MOVRS") /\ Off("M12", "MPV") /\ Off("RS", "SH6")
  /\ Off("RA", "SH6") /\ Off("NSI", "RS") /\ Off("NSI", "RA")
<1>1. Off("RA", "RS") /\ Off("RS", "SI") /\ Off("RA", "SI")
  BY DEF Off, Covers, Reach
<1>2. Off("RB", "RS") /\ Off("RA", "RB") /\ Off("DX", "RS")
  BY DEF Off, Covers, Reach
<1>3. Off("DX", "RB") /\ Off("RS", "UI") /\ Off("RA", "UI")
  BY DEF Off, Covers, Reach
<1>4. Off("BD", "CRS") /\ Off("BS", "CRS") /\ Off("BS", "RA")
  BY DEF Off, Covers, Reach
<1>5. Off("BLR", "BS") /\ Off("DBRS", "LMT") /\ Off("BR", "DBRS")
  BY DEF Off, Covers, Reach
<1>6. Off("BF", "RA") /\ Off("BF", "RB") /\ Off("BF", "SI")
  BY DEF Off, Covers, Reach
<1>7. Off("BF", "UI") /\ Off("BA", "BT") /\ Off("BB", "BT")
  BY DEF Off, Covers, Reach
<1>8. Off("BA", "BB") /\ Off("CSRNO", "RS") /\ Off("CSRNO", "RA")
  BY DEF Off, Covers, Reach
<1>9. Off("CSRUI", "RS") /\ Off("CSRNO", "CSRUI") /\ Off("D", "RS")
  BY DEF Off, Covers, Reach
<1>10. Off("RS", "SCNDX") /\ Off("D", "FRS") /\ Off("FRS", "SCNDX")
  BY DEF Off, Covers, Reach
<1>11. Off("MOVRD", "MOVRS") /\ Off("M12", "MPV") /\ Off("RS", "SH6")
  BY DEF Off, Covers, Reach
<1>12. Off("RA", "SH6") /\ Off("NSI", "RS") /\ Off("NSI", "RA")
  BY DEF Off, Covers, Reach
<1> QED
  BY <1>1, <1>2, <1>3, <1>4, <1>5, <1>6, <1>7, <1>8, <1>9, <1>10, <1>11, <1>12

LEMMA RowsAreApart == \A r \in Rows \ SharedRows : RowApart(r)
<1>1. \A r \in RowsA : r \in SharedRows \/ RowApart(r)
  BY FieldsApart, OffIsSymmetric, ApartRows DEF RowsA, SharedRows
<1>2. \A r \in RowsB : r \in SharedRows \/ RowApart(r)
  BY FieldsApart, OffIsSymmetric, ApartRows DEF RowsB, SharedRows
<1> QED
  BY <1>1, <1>2 DEF Rows

(* A conditional branch has its target behind a condition register, if     *)
(* anything.                                                               *)
BranchRows == {<<"BD">>, <<"CRS", "BD">>}
BranchIsLast(r) == (\E k \in 1 .. Len(r) : r[k] = "BD") => r \in BranchRows

LEMMA OtherRows ==
  /\ BranchIsLast(<<>>)
  /\ \A a : a # "BD" => BranchIsLast(<<a>>)
  /\ \A a, b : a # "BD" /\ b # "BD" => BranchIsLast(<<a, b>>)
  /\ \A a, b, c : a # "BD" /\ b # "BD" /\ c # "BD" => BranchIsLast(<<a, b, c>>)
  /\ \A a, b, c, d : a # "BD" /\ b # "BD" /\ c # "BD" /\ d # "BD" => BranchIsLast(<<a, b, c, d>>)
<1>1. BranchIsLast(<<>>) /\ \A a : a # "BD" => BranchIsLast(<<a>>)
  BY DEF BranchIsLast
<1>2. \A a, b : a # "BD" /\ b # "BD" => BranchIsLast(<<a, b>>)
  BY DEF BranchIsLast
<1>3. \A a, b, c : a # "BD" /\ b # "BD" /\ c # "BD" => BranchIsLast(<<a, b, c>>)
  BY DEF BranchIsLast
<1>4. \A a, b, c, d : a # "BD" /\ b # "BD" /\ c # "BD" /\ d # "BD" => BranchIsLast(<<a, b, c, d>>)
  BY DEF BranchIsLast
<1> QED
  BY <1>1, <1>2, <1>3, <1>4

LEMMA BranchesAreLast == \A r \in Rows : BranchIsLast(r)
<1>1. \A r \in BranchRows : BranchIsLast(r)
  BY DEF BranchIsLast
<1>2. <<"BD">> \in BranchRows /\ <<"CRS", "BD">> \in BranchRows
  BY DEF BranchRows
<1>3. \A r \in RowsA : BranchIsLast(r)
  BY <1>1, <1>2, OtherRows DEF RowsA
<1>4. \A r \in RowsB : BranchIsLast(r)
  BY <1>1, <1>2, OtherRows DEF RowsB
<1> QED
  BY <1>3, <1>4 DEF Rows

-----------------------------------------------------------------------------
(* OperandsReadBack.  An operand is in place when every bit of it that the *)
(* pieces carry is where they say.                                         *)
InPlace(p, w) ==
  \A q \in p.pieces : \A b \in q[1] .. q[1] + q[2] - 1 : b - q[1] + q[3] \in w <=> b \in p.held

LEMMA InPlaceReads ==
  ASSUME NEW p, NEW w, InPlace(p, w)
  PROVE  /\ Get(w, p.pieces) = p.held \cap Carried(p.pieces)
         /\ \A q \in p.pieces : Get(w, {q}) = p.held \cap Carried({q})
<1>1. \A b : b \in Get(w, p.pieces) <=>
          \E q \in p.pieces : b \in q[1] .. q[1] + q[2] - 1 /\ b - q[1] + q[3] \in w
  BY DEF Get
<1>2. \A b : b \in Carried(p.pieces) <=> \E q \in p.pieces : b \in q[1] .. q[1] + q[2] - 1
  BY DEF Carried
<1>3. \A b : b \in Get(w, p.pieces) <=> b \in p.held \cap Carried(p.pieces)
  BY <1>1, <1>2 DEF InPlace
<1>4. ASSUME NEW q \in p.pieces
      PROVE  Get(w, {q}) = p.held \cap Carried({q})
  <2>1. \A b : b \in Get(w, {q}) <=> b \in q[1] .. q[1] + q[2] - 1 /\ b - q[1] + q[3] \in w
    BY DEF Get
  <2>2. \A b : b \in Carried({q}) <=> b \in q[1] .. q[1] + q[2] - 1
    BY DEF Carried
  <2>3. \A b : b \in Get(w, {q}) <=> b \in p.held \cap Carried({q})
    BY <2>1, <2>2 DEF InPlace
  <2> QED
    BY <2>3
<1> QED
  BY <1>3, <1>4

LEMMA PutIsInPlace ==
  ASSUME NEW p, p.pieces \subseteq Layout, Apart(p.pieces),
         NEW other, other \cap Span(p.pieces) = {}
  PROVE  InPlace(p, Put(p.held, p.pieces) \cup other)
<1> DEFINE h == p.held
           ps == p.pieces
<1>1. ps \in SUBSET Layout /\ Apart(ps) /\ other \cap Span(ps) = {}
  OBVIOUS
<1> HIDE DEF h, ps
<1>2. ASSUME NEW q \in ps, NEW b \in q[1] .. q[1] + q[2] - 1
      PROVE  b - q[1] + q[3] \in Put(h, ps) \cup other <=> b \in h
  BY <1>1, BitOfPiece
<1> QED
  BY <1>2 DEF InPlace, h, ps

(* Bits elsewhere change nothing.                                          *)
LEMMA InPlaceStays ==
  ASSUME NEW p, p.pieces \subseteq Layout, NEW w, InPlace(p, w),
         NEW z, \A b \in Span(p.pieces) : b \in z <=> b \in w
  PROVE  InPlace(p, z)
<1>1. ASSUME NEW q \in p.pieces, NEW b \in q[1] .. q[1] + q[2] - 1
      PROVE  b - q[1] + q[3] \in Span(p.pieces)
  <2>1. q[1] \in Nat /\ q[2] \in Nat /\ q[3] \in Nat
    BY DEF Layout
  <2>2. b - q[1] + q[3] \in q[3] .. q[3] + q[2] - 1
    BY <2>1
  <2> QED
    BY <2>2 DEF Span
<1> QED
  BY <1>1 DEF InPlace

Clean == errors = {} /\ \A p \in placed : ~p.whole

(* Behind the evaluated operands.                                          *)
BitsSet == UNION {Covers(row[k]) : k \in 1 .. i - 1}
Whereabouts == \A p \in placed : p.op \in 1 .. i - 1 /\ Span(p.pieces) \subseteq Covers(row[p.op])

ReadInv ==
  /\ isize = 2 => i > Len(row)
  /\ i = 1 => placed = {} /\ isize = 1
  /\ \A p \in placed : p.pieces \subseteq Layout
  /\ Clean /\ ~IsData /\ row \notin SharedRows /\ isize = 1 => word \subseteq BitsSet /\ Whereabouts
  /\ Clean /\ row \notin SharedRows => \A p \in placed : InPlace(p, word)

(* What a step puts in place, in the bits that the operand covers.         *)
ReadStep(t, new, bits) ==
  /\ bits \subseteq Covers(t)
  /\ \A p \in new : Span(p.pieces) \subseteq Covers(t) /\ InPlace(p, bits)

LEMMA ReadStepKeeps ==
  ASSUME TypeInv, ReadInv, ~IsData, i <= Len(row), row' = row, i' = i + 1, isize' = isize,
         errors \subseteq errors', NEW new, placed' = placed \cup new,
         \A p \in new : p.op = i /\ p.pieces \subseteq Layout,
         NEW bits, Clean' => word' = word \cup bits /\ ReadStep(row[i], new, bits)
  PROVE  ReadInv'
<1>1. row \in Rows /\ Len(row) \in Nat /\ i \in 1 .. Len(row) /\ isize = 1
  BY RowsAreFinite DEF TypeInv, IsData, ReadInv
<1>2. ~IsData' /\ isize' = 1 /\ i' # 1
  BY <1>1 DEF IsData, data_items
<1>3. \A p \in placed' : p.pieces \subseteq Layout
  BY DEF ReadInv
<1>4. ASSUME Clean', row \notin SharedRows
      PROVE  word' \subseteq BitsSet' /\ Whereabouts' /\ \A p \in placed' : InPlace(p, word')
  <2>1. Clean
    BY <1>4 DEF Clean
  <2>2. word \subseteq BitsSet /\ Whereabouts /\ \A p \in placed : InPlace(p, word)
    BY <1>1, <1>4, <2>1 DEF ReadInv
  <2>3. word' = word \cup bits /\ ReadStep(row[i], new, bits)
    BY <1>4
  <2>4. ASSUME NEW k \in 1 .. i - 1
        PROVE  Covers(row[k]) \cap Covers(row[i]) = {} /\ k \in 1 .. i
    <3>1. k \in 1 .. Len(row) /\ k # i /\ k \in 1 .. i
      BY <1>1
    <3> QED
      BY <1>1, <1>4, <3>1, RowsAreApart DEF RowApart, Off
  <2>5. word \cap Covers(row[i]) = {}
    BY <2>2, <2>4 DEF BitsSet
  <2>6. word' \subseteq BitsSet'
    <3>1. i \in 1 .. i' - 1 /\ \A k \in 1 .. i - 1 : k \in 1 .. i' - 1
      BY <1>1
    <3> QED
      BY <2>2, <2>3, <3>1 DEF BitsSet, ReadStep
  <2>7. ASSUME NEW p \in placed
        PROVE  InPlace(p, word') /\ p.op \in 1 .. i' - 1 /\ Span(p.pieces) \subseteq Covers(row[p.op])
    <3>1. p.op \in 1 .. i - 1 /\ Span(p.pieces) \subseteq Covers(row[p.op]) /\ InPlace(p, word)
      BY <2>2, <2>7 DEF Whereabouts
    <3>2. \A b \in Span(p.pieces) : b \in word' <=> b \in word
      BY <2>3, <2>4, <3>1 DEF ReadStep
    <3>3. p.pieces \subseteq Layout
      BY <2>7 DEF ReadInv
    <3>4. InPlace(p, word')
      BY <3>1, <3>2, <3>3, InPlaceStays
    <3>5. p.op \in 1 .. i' - 1
      BY <1>1, <3>1
    <3> QED
      BY <3>1, <3>4, <3>5
  <2>8. ASSUME NEW p \in new
        PROVE  InPlace(p, word') /\ p.op \in 1 .. i' - 1 /\ Span(p.pieces) \subseteq Covers(row[p.op])
    <3>1. p.op = i /\ p.pieces \subseteq Layout
      BY <2>8
    <3>2. Span(p.pieces) \subseteq Covers(row[i]) /\ InPlace(p, bits)
      BY <2>3, <2>8 DEF ReadStep
    <3>3. \A b \in Span(p.pieces) : b \in word' <=> b \in bits
      BY <2>3, <2>5, <3>2
    <3>4. InPlace(p, word')
      BY <3>1, <3>2, <3>3, InPlaceStays
    <3> QED
      BY <1>1, <3>1, <3>2, <3>4
  <2>9. \A p \in placed' : /\ InPlace(p, word') /\ p.op \in 1 .. i' - 1
                           /\ Span(p.pieces) \subseteq Covers(row[p.op])
    BY <2>7, <2>8
  <2> QED
    BY <2>6, <2>9 DEF Whereabouts
<1> QED
  BY <1>2, <1>3, <1>4 DEF ReadInv

LEMMA InsertionStays ==
  ASSUME NEW t \in OperandTypes, NEW v, NEW used, NEW part
  PROVE  LET r == Insertion(t, v, used)
             h == Hold(part, t, v, r)
         IN  /\ h.op = i /\ h.pieces \subseteq Layout
             /\ ~r.error => Bits(r) \subseteq Reach(t) /\ Span(h.pieces) \subseteq Reach(t)
<1> DEFINE r == Insertion(t, v, used)
           h == Hold(part, t, v, r)
<1>1. WellPlaced(t, r)
  BY OperandsPlaced
<1>2. h.op = i /\ h.pieces = r.pieces
  BY HoldFields
<1> HIDE DEF r, h
<1>3. r.pieces \subseteq Layout
  BY <1>1 DEF WellPlaced, Sound
<1>4. ~r.error => Bits(r) \subseteq Reach(t) /\ Span(r.pieces) \subseteq Reach(t)
  BY <1>1, PutInSpan DEF WellPlaced, Sound, Bits
<1>5. /\ h.op = i /\ h.pieces \subseteq Layout
      /\ ~r.error => Bits(r) \subseteq Reach(t) /\ Span(h.pieces) \subseteq Reach(t)
  BY <1>2, <1>3, <1>4
<1> QED
  BY <1>5 DEF h, r

LEMMA InsertionInPlace ==
  ASSUME NEW t \in OperandTypes, NEW v, NEW used, NEW part,
         NEW other, other \cap Span(Insertion(t, v, used).pieces) = {}
  PROVE  InPlace(Hold(part, t, v, Insertion(t, v, used)), Bits(Insertion(t, v, used)) \cup other)
<1> DEFINE r == Insertion(t, v, used)
           h == Hold(part, t, v, r)
<1>1. WellPlaced(t, r)
  BY OperandsPlaced
<1>2. h.held = r.held /\ h.pieces = r.pieces
  BY HoldFields
<1> HIDE DEF r, h
<1>3. /\ h.pieces \subseteq Layout /\ Apart(h.pieces)
      /\ (r.flags \cup other) \cap Span(h.pieces) = {}
  BY <1>1, <1>2 DEF WellPlaced, Sound, r
<1>4. InPlace(h, Put(h.held, h.pieces) \cup (r.flags \cup other))
  BY <1>3, PutIsInPlace
<1>5. Bits(r) \cup other = Put(h.held, h.pieces) \cup (r.flags \cup other)
  BY <1>2 DEF Bits
<1>6. InPlace(h, Bits(r) \cup other)
  BY <1>4, <1>5
<1> QED
  BY <1>6 DEF h, r

(* An index register is taken by a scaled index operand only, and an       *)
(* operand without one sets no bit for it.                                 *)
LEMMA NoIndex ==
  ASSUME NEW s \in Sources, NEW t \in {"D", "DX", "DBRS"}, ParseOperand(s, t).match
  PROVE  ParseOperand(s, t).ndx = {}
<1>1. t \in NumberTypes
  BY DEF NumberTypes
<1>2. s.t \in {"expr", "mem"}
  BY <1>1, NumbersAreParsed
<1>3. "SCNDX" \notin powerpc_operands[t].flags
  <2>1. /\ powerpc_operands["D"].flags = {"PARENS", "SIGNED"}
        /\ powerpc_operands["DX"].flags = {"PARENS", "SIGNED"}
        /\ powerpc_operands["DBRS"].flags = {"PARENS", "SIGNED"}
    BY EntriesA, EntriesC, OpdFields
  <2> QED
    BY <2>1
<1>4. CASE s.t = "expr"
  BY <1>4 DEF ParseOperand, Parsed
<1>5. CASE s.t = "mem"
  <2>1. ParseOperand(s, t) = ParseMemory(s, t)
    BY <1>5 DEF ParseOperand
  <2>2. ParseMemory(s, t).ndx = {}
    BY <1>3, <2>1 DEF ParseMemory, Parsed, NoMatch
  <2> QED
    BY <2>1, <2>2
<1> QED
  BY <1>2, <1>4, <1>5

LEMMA NoIndexBits == \A used : Bits(Insertion("RB", {}, used)) = {}
<1> SUFFICES ASSUME NEW used
             PROVE  Bits(Insertion("RB", {}, used)) = {}
  OBVIOUS
<1> DEFINE r == Insertion("RB", {}, used)
           v == {}
           ps == {<<0, 5, 17>>}
           e == FALSE
           w == FALSE
           n == 0
<1>1. Code("RB", v, used) = Result(v, ps, {}, v, n, e, w) /\ e \in BOOLEAN
  BY RegisterCodes, InsertedResult
<1> HIDE DEF n, e, w, ps
<1>2. Insertion("RB", v, used) = Result(v, ps, {}, v, n, (e \/ OutOfRange("RB", v)), w)
  BY <1>1, RangeOutcome
<1>3. r.held = {} /\ r.flags = {}
  BY <1>2, ResultFields
<1> HIDE DEF r
<1>4. Bits(r) = {}
  BY <1>3 DEF Bits, Put, PutPiece
<1> QED
  BY <1>4 DEF r

LEMMA ReadOperand ==
  ASSUME TypeInv, ReadInv, NEW s \in Sources, EvalOperand(s)
  PROVE  ReadInv'
<1> DEFINE t == row[i]
           p == ParseOperand(s, t)
           r == Insertion(t, p.v, pool)
           h == Hold("self", t, p.v, r)
           new == {h}
<1>1. /\ ~IsData /\ i <= Len(row) /\ row' = row /\ i' = i + 1 /\ isize' = isize
      /\ word' = (IF r.whole THEN {2} ELSE word \cup Bits(r))
      /\ placed' = placed \cup new
      /\ Errors(r.error \/ RelocError(s, t, p))
      /\ "PARENS" \notin powerpc_operands[t].flags
  BY DEF EvalOperand
<1>2. t \in OperandTypes
  BY <1>1, RowsAreFinite, OperandType DEF TypeInv
<1>3. /\ h.op = i /\ h.pieces \subseteq Layout
      /\ ~r.error => Bits(r) \subseteq Reach(t) /\ Span(h.pieces) \subseteq Reach(t)
  BY <1>2, InsertionStays
<1>4. InPlace(h, Bits(r))
  <2>1. InPlace(h, Bits(r) \cup {})
    BY <1>2, InsertionInPlace
  <2> QED
    BY <2>1
<1>5. h.whole = r.whole
  BY HoldFields
<1>6. Reach(t) \subseteq Covers(t)
  BY DEF Covers
<1>7. errors \subseteq errors' /\ (r.error => i \in errors')
  BY <1>1 DEF Errors
<1> HIDE DEF h, r, p, t
<1>8. ASSUME Clean'
      PROVE  word' = word \cup Bits(r) /\ ReadStep(t, new, Bits(r))
  <2>1. ~r.error
    BY <1>7, <1>8 DEF Clean
  <2>2. ~r.whole
    BY <1>1, <1>5, <1>8 DEF Clean
  <2> QED
    BY <1>1, <1>3, <1>4, <1>6, <2>1, <2>2 DEF ReadStep
<1>9. \A q \in new : q.op = i /\ q.pieces \subseteq Layout
  BY <1>3
<1> HIDE DEF new
<1> QED
  BY <1>1, <1>7, <1>8, <1>9, ReadStepKeeps DEF t

LEMMA ReadFarBranch ==
  ASSUME TypeInv, ReadInv, NEW s \in Sources, EvalFarBranch(s)
  PROVE  ReadInv'
<1> DEFINE t == row[i]
           p == ParseOperand(s, t)
           v == Neg(Neg(p.v) \cup {2})
           r == Insertion("LI", v, pool)
           h == Hold("self", "LI", v, r)
<1>1. /\ ~IsData /\ i <= Len(row) /\ row' = row /\ i' = i + 1 /\ isize' = 2
      /\ word' = Bits(r) /\ placed' = {h} /\ t = "BD"
  BY DEF EvalFarBranch, TooFar
<1>2. row \in Rows /\ i \in 1 .. Len(row) /\ Len(row) \in Nat
  BY <1>1, RowsAreFinite DEF TypeInv, IsData
<1>3. i = Len(row)
  <2>1. row \in BranchRows
    BY <1>1, <1>2, BranchesAreLast DEF BranchIsLast
  <2>2. CASE row = <<"BD">>
    BY <1>2, <2>2
  <2>3. CASE row = <<"CRS", "BD">>
    BY <1>1, <1>2, <2>3
  <2> QED
    BY <2>1, <2>2, <2>3 DEF BranchRows
<1>4. "LI" \in OperandTypes
  BY AllTypes DEF NumberTypes
<1>5. h.op = i /\ h.pieces \subseteq Layout
  BY <1>4, InsertionStays
<1>6. InPlace(h, Bits(r))
  <2>1. InPlace(h, Bits(r) \cup {})
    BY <1>4, InsertionInPlace
  <2> QED
    BY <2>1
<1> HIDE DEF h, r
<1>7. i' > Len(row') /\ i' # 1 /\ isize' # 1
  BY <1>1, <1>2, <1>3
<1> QED
  BY <1>1, <1>5, <1>6, <1>7 DEF ReadInv

LEMMA ReadData ==
  ASSUME TypeInv, ReadInv, NEW s \in Sources, EvalData(s)
  PROVE  ReadInv'
<1> DEFINE form == IF row[1] \in {"F32", "F64"} /\ s.form = "num" THEN "flt" ELSE s.form
           at == StarkDataPieces(form, BigEndian, RelocBits[row[1]])
           h == Hold("self", row[1], s.v, InField(s.v, at))
<1>1. /\ IsData /\ i = 1 /\ i' = 2 /\ word' = Put(s.v, at) /\ placed' = {h}
      /\ row' = row /\ isize' = isize
  BY DEF EvalData
<1>2. at \subseteq Layout /\ Apart(at)
  BY <1>1, DataPieces
<1>3. h.pieces = at /\ h.held = s.v
  <2>1. InField(s.v, at).pieces = at /\ InField(s.v, at).held = s.v
    BY DEF InField, Inserted
  <2> QED
    BY <2>1, HoldFields
<1> HIDE DEF h, at
<1>4. InPlace(h, word')
  <2>1. InPlace(h, Put(h.held, h.pieces) \cup {})
    BY <1>2, <1>3, PutIsInPlace
  <2> QED
    BY <1>1, <1>3, <2>1
<1>5. isize = 1
  BY <1>1 DEF ReadInv
<1>6. IsData' /\ i' # 1 /\ isize' # 2
  BY <1>1, <1>5 DEF IsData, data_items
<1> QED
  BY <1>1, <1>2, <1>3, <1>4, <1>6 DEF ReadInv

LEMMA ReadMemory ==
  ASSUME TypeInv, ReadInv, NEW s \in Sources, EvalMemory(s)
  PROVE  ReadInv'
<1> DEFINE t == row[i]
           p == ParseOperand(s, t)
           base == IF t = "DBRS" THEN "BRS" ELSE "RA"
           d == Insertion(t, p.v, pool)
           rest == pool \o SizeOf(d)
           b == Insertion(base, p.base, rest)
           x == Insertion("RB", p.ndx, rest)
           hd == Hold("disp", t, p.v, d)
           hb == Hold("base", base, p.base, b)
           hx == Hold("ndx", "RB", p.ndx, x)
           new == {hd, hb} \cup (IF p.ndx = {} THEN {} ELSE {hx})
           bits == Bits(d) \cup Bits(b) \cup Bits(x)
<1>1. /\ ~IsData /\ i <= Len(row) /\ row' = row /\ i' = i + 1 /\ isize' = isize
      /\ word' = word \cup bits
      /\ placed' = placed \cup new
      /\ Errors(d.error \/ b.error \/ x.error \/ RelocError(s, t, p))
      /\ "PARENS" \in powerpc_operands[t].flags /\ p.match
  <2>1. word' = word \cup Bits(d) \cup Bits(b) \cup Bits(x)
    BY DEF EvalMemory
  <2>2. placed' = placed \cup {hd, hb} \cup (IF p.ndx = {} THEN {} ELSE {hx})
    BY DEF EvalMemory
  <2>3. word' = word \cup bits /\ placed' = placed \cup new
    BY <2>1, <2>2
  <2> QED
    BY <2>3 DEF EvalMemory
<1>2. t \in OperandTypes /\ base \in OperandTypes /\ "RB" \in OperandTypes
  BY <1>1, RowsAreFinite, OperandType, AllTypes DEF TypeInv, RegisterTypes
<1>3. t \in {"D", "DX", "SCNDX", "DBRS"}
  BY <1>1, <1>2, ParensAreNumbers
<1>4. t \in {"D", "DX", "DBRS"} => p.ndx = {}
  BY <1>1, NoIndex
<1>5. p.ndx = {} => Bits(x) = {}
  BY NoIndexBits
<1>6. /\ hd.op = i /\ hd.pieces \subseteq Layout
      /\ ~d.error => Bits(d) \subseteq Reach(t) /\ Span(hd.pieces) \subseteq Reach(t)
  BY <1>2, InsertionStays
<1>7. /\ hb.op = i /\ hb.pieces \subseteq Layout
      /\ ~b.error => Bits(b) \subseteq Reach(base) /\ Span(hb.pieces) \subseteq Reach(base)
  BY <1>2, InsertionStays
<1>8. /\ hx.op = i /\ hx.pieces \subseteq Layout
      /\ ~x.error => Bits(x) \subseteq Reach("RB") /\ Span(hx.pieces) \subseteq Reach("RB")
  BY <1>2, InsertionStays
<1>9. hd.pieces = d.pieces /\ hb.pieces = b.pieces /\ hx.pieces = x.pieces
  BY HoldFields
<1>10. /\ \A o : o \cap Span(d.pieces) = {} => InPlace(hd, Bits(d) \cup o)
       /\ \A o : o \cap Span(b.pieces) = {} => InPlace(hb, Bits(b) \cup o)
       /\ \A o : o \cap Span(x.pieces) = {} => InPlace(hx, Bits(x) \cup o)
  BY <1>2, InsertionInPlace
<1>11. /\ errors \subseteq errors'
       /\ d.error => i \in errors'
       /\ b.error => i \in errors'
       /\ x.error => i \in errors'
  BY <1>1 DEF Errors
<1>12. /\ Reach(t) \cap Reach(base) = {} /\ Reach(t) \subseteq Covers(t) /\ Reach(base) \subseteq Covers(t)
       /\ t = "SCNDX" => /\ Reach("RB") \cap Reach(t) = {} /\ Reach("RB") \cap Reach(base) = {}
                         /\ Reach("RB") \subseteq Covers(t)
  <2>1. CASE t = "DBRS"
    BY <2>1 DEF Reach, Covers
  <2>2. CASE t = "SCNDX"
    BY <2>2 DEF Reach, Covers
  <2>3. CASE t = "D"
    BY <2>3 DEF Reach, Covers
  <2>4. CASE t = "DX"
    BY <2>4 DEF Reach, Covers
  <2> QED
    BY <1>3, <2>1, <2>2, <2>3, <2>4
<1> HIDE DEF d, b, x, hd, hb, hx, p, t, base
<1>13. ASSUME Clean'
       PROVE  word' = word \cup bits /\ ReadStep(t, new, bits)
  <2>1. ~d.error /\ ~b.error /\ ~x.error
    BY <1>11, <1>13 DEF Clean
  <2>2. /\ Bits(d) \subseteq Reach(t) /\ Span(d.pieces) \subseteq Reach(t)
        /\ Bits(b) \subseteq Reach(base) /\ Span(b.pieces) \subseteq Reach(base)
    BY <1>6, <1>7, <1>9, <2>1
  <2>3. \/ Bits(x) = {} /\ p.ndx = {}
        \/ t = "SCNDX" /\ Bits(x) \subseteq Reach("RB") /\ Span(x.pieces) \subseteq Reach("RB")
    BY <1>3, <1>4, <1>5, <1>8, <1>9, <2>1
  <2>4. bits \subseteq Covers(t)
    BY <1>12, <2>2, <2>3
  <2>5. Span(hd.pieces) \subseteq Covers(t) /\ InPlace(hd, bits)
    <3>1. (Bits(b) \cup Bits(x)) \cap Span(d.pieces) = {}
      BY <1>12, <2>2, <2>3
    <3>2. bits = Bits(d) \cup (Bits(b) \cup Bits(x))
      OBVIOUS
    <3> HIDE DEF bits
    <3> QED
      BY <1>9, <1>10, <1>12, <2>2, <3>1, <3>2
  <2>6. Span(hb.pieces) \subseteq Covers(t) /\ InPlace(hb, bits)
    <3>1. (Bits(d) \cup Bits(x)) \cap Span(b.pieces) = {}
      BY <1>12, <2>2, <2>3
    <3>2. bits = Bits(b) \cup (Bits(d) \cup Bits(x))
      OBVIOUS
    <3> HIDE DEF bits
    <3> QED
      BY <1>9, <1>10, <1>12, <2>2, <3>1, <3>2
  <2>7. ASSUME p.ndx # {}
        PROVE  Span(hx.pieces) \subseteq Covers(t) /\ InPlace(hx, bits)
    <3>1. (Bits(d) \cup Bits(b)) \cap Span(x.pieces) = {}
      BY <1>12, <2>2, <2>3, <2>7
    <3>2. bits = Bits(x) \cup (Bits(d) \cup Bits(b))
      OBVIOUS
    <3> HIDE DEF bits
    <3> QED
      BY <1>9, <1>10, <1>12, <2>3, <2>7, <3>1, <3>2
  <2>8. \A q \in new : Span(q.pieces) \subseteq Covers(t) /\ InPlace(q, bits)
    BY <2>5, <2>6, <2>7
  <2> HIDE DEF bits, new
  <2> QED
    BY <1>1, <2>4, <2>8 DEF ReadStep
<1>14. \A q \in new : q.op = i /\ q.pieces \subseteq Layout
  BY <1>6, <1>7, <1>8
<1> HIDE DEF new, bits
<1> QED
  BY <1>1, <1>11, <1>13, <1>14, ReadStepKeeps DEF t

LEMMA ReadNext ==
  ASSUME TypeInv, ReadInv, [Next]_vars
  PROVE  ReadInv'
<1>1. CASE UNCHANGED vars
  BY <1>1 DEF vars, ReadInv, Clean, IsData, BitsSet, Whereabouts
<1> QED
  BY <1>1, ReadOperand, ReadFarBranch, ReadMemory, ReadData DEF Next

LEMMA ReadInit == Init => ReadInv
<1> SUFFICES ASSUME Init
             PROVE  ReadInv
  OBVIOUS
<1>1. i = 1 /\ isize = 1 /\ placed = {} /\ word = {}
  BY DEF Init
<1>2. isize # 2 /\ Whereabouts /\ word \subseteq BitsSet
  BY <1>1 DEF Whereabouts
<1>3. \A p \in placed : p.pieces \subseteq Layout /\ InPlace(p, word)
  BY <1>1
<1> QED
  BY <1>1, <1>2, <1>3 DEF ReadInv

(* OperandsReadBack: in every row but the ones named, each operand can be  *)
(* read back from the word, whatever values the operands have.             *)
THEOREM FieldsReadBack == Spec => []OperandsReadBack
<1>1. Init => ReadInv
  BY ReadInit
<1>2. TypeInv /\ [Next]_vars => TypeInv'
  BY TypeNext
<1>3. TypeInv /\ ReadInv /\ [Next]_vars => ReadInv'
  BY ReadNext
<1>4. ReadInv => OperandsReadBack
  BY InPlaceReads DEF ReadInv, Clean, OperandsReadBack
<1> QED
  BY TypeInit, <1>1, <1>2, <1>3, <1>4, PTL DEF Spec

-----------------------------------------------------------------------------
(* RelocsPatchTheField.  A target is held in three pieces, as it was       *)
(* written, unless it was pooled.                                          *)
TargetHeld(v, r) == ~r.whole /\ (r.size = 0 => r.held = v /\ r.pieces = BdPieces)

LEMMA TargetsAreHeld ==
  ASSUME NEW v, NEW used
  PROVE  TargetHeld(v, Insertion("BD", v, used))
<1> DEFINE t == "BD"
           r == Insertion(t, v, used)
           e == FALSE
           w == FALSE
<1>1. Code(t, v, used) = InsertBd(v, Total(used))
  BY CodesA
<1>2. CASE FitsSigned(v, 13)
  <2> DEFINE n == 0
             ps == BdPieces
             fl == {}
  <2>1. Code(t, v, used) = InField(v, ps)
    BY <1>1, <1>2 DEF InsertBd
  <2>2. Code(t, v, used) = Result(v, ps, fl, v, n, e, w) /\ e \in BOOLEAN
    BY <2>1, InsertedResult
  <2> HIDE DEF n, ps, fl, e, w, t
  <2>3. r = Result(v, ps, fl, v, n, (e \/ OutOfRange(t, v)), w)
    BY <2>2, RangeOutcome
  <2> HIDE DEF r
  <2>4. r.held = v /\ r.pieces = ps /\ r.whole = w
    BY <2>3, ResultFields
  <2> QED
    BY <2>4 DEF TargetHeld, r, ps, w, t
<1>3. CASE ~FitsSigned(v, 13)
  <2>1. PICK n \in {1, 2} : Code(t, v, used) = OnLine(n, Total(used), 10)
    BY <1>1, <1>3 DEF InsertBd
  <2> DEFINE place == BitsOf((Words - Total(used) - n) % 16)
             ps == {<<0, 4, 10>>}
             fl == {28 + n}
             re == {}
             tot == Total(used)
  <2>2. Code(t, v, used) = Result(place, ps, fl, re, n, e, w) /\ e \in BOOLEAN
    <3> HIDE DEF tot, t
    <3>1. \A at : OnLine(n, tot, at) = Result(BitsOf((Words - tot - n) % 16), {<<0, 4, at>>}, {28 + n}, {},
                                     n, FALSE, FALSE)
      BY OnLineResult
    <3> QED
      BY <2>1, <3>1 DEF tot
  <2> HIDE DEF place, ps, fl, re, e, w, t
  <2>3. r = Result(place, ps, fl, re, n, (e \/ OutOfRange(t, re)), w)
    BY <2>2, RangeOutcome
  <2> HIDE DEF r
  <2>4. r.size = n /\ r.whole = w
    BY <2>3, ResultFields
  <2> QED
    BY <2>4 DEF TargetHeld, r, w, t
<1> QED
  BY <1>2, <1>3

LEMMA ConditionsAreInserted == \A v, used : ~Insertion("CRS", v, used).whole
<1> SUFFICES ASSUME NEW v, NEW used
             PROVE  ~Insertion("CRS", v, used).whole
  OBVIOUS
<1> DEFINE t == "CRS"
           r == Insertion(t, v, used)
           e == FALSE
           w == FALSE
           n == 0
           ps == {<<0, 2, 20>>}
           fl == {}
<1>1. Code(t, v, used) = Result(v, ps, fl, v, n, e, w) /\ e \in BOOLEAN
  BY RegisterCodes, InsertedResult
<1> HIDE DEF n, ps, fl, e, w, t
<1>2. r = Result(v, ps, fl, v, n, (e \/ OutOfRange(t, v)), w)
  BY <1>1, RangeOutcome
<1> HIDE DEF r
<1>3. r.whole = w
  BY <1>2, ResultFields
<1> QED
  BY <1>3 DEF r, w, t

(* The relocations of a branch.                                            *)
Patched ==
  \A r \in relocs, p \in placed :
    p.op = r.op /\ p.type = "BD" /\ p.size = 0 => r.v = p.held /\ r.at \in p.pieces

BranchInv ==
  /\ row \in BranchRows =>
       /\ \A p \in placed : p.op \in 1 .. i - 1
       /\ isize = 1 => \A p \in placed : ~p.whole
       /\ \A r \in relocs : r.op \in 1 .. i - 1
       /\ Patched
  /\ row \notin BranchRows => \A p \in placed : p.type # "BD"

LEMMA RelocsOfBranches ==
  ASSUME NEW s, NEW p, NEW r \in Relocs(s, "BD", p)
  PROVE  r.v = p.v /\ r.op = i /\ r.at \in BdPieces
<1>1. BranchRelocs("BD") # {} /\ BranchRelocs("BD") \subseteq BdPieces
  BY DEF BranchRelocs, BdPieces
<1>2. PICK m \in MakeReloc(s, "BD", Type(s, "BD", p), p.clr) :
          r = [op |-> i, v |-> p.v, line |-> m.line, at |-> m.at, type |-> m.type]
  BY DEF Relocs
<1>3. m.at \in BdPieces
  <2>1. PICK b \in BranchRelocs("BD") : m = [line |-> FALSE, at |-> b, type |-> Type(s, "BD", p)]
    BY <1>1 DEF MakeReloc
  <2> QED
    BY <1>1, <2>1
<1> QED
  BY <1>2, <1>3

LEMMA RelocsOfOperand ==
  ASSUME NEW s, NEW t, NEW p, NEW r \in Relocs(s, t, p)
  PROVE  r.op = i
  BY DEF Relocs

LEMMA BranchTypes ==
  ASSUME row \in BranchRows, NEW k \in 1 .. Len(row)
  PROVE  row[k] \in {"CRS", "BD"}
<1>1. CASE row = <<"BD">>
  BY <1>1
<1>2. CASE row = <<"CRS", "BD">>
  BY <1>2
<1> QED
  BY <1>1, <1>2 DEF BranchRows

LEMMA DataRows == data_items \cap BranchRows = {}
<1>1. \A d \in Directives : ppc_data_operand(d) # "BD"
  BY DEF Directives, ppc_data_operand
<1> QED
  BY <1>1 DEF data_items, BranchRows

LEMMA BranchOperand ==
  ASSUME TypeInv, BranchInv, NEW s \in Sources, EvalOperand(s)
  PROVE  BranchInv'
<1> DEFINE t == row[i]
           p == ParseOperand(s, t)
           r == Insertion(t, p.v, pool)
           h == Hold("self", t, p.v, r)
<1>1. /\ ~IsData /\ i <= Len(row) /\ row' = row /\ i' = i + 1 /\ isize' = isize
      /\ placed' = placed \cup {h}
      /\ relocs' = relocs \cup Relocs(s, t, p)
  BY DEF EvalOperand
<1>2. row \in Rows /\ Len(row) \in Nat /\ i \in 1 .. Len(row)
  BY <1>1, RowsAreFinite DEF TypeInv, IsData
<1>3. h.op = i /\ h.type = t /\ h.held = r.held /\ h.pieces = r.pieces /\ h.size = r.size /\ h.whole = r.whole
  BY HoldFields
<1>4. t = "BD" => TargetHeld(p.v, r)
  BY TargetsAreHeld
<1>5. t = "CRS" => ~r.whole
  BY ConditionsAreInserted
<1>6. \A m \in Relocs(s, t, p) : m.op = i /\ (t = "BD" => m.v = p.v /\ m.at \in BdPieces)
  BY RelocsOfOperand, RelocsOfBranches
<1>7. t = "BD" => row \in BranchRows
  BY <1>2, BranchesAreLast DEF BranchIsLast
<1>8. row \in BranchRows => t \in {"CRS", "BD"}
  BY <1>2, BranchTypes
<1> HIDE DEF h, r, p, t
<1>9. ASSUME row \in BranchRows
      PROVE  /\ \A q \in placed' : q.op \in 1 .. i' - 1
             /\ isize' = 1 => \A q \in placed' : ~q.whole
             /\ \A m \in relocs' : m.op \in 1 .. i' - 1
             /\ Patched'
  <2>1. /\ \A q \in placed : q.op \in 1 .. i - 1
        /\ isize = 1 => \A q \in placed : ~q.whole
        /\ \A m \in relocs : m.op \in 1 .. i - 1
        /\ Patched
    BY <1>9 DEF BranchInv
  <2>2. i' - 1 = i /\ i \in 1 .. i' - 1 /\ \A k \in 1 .. i - 1 : k \in 1 .. i' - 1 /\ k # i
    BY <1>1, <1>2
  <2>3. ~h.whole
    BY <1>3, <1>4, <1>5, <1>8, <1>9 DEF TargetHeld
  <2>4. ASSUME NEW m \in relocs', NEW q \in placed', q.op = m.op, q.type = "BD", q.size = 0
        PROVE  m.v = q.held /\ m.at \in q.pieces
    <3>1. CASE m \in relocs /\ q \in placed
      BY <2>1, <2>4, <3>1 DEF Patched
    <3>2. CASE m \in Relocs(s, t, p) /\ q = h
      BY <1>3, <1>4, <1>6, <2>4, <3>2 DEF TargetHeld
    <3>3. CASE m \in relocs /\ q = h
      BY <1>3, <2>1, <2>2, <2>4, <3>3
    <3>4. CASE m \in Relocs(s, t, p) /\ q \in placed
      BY <1>6, <2>1, <2>2, <2>4, <3>4
    <3> QED
      BY <1>1, <3>1, <3>2, <3>3, <3>4
  <2>5. Patched'
    BY <2>4 DEF Patched
  <2>6. \A q \in placed' : q.op \in 1 .. i' - 1
    BY <1>1, <1>3, <2>1, <2>2
  <2>7. \A m \in relocs' : m.op \in 1 .. i' - 1
    BY <1>1, <1>6, <2>1, <2>2
  <2> QED
    BY <1>1, <2>1, <2>3, <2>5, <2>6, <2>7
<1>10. ASSUME row \notin BranchRows
       PROVE  \A q \in placed' : q.type # "BD"
  BY <1>1, <1>3, <1>7, <1>10 DEF BranchInv
<1> QED
  BY <1>1, <1>9, <1>10 DEF BranchInv

LEMMA BranchFarBranch ==
  ASSUME TypeInv, BranchInv, NEW s \in Sources, EvalFarBranch(s)
  PROVE  BranchInv'
<1> DEFINE t == row[i]
           p == ParseOperand(s, t)
           v == Neg(Neg(p.v) \cup {2})
           r == Insertion("LI", v, pool)
           h == Hold("self", "LI", v, r)
<1>1. /\ i <= Len(row) /\ row' = row /\ i' = i + 1 /\ isize' = 2
      /\ placed' = {h} /\ relocs' = relocs \cup Relocs(s, t, p)
  BY DEF EvalFarBranch
<1>2. i \in Nat \ {0}
  BY <1>1, RowsAreFinite DEF TypeInv
<1>3. h.op = i /\ h.type = "LI"
  BY HoldFields
<1>4. \A m \in Relocs(s, t, p) : m.op = i
  BY RelocsOfOperand
<1> HIDE DEF h, r, v, p, t
<1>5. Patched' /\ \A q \in placed' : q.type # "BD" /\ q.op \in 1 .. i' - 1
  BY <1>1, <1>2, <1>3 DEF Patched
<1>6. row \in BranchRows => \A m \in relocs' : m.op \in 1 .. i' - 1
  <2>1. i \in 1 .. i' - 1 /\ \A k \in 1 .. i - 1 : k \in 1 .. i' - 1
    BY <1>1, <1>2
  <2> QED
    BY <1>1, <1>4, <2>1 DEF BranchInv
<1> QED
  BY <1>1, <1>5, <1>6 DEF BranchInv

LEMMA BranchMemory ==
  ASSUME TypeInv, BranchInv, NEW s \in Sources, EvalMemory(s)
  PROVE  BranchInv'
<1> DEFINE t == row[i]
           p == ParseOperand(s, t)
           base == IF t = "DBRS" THEN "BRS" ELSE "RA"
           d == Insertion(t, p.v, pool)
           b == Insertion(base, p.base, pool \o SizeOf(d))
           x == Insertion("RB", p.ndx, pool \o SizeOf(d))
           hd == Hold("disp", t, p.v, d)
           hb == Hold("base", base, p.base, b)
           hx == Hold("ndx", "RB", p.ndx, x)
<1>1. /\ ~IsData /\ i <= Len(row) /\ row' = row /\ "PARENS" \in powerpc_operands[t].flags
      /\ placed' = placed \cup {hd, hb} \cup (IF p.ndx = {} THEN {} ELSE {hx})
  BY DEF EvalMemory
<1>2. row \in Rows /\ Len(row) \in Nat /\ i \in 1 .. Len(row)
  BY <1>1, RowsAreFinite DEF TypeInv, IsData
<1>3. t \in {"D", "DX", "SCNDX", "DBRS"}
  BY <1>1, <1>2, OperandType, ParensAreNumbers
<1>4. row \notin BranchRows
  BY <1>2, <1>3, BranchTypes
<1>5. hd.type = t /\ hb.type = base /\ hx.type = "RB"
  BY HoldFields
<1>6. t # "BD" /\ base # "BD"
  BY <1>3
<1> HIDE DEF hd, hb, hx, p, t, base
<1>7. \A q \in placed' : q.type # "BD"
  BY <1>1, <1>4, <1>5, <1>6 DEF BranchInv
<1> QED
  BY <1>1, <1>4, <1>7 DEF BranchInv

LEMMA BranchData ==
  ASSUME TypeInv, BranchInv, NEW s \in Sources, EvalData(s)
  PROVE  BranchInv'
<1> DEFINE form == IF row[1] \in {"F32", "F64"} /\ s.form = "num" THEN "flt" ELSE s.form
           at == StarkDataPieces(form, BigEndian, RelocBits[row[1]])
           h == Hold("self", row[1], s.v, InField(s.v, at))
<1>1. IsData /\ placed' = {h} /\ row' = row
  BY DEF EvalData
<1>2. row \notin BranchRows
  BY <1>1, DataRows DEF IsData
<1>3. h.type = row[1]
  BY HoldFields
<1>4. row[1] # "BD"
  BY <1>1, <1>2 DEF IsData, data_items, BranchRows
<1> HIDE DEF h
<1> QED
  BY <1>1, <1>2, <1>3, <1>4 DEF BranchInv

LEMMA BranchNext ==
  ASSUME TypeInv, BranchInv, [Next]_vars
  PROVE  BranchInv'
<1>1. CASE UNCHANGED vars
  BY <1>1 DEF vars, BranchInv, Patched
<1> QED
  BY <1>1, BranchOperand, BranchFarBranch, BranchMemory, BranchData DEF Next

(* RelocsPatchTheField: the relocations of a conditional branch name bits  *)
(* of the address where the branch has them, for every target.             *)
THEOREM RelocsNameTheirBits == Spec => []RelocsPatchTheField
<1>1. Init => BranchInv
  BY DEF Init, BranchInv, Patched
<1>2. Init => ReadInv
  BY ReadInit
<1>3. TypeInv /\ [Next]_vars => TypeInv'
  BY TypeNext
<1>4. TypeInv /\ ReadInv /\ [Next]_vars => ReadInv'
  BY ReadNext
<1>5. TypeInv /\ BranchInv /\ [Next]_vars => BranchInv'
  BY BranchNext
<1>6. ReadInv /\ BranchInv => RelocsPatchTheField
  <2> SUFFICES ASSUME ReadInv, BranchInv, errors = {}, isize = 1,
                      NEW r \in relocs, NEW p \in placed,
                      p.op = r.op, p.type = "BD", p.size = 0
               PROVE  Get(word, {r.at}) = r.v \cap Carried({r.at})
    BY DEF RelocsPatchTheField
  <2>1. row \in BranchRows
    BY DEF BranchInv
  <2>2. row \notin SharedRows
    BY <2>1 DEF BranchRows, SharedRows
  <2>3. Clean /\ r.v = p.held /\ r.at \in p.pieces
    BY <2>1 DEF BranchInv, Clean, Patched
  <2>4. InPlace(p, word)
    BY <2>2, <2>3 DEF ReadInv
  <2> QED
    BY <2>3, <2>4, InPlaceReads
<1> QED
  BY TypeInit, <1>1, <1>2, <1>3, <1>4, <1>5, <1>6, PTL DEF Spec
=============================================================================
