--------------------------- MODULE MCStarkEncode ---------------------------
(***************************************************************************)
(* Source operands on both sides of every limit of the Stark back end      *)
(***************************************************************************)
EXTENDS StarkEncode

Reg(n) == [n |-> n, suffix |-> "none", numbered |-> FALSE]
SuffixReg(n, s) == [n |-> n, suffix |-> s, numbered |-> FALSE]

(* One general register, one branch, one condition, one floating point     *)
MCRegs == {Reg(21), Reg(39), SuffixReg(57, "lt"), Reg(95)}

(* Multiples of four, as bit sets: the limits of the 5, 13, 14, 25 and 32  *)
(* bit fields                                                              *)
MCValues ==
    {2..3, 2..11, {12}, {13}, 2..23, {31}, {40}} \cup {n..63 : n \in {12, 13, 14, 31, 40}}

(* A small one, one that is no multiple of four, and a register number     *)
(* with the bit that insert_mvrd and insert_mvrs have no place for         *)
SmallValues == {{2}, {0, 3}, {7}}

MCSources ==
    {[t |-> "reg", r |-> r] : r \in MCRegs}
    \cup {[t |-> "list", items |-> <<<<17, 17>>, <<3, 6>>>>]}
    \cup {[t |-> "expr", form |-> "num", v |-> v, attr |-> "none"] : v \in MCValues}
    \cup {[t |-> "expr", form |-> "num", v |-> v, attr |-> "none"] : v \in SmallValues}
    \cup {[t |-> "expr", form |-> form, v |-> v, attr |-> "none"] :
             form \in {"sym", "ext"}, v \in {2..3, {13}}}
    \cup {[t |-> "expr", form |-> "ext", v |-> 2..3, attr |-> "plt"]}
    \cup {[t |-> "mem", form |-> "num", v |-> v, attr |-> "none",
            base |-> b, indexed |-> x, ndx |-> Reg(21)] :
             v \in MCValues \cup {{4}}, b \in {Reg(1), Reg(35)}, x \in BOOLEAN}

(* The second one is no register                                           *)
MCSdDirectives == <<1, 32>>
MCSd2Directives == <<>>
=============================================================================
