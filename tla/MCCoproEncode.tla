---------------------------- MODULE MCCoproEncode ----------------------------
(***************************************************************************)
(* Source operands on both sides of every limit of the coprocessor's       *)
(* assembler back end: 4, 14, 15, 32 and 33 bits, and the two escapes      *)
(***************************************************************************)
EXTENDS CoproEncode

MCValues ==
    {{}, {3}, {0, 4}, {13}, {14}, {0, 15}, {31}, {32}, {2, 40}}
        \cup {n..63 : n \in {0, 3, 4, 5, 13, 14, 15, 31, 32}}
        \cup {{0} \cup 14..63}

Imm(form, v, attr) == [t |-> "imm", form |-> form, v |-> v, attr |-> attr]
Symbols == {{2, 7}, {15}, {2, 20}, {5, 33}}

MCSources ==
    {[t |-> "reg", name |-> n] : n \in {<<"r", 5>>, <<"r", 10>>, <<"gp", -1>>, <<"s", 1>>, <<"r", 29>>}}
    \cup {Imm("num", v, "") : v \in MCValues}
    \cup {Imm("ext", v, attr) : v \in Symbols, attr \in {"", "got", "sdax", "local"}}
    \cup {[t |-> "mem", base |-> b, form |-> form, v |-> v, attr |-> ""] :
            b \in {<<"r", 6>>, <<"r", 29>>}, form \in {"num", "ext"}, v \in {{}, {2, 7}, 13..63, {0, 15}}}
    \cup {[t |-> "mem", base |-> <<"r", 6>>, form |-> "ext", v |-> {2, 7}, attr |-> "got"]}

(* The second one is no register                                           *)
MCSdDirectives == <<6, 64>>
=============================================================================
