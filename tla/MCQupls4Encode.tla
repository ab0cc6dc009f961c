--------------------------- MODULE MCQupls4Encode ---------------------------
(***************************************************************************)
(* Source operands on both sides of every limit of the Qupls4 back end     *)
(***************************************************************************)
EXTENDS Qupls4Encode

(* The field limits of 7, 16, 17, 25, 34, 46, 55 and 56 bits               *)
MCValues == {{2, 3}, {6}, {7}, {17}, {24}, {25}, {46}, {56}}
                \cup {n..63 : n \in {6, 7, 16, 24, 46, 56}}
(* The second label is 2^17 bytes away from an instruction at 16           *)
MCLabels == {{3}, {4, 17}}
MCExternals == {{3}, {40}}

Imm(form, v) == [t |-> "imm", form |-> form, v |-> v, attr |-> ""]
Mem(t, ndx, scale, form, v) ==
    [t |-> t, base |-> <<"r", 37>>, ndx |-> ndx, scale |-> scale, form |-> form, v |-> v,
     attr |-> ""]

MCSources ==
    {[t |-> "reg", name |-> n] : n \in {Plain("ip"), <<"r", 37>>}}
    \cup {[t |-> "vm", n |-> 5, z |-> TRUE], [t |-> "lk", n |-> 1],
          [t |-> "pred", s |-> <<"T", "F", "I", "T">>]}
    \cup {Imm("num", v) : v \in MCValues}
    \cup {Imm("lab", v) : v \in MCLabels} \cup {Imm("ext", v) : v \in MCExternals}
    \cup {Mem("mem", <<>>, 0, form, v) : form \in {"num", "ext"}, v \in MCValues}
    \cup {Mem(t, <<"s", 2>>, k, "num", v) : t \in {"mem", "ind"}, k \in {1, 8, 16}, v \in MCValues}
    \cup {[Imm("ext", {3}) EXCEPT !.attr = "plt"],
          [Mem("mem", <<>>, 0, "ext", {40}) EXCEPT !.base = <<"r", 29>>]}

(* The second one is no register                                           *)
MCSdDirectives == <<37, 64>>
MCPcs == {{}, {4}}
=============================================================================
