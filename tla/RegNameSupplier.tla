-------------------------- MODULE RegNameSupplier --------------------------
(***************************************************************************)
(* The supplier of physical register names of the Qupls4 rename stage      *)
(* (reg_name_supplier9), together with the decode group it serves and the  *)
(* instructions that hold the names.                                       *)
(*                                                                         *)
(* The physical registers are split into pools; a destination register     *)
(* takes its new name from the pool its number selects.  Four slots of a   *)
(* group are served in one clock by four find-first-one circuits.  Names   *)
(* given back pass through a delay line before they are available again.   *)
(***************************************************************************)
EXTENDS Naturals, FiniteSets

CONSTANTS
  NPOOL,    \* pools of names
  PSIZE,    \* names in a pool
  DELAY,    \* stages of the delay line of freed names
  NFTAGS,   \* names freed per clock
  MAPPED    \* architectural registers of a pool

ASSUME SizeAssumption ==
  /\ NPOOL \in Nat \ {0}
  /\ PSIZE \in Nat \ {0}
  /\ DELAY \in Nat \ {0}
  /\ NFTAGS \in Nat
  /\ MAPPED \in Nat

VARIABLES
  avail,       \* available names of each pool
  stall,       \* registered: a slot found no name
  vtdl,        \* delay line of freed names, entry DELAY-1 is its output
  dec,         \* pool each slot of the decode group takes a name from
  holders,     \* number of instructions holding a name
  aliased,     \* history: one name was handed to two slots
  short        \* history: a group advanced with a slot left without a name

supplierVars == <<avail, stall, vtdl>>
vars == <<supplierVars, dec, holders, aliased, short>>

Slots == 0 .. 3
Pools == 0 .. NPOOL - 1
Regs == 0 .. PSIZE - 1
Names == Pools \X Regs
NoPool == NPOOL              \* the slot has no destination to rename
NoReg == PSIZE               \* all-ones code of find-first-one
Stages == 0 .. DELAY - 1

-----------------------------------------------------------------------------
(* Choice of the names.                                                    *)

(* Find-first-one searches from the most significant bit.                  *)
Ffo(s) == IF s = {} THEN NoReg ELSE CHOOSE r \in s : \A q \in s : q <= r

(* The output of each circuit excludes only the choice of the one before.  *)
Ffo1(s) == Ffo(s \ {Ffo(s)})
Ffo2(s) == Ffo(s \ {Ffo1(s)})
Ffo3(s) == Ffo(s \ {Ffo2(s)})
Choice(i, s) == CASE i = 0 -> Ffo(s) [] i = 1 -> Ffo1(s)
                  [] i = 2 -> Ffo2(s) [] i = 3 -> Ffo3(s)

(* Only the low bits of the code reach the name, so the code for "none"    *)
(* reads as the last register of the pool.                                 *)
LowBits(code) == IF code = NoReg THEN PSIZE - 1 ELSE code

Req(i) == dec[i] # NoPool
Code(i) == Choice(i, avail[dec[i]])
Name(i) == <<dec[i], LowBits(Code(i))>>             \* o[i]
IsAvail(i) == Name(i)[2] \in avail[dec[i]]
NoFree(i) == Code(i) = NoReg

NextStall == \E i \in Slots : Req(i) /\ (~IsAvail(i) \/ NoFree(i))
Ov(i) == Req(i) /\ IsAvail(i)      \* the term kept while en is low pops nothing

-----------------------------------------------------------------------------
(* One clock.                                                              *)

Popped(en) == {Name(i) : i \in {j \in Slots : en /\ Ov(j)}}
PoppedTwice(en) ==
  \E i, j \in Slots : i # j /\ en /\ Ov(i) /\ Ov(j) /\ Name(i) = Name(j)

PopsEvenStalled(en) ==       \* mutant: names leave the bitmap without an advance
  [p \in Pools |->
     (avail[p] \ {r \in Regs : <<p, r>> \in Popped(TRUE)})
       \cup {r \in Regs : <<p, r>> \in vtdl[DELAY - 1]}]

NextAvail(en) ==
  [p \in Pools |->
     (avail[p] \ {r \in Regs : <<p, r>> \in Popped(en)})
       \cup {r \in Regs : <<p, r>> \in vtdl[DELAY - 1]}]

(* The delay line is clocked every cycle, whether or not names are freed.  *)
DropsFreed(freed) ==         \* mutant: freed names are lost when the pipeline is stalled
  [k \in Stages |-> IF k = 0 THEN (IF stall THEN {} ELSE freed) ELSE vtdl[k - 1]]

NextVtdl(freed) == [k \in Stages |-> IF k = 0 THEN freed ELSE vtdl[k - 1]]

(* Instructions hold the names their group advanced with; committing ones  *)
(* give back names.                                                        *)
Holds(i, n, en) == en /\ Ov(i) /\ Name(i) = n
NewHolders(n, en) == Cardinality({i \in Slots : Holds(i, n, en)})
Held(p) == {n \in Names : n[1] = p /\ holders[n] > 0}

(* The decode group stands still unless the pipeline advances, which it    *)
(* does not do in a clock where stall is raised.  Histories are followed   *)
(* up to the first clock that hands one name to two slots.                 *)
Clock(en, freed) ==
  /\ ~aliased
  /\ en => ~stall
  /\ stall' = NextStall
  /\ avail' = NextAvail(en)
  /\ vtdl' = NextVtdl(freed)
  /\ IF en THEN dec' \in [Slots -> Pools \cup {NoPool}] ELSE UNCHANGED dec
  /\ holders' = [n \in Names |-> (holders[n] - (IF n \in freed THEN 1 ELSE 0))
                                   + NewHolders(n, en)]
  /\ aliased' = (aliased \/ PoppedTwice(en))
  /\ short' = (short \/ (en /\ \E i \in Slots : Req(i) /\ ~Ov(i)))

Freeable == {f \in SUBSET {n \in Names : holders[n] > 0} : Cardinality(f) <= NFTAGS}

ResetOneMore ==              \* mutant: one bit too many is set at reset
  [p \in Pools |-> 0 .. PSIZE]

ResetAvail == [p \in Pools |-> Regs]

Init ==
  /\ avail = ResetAvail
  /\ stall = FALSE
  /\ vtdl = [k \in Stages |-> {}]
  /\ dec = [i \in Slots |-> NoPool]
  /\ holders = [n \in Names |-> 0]
  /\ aliased = FALSE /\ short = FALSE

ClockEdge == \E en \in BOOLEAN, freed \in Freeable : Clock(en, freed)

(* The history is not followed further once a name is shared.              *)
HistoryEnds == aliased /\ UNCHANGED vars

Next == ClockEdge \/ HistoryEnds

(* Instructions in flight commit, so a pool from which more names are held *)
(* than it has registers to map gets some of them back.                    *)
Reclaim(p) ==
  /\ Cardinality(Held(p)) > MAPPED
  /\ \E en \in BOOLEAN, freed \in Freeable :
       (\E n \in freed : n[1] = p) /\ Clock(en, freed)

Spec == Init /\ [][Next]_vars /\ WF_vars(ClockEdge) /\ \A p \in Pools : WF_vars(Reclaim(p))

-----------------------------------------------------------------------------
(* Properties.                                                             *)

(* The bitmaps and the delay line only hold names, and every other         *)
(* register and counter has its type.                                      *)
TypeOK ==
  /\ avail \in [Pools -> SUBSET Regs]
  /\ stall \in BOOLEAN
  /\ vtdl \in [Stages -> SUBSET Names]
  /\ dec \in [Slots -> Pools \cup {NoPool}]
  /\ holders \in [Names -> Nat]
  /\ aliased \in BOOLEAN /\ short \in BOOLEAN

(* Where a name is: in the bitmap, with one instruction, or in one stage   *)
(* of the delay line, and always in exactly one of these places.           *)
InBitmap(n) == n[2] \in avail[n[1]]
InStage(n, k) == n \in vtdl[k]
OnePlace(n) ==
  /\ holders[n] \in {0, 1}
  /\ InBitmap(n) => holders[n] = 0 /\ \A k \in Stages : ~InStage(n, k)
  /\ \A k \in Stages : InStage(n, k) =>
       holders[n] = 0 /\ \A j \in Stages \ {k} : ~InStage(n, j)
  /\ InBitmap(n) \/ holders[n] > 0 \/ \E k \in Stages : InStage(n, k)

(* No name is lost, handed out while an instruction holds it, or reused    *)
(* before it left the delay line, as long as no clock handed one name to   *)
(* two slots.                                                              *)
NamesPartition == ~aliased => \A n \in Names : OnePlace(n)

(* A stalled supplier finds names again once the instructions in flight    *)
(* have committed, unless the history ends in a shared name.               *)
StallEnds == stall ~> (~stall \/ aliased)

(* The supplier is a pool of names: a name that instructions hold, or that *)
(* is in the delay line, is not given out, and one that leaves the bitmap  *)
(* is with an instruction after the same clock, stalled or not.  The clock *)
(* that gives one name to two slots still is a step of the pool.           *)
Pool == INSTANCE NamePool WITH
          free <- {n \in Names : InBitmap(n)},
          held <- {n \in Names : holders[n] > 0}
IsNamePool == Pool!Spec

(* The same register is never handed out on two ports in one clock.        *)
NoMatchingPorts == ~aliased

(* A group does not advance while one of its slots has no name available.  *)
NoGroupLeftShort == ~short
=============================================================================
