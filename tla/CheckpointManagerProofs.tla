---------------------- MODULE CheckpointManagerProofs ----------------------
(***************************************************************************)
(* For every number of groups and checkpoints, whether or not the headers  *)
(* mark their branches: the registers keep their types, and the allocator  *)
(* hands out checkpoint 1 each time, as it takes nothing out of its        *)
(* bitmap.  In the core as wired only checkpoint 0 is used at all.  The    *)
(* last two are why BranchesHaveDistinctCheckpoints fails.                 *)
(***************************************************************************)
EXTENDS CheckpointManager, TLAPS

(* The bitmap of available checkpoints stays what it was at reset, since   *)
(* the allocator does not take an index out of it (line 118).              *)
PoolIsStatic == avail_chkpts = Checkpts \ {0} /\ ~Stall

(* No register map but that of checkpoint 0 is named by the manager, a     *)
(* header or an entry of the re-order buffer.                              *)
OnlyCheckpointZero ==
  /\ cndx = 0
  /\ \A g \in Groups : pgh[g].cndx = 0 /\ rob_cndx[g] = 0

(* The allocator's output and the current index only take two values.      *)
OnlyCheckpointOne == chkptn \in {0, 1}

IInv == TypeOK /\ PoolIsStatic /\ OnlyCheckpointOne

(* The remainder of a natural number is a group index.                     *)
LEMMA ModInGroups == \A a \in Nat : a % NGRP \in Groups
  BY SizeAssumption DEF Groups

(* With nothing taken out of the bitmap the first available index is 1.    *)
LEMMA FirstIsOne == FirstAvail(Checkpts \ {0}) = 1
<1>1. 1 \in Checkpts \ {0} /\ \A d \in Checkpts \ {0} : 1 <= d
  BY SizeAssumption DEF Checkpts
<1>2. \A c \in Checkpts \ {0} : (\A d \in Checkpts \ {0} : c <= d) => c = 1
  BY <1>1, SizeAssumption DEF Checkpts
<1> QED
  BY <1>1, <1>2 DEF FirstAvail

(* The groups younger than a group are groups.                             *)
LEMMA YoungerAreGroups ==
  ASSUME groupno \in Groups, NEW g \in Groups
  PROVE  Younger(g) \subseteq Groups
<1> DEFINE n == (groupno + NGRP - g - 1) % NGRP
<1>1. groupno + NGRP - g - 1 \in Nat
  BY SizeAssumption DEF Groups
<1>2. n \in Groups
  BY <1>1, ModInGroups
<1>3. ASSUME NEW k \in 1 .. n PROVE Back(k) \in Groups
  <2>1. groupno + NGRP - k \in Nat
    BY <1>2, <1>3, SizeAssumption DEF Groups
  <2> QED
    BY <2>1, ModInGroups DEF Back
<1> QED
  BY <1>3 DEF Younger

LEMMA InitIInv == Init => IInv
<1> SUFFICES ASSUME Init PROVE IInv
  OBVIOUS
<1>1. TypeOK
  <2>1. 0 \in Groups /\ 0 \in Checkpts
    BY SizeAssumption DEF Groups, Checkpts
  <2>2. 0 \in 0 .. NGRP /\ 0 \in 0 .. MinExec
    BY SizeAssumption
  <2>3. pgh \in [Groups -> [v : BOOLEAN, has_branch : BOOLEAN,
                           cndxv : BOOLEAN, cndx : Checkpts]]
    BY <2>1 DEF Init
  <2> QED
    BY <2>1, <2>2, <2>3 DEF Init, TypeOK
<1>2. PoolIsStatic
  BY FirstIsOne, SizeAssumption DEF Init, PoolIsStatic, Stall, NoCheckpt
<1> QED
  BY <1>1, <1>2 DEF IInv, Init, OnlyCheckpointOne

(* One clock of the allocator leaves the bitmap as it was.                 *)
LEMMA AllocatorKeepsPool ==
  ASSUME TypeOK, PoolIsStatic, OnlyCheckpointOne, AllocatorStep
  PROVE  /\ avail_chkpts' = Checkpts \ {0}
         /\ PoolIsStatic'
         /\ chkptn' \in {0, 1}
<1>1. avail_chkpts' = Checkpts \ {0}
  BY DEF AllocatorStep, PoolIsStatic, ChkptsToFree
<1>2. Stall' = FALSE
  BY <1>1, FirstIsOne, SizeAssumption DEF Stall, NoCheckpt
<1>3. chkptn' \in {0, 1}
  BY FirstIsOne DEF AllocatorStep, PoolIsStatic, OnlyCheckpointOne
<1> QED
  BY <1>1, <1>2, <1>3 DEF PoolIsStatic

(* One clock of the rest of the core preserves the types of its registers. *)
LEMMA CoreTypes ==
  ASSUME TypeOK, Core
  PROVE  /\ pgh' \in [Groups -> [v : BOOLEAN, has_branch : BOOLEAN,
                                 cndxv : BOOLEAN, cndx : Checkpts]]
         /\ groupno' \in Groups /\ cndx_ren' \in Checkpts
         /\ rob_br' \in [Groups -> BOOLEAN]
         /\ rob_cndx' \in [Groups -> Checkpts]
         /\ occ' \in 0 .. NGRP /\ ready' \in [Groups -> 0 .. MinExec]
         /\ stomped' \in SUBSET Groups /\ restore' \in Groups \cup {NoGroup}
<1> PICK adv \in BOOLEAN, br \in BOOLEAN, live \in BOOLEAN, ret \in BOOLEAN,
         res \in Groups \cup {NoGroup} :
        CoreStep(adv, br, live, ret, res)
  BY DEF Core
<1>1. pgh' \in [Groups -> [v : BOOLEAN, has_branch : BOOLEAN,
                           cndxv : BOOLEAN, cndx : Checkpts]]
  <2> DEFINE H == [v : BOOLEAN, has_branch : BOOLEAN, cndxv : BOOLEAN, cndx : Checkpts]
             new == [v |-> TRUE, has_branch |-> MarksBranches /\ br, cndxv |-> FALSE, cndx |-> cndx_ren]
             enq == IF adv THEN [pgh EXCEPT ![groupno] = new] ELSE pgh
  <2>1. new \in H
    BY DEF TypeOK
  <2>2. enq \in [Groups -> H]
    BY <2>1 DEF TypeOK
  <2>3. [enq EXCEPT ![setcp_grp].cndx = cndx, ![setcp_grp].cndxv = TRUE] \in [Groups -> H]
    <3>1. setcp_grp \in Groups /\ cndx \in Checkpts
      BY DEF TypeOK
    <3>2. \A f \in [Groups -> H] : [f EXCEPT ![setcp_grp].cndx = cndx] \in [Groups -> H]
      BY <3>1
    <3>3. \A f \in [Groups -> H] : [f EXCEPT ![setcp_grp].cndxv = TRUE] \in [Groups -> H]
      BY <3>1
    <3>4. [enq EXCEPT ![setcp_grp].cndx = cndx] \in [Groups -> H]
      BY <2>2, <3>2
    <3> QED
      BY <3>3, <3>4
  <2>4. pgh' = IF setcp THEN [enq EXCEPT ![setcp_grp].cndx = cndx, ![setcp_grp].cndxv = TRUE]
                       ELSE enq
    BY DEF CoreStep, NextPgh
  <2> QED
    BY <2>2, <2>3, <2>4
<1>2. groupno' \in Groups
  <2>1. groupno + 1 \in Nat
    BY DEF TypeOK, Groups
  <2> QED
    BY <2>1, ModInGroups DEF CoreStep, TypeOK
<1>3. cndx_ren' \in Checkpts /\ rob_br' \in [Groups -> BOOLEAN] /\ rob_cndx' \in [Groups -> Checkpts]
  BY DEF TypeOK, CoreStep
<1>4. occ' \in 0 .. NGRP
  BY SizeAssumption DEF TypeOK, CoreStep, MayRetire
<1>5. ready' \in [Groups -> 0 .. MinExec]
  BY SizeAssumption DEF TypeOK, CoreStep
<1>6. stomped' \in SUBSET Groups
  BY YoungerAreGroups, SizeAssumption DEF TypeOK, CoreStep, NoGroup
<1>7. restore' \in Groups \cup {NoGroup}
  BY DEF CoreStep
<1> QED
  BY <1>1, <1>2, <1>3, <1>4, <1>5, <1>6, <1>7

(* Every step preserves the invariant.                                     *)
LEMMA StepIInv == IInv /\ [Next]_vars => IInv'
<1> SUFFICES ASSUME IInv, [Next]_vars PROVE IInv'
  OBVIOUS
<1> USE DEF IInv
<1>1. CASE UNCHANGED vars
  BY <1>1 DEF vars, managerVars, allocatorVars, headerVars, coreVars,
     TypeOK, PoolIsStatic, OnlyCheckpointOne, Stall
<1>2. CASE Next
  <2>1. AllocatorStep
    BY <1>2 DEF Next
  <2>2. avail_chkpts' = Checkpts \ {0} /\ PoolIsStatic' /\ chkptn' \in {0, 1}
    BY <2>1, AllocatorKeepsPool
  <2>3. {0, 1} \subseteq Checkpts
    BY SizeAssumption DEF Checkpts
  <2>4. Core
    BY <1>2 DEF Next, ManagerStep, IdleServe, IdleWait, Alloc1, Alloc2, SetGroup
  <2>5. /\ state' \in {"IDLE", "ALLOC1", "ALLOC2", "SET"}
        /\ setcp' \in BOOLEAN /\ ialloc_chkpt' \in BOOLEAN /\ alloc_chkpt' \in BOOLEAN
        /\ setcp_grp' \in Groups /\ cndx' \in Checkpts
    <3>1. CASE IdleServe
      BY <3>1 DEF IdleServe, BackUp, Service, TypeOK
    <3>2. CASE IdleWait
      BY <3>2 DEF IdleWait, BackUp, TypeOK
    <3>3. CASE Alloc1
      BY <3>3 DEF Alloc1, TypeOK
    <3>4. CASE Alloc2
      BY <3>4 DEF Alloc2, TypeOK, PoolIsStatic
    <3>5. CASE SetGroup
      BY <3>5 DEF SetGroup, TypeOK
    <3> QED
      BY <1>2, <3>1, <3>2, <3>3, <3>4, <3>5 DEF Next, ManagerStep
  <2>6. TypeOK'
    BY <2>2, <2>3, <2>4, <2>5, CoreTypes DEF TypeOK
  <2> QED
    BY <2>2, <2>6 DEF OnlyCheckpointOne
<1> QED
  BY <1>1, <1>2

(* Every register of manager, allocator and headers keeps its type, for all*)
(* sizes: the index of a group or a branch is always one of a checkpoint.  *)
THEOREM CheckpointTypes == Spec => []TypeOK
<1>1. IInv => TypeOK
  BY DEF IInv
<1> QED
  BY InitIInv, StepIInv, <1>1, PTL DEF Spec

(* Whether or not headers mark their branches, the allocator hands out     *)
(* checkpoint 1 to every branch: its register never holds anything but 1   *)
(* or, before the first allocation, 0 (allocator, line 118).               *)
THEOREM AllocatorHandsOutOne == Spec => [](chkptn \in {0, 1})
<1>1. IInv => chkptn \in {0, 1}
  BY DEF IInv, OnlyCheckpointOne
<1> QED
  BY InitIInv, StepIInv, <1>1, PTL DEF Spec

-----------------------------------------------------------------------------
(* The core as wired.  A header without a branch is served by SET, which   *)
(* rewrites the current index, and only a branch raises ialloc_chkpt.      *)

HeaderAtZero(h) == ~h.has_branch /\ h.cndx = 0

ZeroInv ==
  /\ state \in {"IDLE", "SET"} /\ ~ialloc_chkpt
  /\ chkptn = 0 /\ cndx = 0 /\ cndx_ren = 0
  /\ \A g \in Groups : HeaderAtZero(pgh[g]) /\ rob_cndx[g] = 0

(* What the core writes into the headers and the re-order buffer.          *)
LEMMA CoreStaysAtZero ==
  ASSUME TypeOK, ZeroInv, ~MarksBranches, Core
  PROVE  /\ cndx_ren' = 0
         /\ \A g \in Groups : HeaderAtZero(pgh'[g]) /\ rob_cndx'[g] = 0
<1> PICK adv \in BOOLEAN, br \in BOOLEAN, live \in BOOLEAN, ret \in BOOLEAN,
         res \in Groups \cup {NoGroup} :
        CoreStep(adv, br, live, ret, res)
  BY DEF Core
<1>1. cndx_ren' = 0 /\ \A g \in Groups : rob_cndx'[g] = 0
  BY DEF CoreStep, ZeroInv, TypeOK
<1> DEFINE H == [v : BOOLEAN, has_branch : BOOLEAN, cndxv : BOOLEAN, cndx : Checkpts]
           new == [v |-> TRUE, has_branch |-> MarksBranches /\ br, cndxv |-> FALSE, cndx |-> cndx_ren]
           enq == IF adv THEN [pgh EXCEPT ![groupno] = new] ELSE pgh
<1>2. pgh' = IF setcp THEN [enq EXCEPT ![setcp_grp].cndx = cndx, ![setcp_grp].cndxv = TRUE]
                      ELSE enq
  BY DEF CoreStep, NextPgh
<1>3. new \in H /\ HeaderAtZero(new)
  BY SizeAssumption DEF ZeroInv, TypeOK, HeaderAtZero
<1>4. enq \in [Groups -> H] /\ \A g \in Groups : HeaderAtZero(enq[g])
  BY <1>3 DEF ZeroInv, TypeOK
<1>5. \A h \in H : HeaderAtZero(h) => HeaderAtZero([h EXCEPT !.cndx = cndx, !.cndxv = TRUE])
  BY DEF HeaderAtZero, ZeroInv
<1>6. \A g \in Groups : HeaderAtZero(pgh'[g])
  <2> SUFFICES ASSUME NEW g \in Groups PROVE HeaderAtZero(pgh'[g])
    OBVIOUS
  <2>1. CASE ~setcp \/ g # setcp_grp
    BY <2>1, <1>2, <1>4
  <2>2. CASE setcp /\ g = setcp_grp
    <3>1. pgh'[g] = [enq[g] EXCEPT !.cndx = cndx, !.cndxv = TRUE]
      BY <2>2, <1>2, <1>4
    <3>2. enq[g] \in H /\ HeaderAtZero(enq[g])
      BY <1>4
    <3> QED
      BY <3>1, <3>2, <1>5
  <2> QED
    BY <2>1, <2>2
<1> QED
  BY <1>1, <1>6

LEMMA InitZero == Init => ZeroInv
  BY DEF Init, ZeroInv, HeaderAtZero

LEMMA StepZero ==
  ASSUME ~MarksBranches
  PROVE  IInv /\ ZeroInv /\ [Next]_vars => ZeroInv'
<1> SUFFICES ASSUME IInv, ZeroInv, [Next]_vars PROVE ZeroInv'
  OBVIOUS
<1>1. CASE UNCHANGED vars
  BY <1>1 DEF vars, managerVars, allocatorVars, headerVars, coreVars, ZeroInv
<1>2. CASE Next
  <2>1. chkptn' = 0
    BY <1>2 DEF Next, AllocatorStep, ZeroInv
  <2>2. Core
    BY <1>2 DEF Next, ManagerStep, IdleServe, IdleWait, Alloc1, Alloc2, SetGroup
  <2>3. cndx_ren' = 0 /\ \A g \in Groups : HeaderAtZero(pgh'[g]) /\ rob_cndx'[g] = 0
    BY <2>2, CoreStaysAtZero DEF IInv
  <2>4. state' \in {"IDLE", "SET"} /\ ~ialloc_chkpt' /\ cndx' = 0
    <3>1. BackUp => cndx' = 0
      <4>1. \A g \in Groups \cup {NoGroup} : g # NoGroup => g \in Groups
        OBVIOUS
      <4> QED
        BY <4>1 DEF BackUp, ZeroInv, IInv, TypeOK
    <3>2. CASE IdleServe
      <4>1. PICK g \in Groups : state' = Service(g)
        BY <3>2 DEF IdleServe
      <4>2. state' = "SET"
        BY <4>1 DEF Service, ZeroInv, HeaderAtZero
      <4>3. ~ialloc_chkpt'
        BY <3>2 DEF IdleServe, Wanted, ZeroInv, HeaderAtZero
      <4> QED
        BY <4>2, <4>3, <3>1, <3>2 DEF IdleServe
    <3>3. CASE IdleWait
      BY <3>1, <3>3 DEF IdleWait, ZeroInv
    <3>4. CASE Alloc1
      BY <3>4 DEF Alloc1, ZeroInv
    <3>5. CASE Alloc2
      BY <3>5 DEF Alloc2, ZeroInv
    <3>6. CASE SetGroup
      BY <3>6 DEF SetGroup, ZeroInv
    <3> QED
      BY <1>2, <3>2, <3>3, <3>4, <3>5, <3>6 DEF Next, ManagerStep
  <2> QED
    BY <2>1, <2>3, <2>4 DEF ZeroInv
<1> QED
  BY <1>1, <1>2

(* In the core as wired no checkpoint but 0 is ever current, in a header   *)
(* or in the re-order buffer: no branch gets a checkpoint of its own.      *)
THEOREM UnmarkedCoreUsesCheckpointZero ==
  ASSUME ~MarksBranches
  PROVE  Spec => []OnlyCheckpointZero
<1>1. Init => IInv /\ ZeroInv
  BY InitIInv, InitZero
<1>2. IInv /\ ZeroInv /\ [Next]_vars => IInv' /\ ZeroInv'
  BY StepIInv, StepZero
<1>3. ZeroInv => OnlyCheckpointZero
  BY DEF ZeroInv, OnlyCheckpointZero, HeaderAtZero
<1> QED
  BY <1>1, <1>2, <1>3, PTL DEF Spec
=============================================================================
