------------------------- MODULE CheckpointManager -------------------------
(***************************************************************************)
(* Branch checkpoints of the Qupls4 core: the checkpoint manager, the      *)
(* group allocator it instantiates, and the pipeline group headers (pgh)   *)
(* the manager scans and writes back to.                                   *)
(*                                                                         *)
(* Every step is one edge of clk.  A step chooses what the rest of the     *)
(* core does in that clock (advance the pipeline, retire the oldest group, *)
(* resolve a mispredicted branch) and applies it together with the state   *)
(* of the manager.  All outputs of the manager are registered, so a pulse  *)
(* raised by one step is acted on by the next.                             *)
(***************************************************************************)
EXTENDS Naturals

CONSTANTS
  NGRP,     \* groups the re-order buffer holds (ROB_ENTRIES/MWIDTH)
  NCHECK,   \* branch checkpoints
  MinExec,  \* least clocks from a valid checkpoint to a group having executed
  MarksBranches, \* whether group headers say that a group has a branch: FALSE in the core
  Losses    \* ways a group is lost: "miss" (stomped on), "void" (queued invalid)

ASSUME SizeAssumption ==
  /\ NGRP \in Nat \ {0}
  /\ NCHECK \in Nat \ {0, 1}
  /\ MinExec \in Nat
  /\ MarksBranches \in BOOLEAN
  /\ Losses \subseteq {"miss", "void"}

VARIABLES
  state, setcp, setcp_grp, cndx, ialloc_chkpt, alloc_chkpt, \* manager
  avail_chkpts, chkptn,                                     \* allocator
  pgh, groupno, cndx_ren,                                   \* group headers
  occ, rob_br, rob_cndx, ready, stomped, restore            \* rest of the core

managerVars == <<state, setcp, setcp_grp, cndx, ialloc_chkpt, alloc_chkpt>>
allocatorVars == <<avail_chkpts, chkptn>>
headerVars == <<pgh, groupno, cndx_ren>>
coreVars == <<occ, rob_br, rob_cndx, ready, stomped, restore>>
vars == <<managerVars, allocatorVars, headerVars, coreVars>>

Groups == 0 .. NGRP - 1
Checkpts == 0 .. NCHECK - 1
NoCheckpt == NCHECK          \* the all-ones code flo returns on an empty bitmap
NoGroup == NGRP

-----------------------------------------------------------------------------
(* The re-order buffer, one slot per group: a ring of occ slots that ends  *)
(* just before slot groupno, where the tails stand.  Tails and groupno     *)
(* advance together, and a slot uses the header of its own index.          *)

Back(k) == (groupno + NGRP - k) % NGRP        \* the slot k places from the tails
InFlight == {Back(k) : k \in 1 .. occ}
Oldest == Back(occ)
Younger(g) == {Back(k) : k \in 1 .. ((groupno + NGRP - g - 1) % NGRP)}
Executed(g) == pgh[g].cndxv /\ ready[g] = MinExec
Pending(g) == pgh[g].v /\ ~pgh[g].cndxv

(* A slot leaves the re-order buffer when its instructions have executed,  *)
(* or when none of them is valid (any more) and the head skips them.       *)
MayRetire == occ > 0 /\ (Executed(Oldest) \/ Oldest \in stomped)

(* A conditional branch of an executed group turns out to be mispredicted, *)
(* and its target is not in the re-order buffer.                           *)
MayMiss(g) == "miss" \in Losses /\ g \in InFlight \ stomped /\ rob_br[g] /\ Executed(g)

-----------------------------------------------------------------------------
(* Allocator, GROUP_ALLOC = 1.                                             *)

FirstAvail(bitmap) ==
  IF bitmap = {} THEN NoCheckpt
  ELSE CHOOSE c \in bitmap : \A d \in bitmap : c <= d

InUse == {pgh[g].cndx : g \in Groups} \cup {cndx_ren, 0}
ChkptsToFree == Checkpts \ InUse
Stall == FirstAvail(avail_chkpts) = NoCheckpt

(* alloc_chkpt latches the first available index.  The statement meant to  *)
(* mark it taken indexes the array of bitmaps, not a bit of bitmap 0, so   *)
(* bitmap 0 only gains the indices to free and loses bit 0.                *)
AllocatorMarksTaken ==       \* mutant: the index handed out is marked taken
  /\ chkptn' = IF ialloc_chkpt THEN FirstAvail(avail_chkpts) ELSE chkptn
  /\ avail_chkpts' =
       IF ialloc_chkpt THEN (avail_chkpts \cup ChkptsToFree) \ {0, FirstAvail(avail_chkpts)}
                       ELSE (avail_chkpts \cup ChkptsToFree) \ {0}

AllocatorStep ==
  /\ chkptn' = IF ialloc_chkpt THEN FirstAvail(avail_chkpts) ELSE chkptn
  /\ avail_chkpts' = (avail_chkpts \cup ChkptsToFree) \ {0}

-----------------------------------------------------------------------------
(* What the rest of the core does at a clock edge.                         *)

(* Header updates: the pipeline enqueues a group at groupno, and a setcp   *)
(* pulse writes the current checkpoint index into the header it names.     *)
(* The statement that would set has_branch is commented out, so the core   *)
(* is the instance MarksBranches = FALSE.  With TRUE the manager is given  *)
(* the headers its port is made for, which no part of the core writes.     *)
NextPgh(adv, br) ==
  LET enqueued == IF adv
                  THEN [pgh EXCEPT ![groupno] = [v |-> TRUE, has_branch |-> MarksBranches /\ br,
                                                 cndxv |-> FALSE, cndx |-> cndx_ren]]
                  ELSE pgh
  IN IF setcp
     THEN [enqueued EXCEPT ![setcp_grp].cndx = cndx, ![setcp_grp].cndxv = TRUE]
     ELSE enqueued

(* adv: the pipeline advances by a group with (br) or without a branch,    *)
(* of valid (live) or invalid instructions; ret: the oldest slot leaves;   *)
(* res: the slot whose branch missed.  The test of branchmiss guards an    *)
(* empty statement, so a group is queued in the clock of a miss as in any  *)
(* other.                                                                  *)
(* Whether that group is still valid depends on where the pulse of the     *)
(* miss falls within the clock, so it may be live or not.                  *)
CoreStep(adv, br, live, ret, res) ==
  LET new == IF adv THEN {groupno} ELSE {}
      missed == IF res = NoGroup THEN {} ELSE Younger(res)
  IN
  /\ adv => occ < NGRP
  /\ ~live => "void" \in Losses \/ res # NoGroup
  /\ ret => MayRetire
  /\ res # NoGroup => MayMiss(res)
  /\ pgh' = NextPgh(adv, br)
  /\ groupno' = IF adv THEN (groupno + 1) % NGRP ELSE groupno
  /\ cndx_ren' = IF adv THEN cndx ELSE cndx_ren
  /\ rob_br' = IF adv THEN [rob_br EXCEPT ![groupno] = br] ELSE rob_br
  /\ rob_cndx' = IF adv THEN [rob_cndx EXCEPT ![groupno] = cndx_ren] ELSE rob_cndx
  /\ occ' = (occ + (IF adv THEN 1 ELSE 0)) - (IF ret THEN 1 ELSE 0)
  /\ ready' = [g \in Groups |->
                 IF ~pgh[g].cndxv \/ g \in new THEN 0
                 ELSE IF ready[g] < MinExec THEN ready[g] + 1 ELSE ready[g]]
  /\ stomped' = ((stomped \cup missed) \ new) \cup (IF live THEN {} ELSE new)
  /\ restore' = res

Core == \E adv, br, live, ret \in BOOLEAN, res \in Groups \cup {NoGroup} :
          CoreStep(adv, br, live, ret, res)

-----------------------------------------------------------------------------
(* Manager.                                                                *)

(* The scan of CHKPT_IDLE walks the headers upwards; each register keeps   *)
(* what was assigned last.  So the highest pending index is served, and    *)
(* ialloc_chkpt is raised if any pending group has a branch, served or not.*)
Wanted == {g \in Groups : Pending(g)}
LastScanned(g) == g \in Wanted /\ \A h \in Wanted : h <= g

Service(g) == IF pgh[g].has_branch THEN "ALLOC1" ELSE "SET"

(* In CHKPT_IDLE only, a branch miss backs the current index up.           *)
BackUp ==
  cndx' = IF restore # NoGroup THEN rob_cndx[restore] ELSE cndx

IdleServe ==
  /\ state = "IDLE"
  /\ \E g \in Groups : LastScanned(g) /\ setcp_grp' = g /\ state' = Service(g)
  /\ ialloc_chkpt' = \E g \in Wanted : pgh[g].has_branch
  /\ setcp' = FALSE
  /\ alloc_chkpt' = FALSE
  /\ BackUp
  /\ Core

IdleWait ==
  /\ state = "IDLE"
  /\ Wanted = {}
  /\ ialloc_chkpt' = FALSE
  /\ setcp' = FALSE
  /\ alloc_chkpt' = FALSE
  /\ UNCHANGED <<state, setcp_grp>>
  /\ BackUp
  /\ Core

Alloc1 ==                    \* the allocator's output is registered
  /\ state = "ALLOC1"
  /\ state' = "ALLOC2"
  /\ ialloc_chkpt' = FALSE
  /\ setcp' = FALSE
  /\ alloc_chkpt' = FALSE
  /\ UNCHANGED <<cndx, setcp_grp>>
  /\ Core

Alloc2 ==
  /\ state = "ALLOC2"
  /\ state' = IF Stall THEN "ALLOC2" ELSE "IDLE"
  /\ cndx' = IF Stall THEN cndx ELSE chkptn
  /\ setcp' = ~Stall
  /\ alloc_chkpt' = ~Stall
  /\ ialloc_chkpt' = FALSE
  /\ UNCHANGED setcp_grp
  /\ Core

SetNoPulse ==                \* mutant: the state is left without raising setcp
  /\ state = "SET"
  /\ state' = "IDLE"
  /\ setcp' = FALSE
  /\ ialloc_chkpt' = FALSE
  /\ alloc_chkpt' = FALSE
  /\ UNCHANGED <<cndx, setcp_grp>>
  /\ Core

SetGroup ==
  /\ state = "SET"
  /\ state' = "IDLE"
  /\ setcp' = TRUE
  /\ ialloc_chkpt' = FALSE
  /\ alloc_chkpt' = FALSE
  /\ UNCHANGED <<cndx, setcp_grp>>
  /\ Core

Init ==
  /\ state = "IDLE" /\ setcp = FALSE /\ setcp_grp = 0 /\ cndx = 0
  /\ ialloc_chkpt = FALSE /\ alloc_chkpt = FALSE
  /\ avail_chkpts = Checkpts \ {0} /\ chkptn = 0
  /\ pgh = [g \in Groups |-> [v |-> FALSE, has_branch |-> FALSE,
                              cndxv |-> FALSE, cndx |-> 0]]
  /\ groupno = 0 /\ cndx_ren = 0
  /\ rob_br = [g \in Groups |-> FALSE]
  /\ rob_cndx = [g \in Groups |-> 0]
  /\ occ = 0 /\ ready = [g \in Groups |-> 0]
  /\ stomped = {} /\ restore = NoGroup

ManagerStep == IdleServe \/ IdleWait \/ Alloc1 \/ Alloc2 \/ SetGroup
Next == ManagerStep /\ AllocatorStep

(* The clock never stops. *)
Spec == Init /\ [][Next]_vars /\ WF_vars(Next)

-----------------------------------------------------------------------------
(* Properties.                                                             *)

(* Every register holds a value of its width; in particular the code for   *)
(* "no checkpoint" never reaches a header or the current index.            *)
TypeOK ==
  /\ state \in {"IDLE", "ALLOC1", "ALLOC2", "SET"}
  /\ setcp \in BOOLEAN /\ ialloc_chkpt \in BOOLEAN /\ alloc_chkpt \in BOOLEAN
  /\ setcp_grp \in Groups /\ cndx \in Checkpts
  /\ avail_chkpts \in SUBSET Checkpts /\ chkptn \in Checkpts
  /\ pgh \in [Groups -> [v : BOOLEAN, has_branch : BOOLEAN,
                         cndxv : BOOLEAN, cndx : Checkpts]]
  /\ groupno \in Groups /\ cndx_ren \in Checkpts
  /\ rob_br \in [Groups -> BOOLEAN]
  /\ rob_cndx \in [Groups -> Checkpts]
  /\ occ \in 0 .. NGRP /\ ready \in [Groups -> 0 .. MinExec]
  /\ stomped \in SUBSET Groups /\ restore \in Groups \cup {NoGroup}

(* A group waiting for its checkpoint index is eventually served unless it *)
(* is stomped on, although the scan always prefers the highest index.      *)
EveryGroupServed ==
  \A g \in Groups : Pending(g) ~> (pgh[g].cndxv \/ g \in stomped)

(* "Allocates with a new conditional branch", says the manager: two groups *)
(* with a branch that are in flight and dispatchable never hold the same   *)
(* checkpoint, so that each has a register map of its own to restore.      *)
BranchesHaveDistinctCheckpoints ==
  \A g, h \in InFlight \ stomped :
    g # h /\ rob_br[g] /\ rob_br[h] /\ pgh[g].cndxv /\ pgh[h].cndxv
      => pgh[g].cndx # pgh[h].cndx
=============================================================================
