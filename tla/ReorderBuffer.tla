--------------------------- MODULE ReorderBuffer ---------------------------
(***************************************************************************)
(* The ring of the re-order buffer of the Qupls4 core: room, enqueueing at *)
(* the tails, commit count, commit and movement of the heads.              *)
(*                                                                         *)
(* Every step is one edge of clk.  Heads and tails are registers of their  *)
(* own and nothing counts the entries between them: whether an entry is    *)
(* queued is only known from its valid bit.  All instructions are of one   *)
(* stream.                                                                 *)
(***************************************************************************)
EXTENDS Naturals, Sequences, FiniteSets

CONSTANTS
  MWIDTH,   \* instructions queued per clock
  NGRP,     \* groups of MWIDTH entries in the buffer
  WINDOW,   \* entries the commit count looks at
  RSTCNT,   \* clocks after reset in which the pipeline does not advance
  Kinds,    \* statuses an instruction may be queued with
  MaxOdd,   \* bound: entries marked as oddball or with an exception
  MaxDone   \* bound: instructions finishing in one clock

Statuses == {"empty", "busy", "done", "stomped"}
ROB_ENTRIES == NGRP * MWIDTH

ASSUME SizeAssumption ==
  /\ MWIDTH \in Nat \ {0}
  /\ NGRP \in Nat \ {0, 1}
  /\ WINDOW \in MWIDTH .. ROB_ENTRIES - 1
  /\ RSTCNT \in Nat \ {0, 1}
  /\ Kinds \in SUBSET Statuses
  /\ MaxOdd \in Nat
  /\ MaxDone \in Nat

VARIABLES
  st,       \* valid, done and stomped bits of each entry
  barrier,  \* oddball or exception bit of each entry
  head,     \* head[0]
  tail,     \* tails[0]
  empty,    \* register of the queue room: nothing was queued since reset
  rstcnt    \* clocks since reset

vars == <<st, barrier, head, tail, empty, rstcnt>>

Entries == 0 .. ROB_ENTRIES - 1

WrapLate(i) ==               \* mutant: the index wraps one entry late
  IF i <= ROB_ENTRIES THEN i ELSE i - ROB_ENTRIES

(* Head and tail indexes are taken modulo the size; no offset exceeds it.  *)
Wrap(i) == IF i < ROB_ENTRIES THEN i ELSE i - ROB_ENTRIES
H(k) == Wrap(head + k)                       \* head[k]
T(k) == Wrap(tail + k)                       \* tails[k]
Valid(e) == st[e] # "empty"
RobEmpty == \A e \in Entries : ~Valid(e)

-----------------------------------------------------------------------------
(* Commit count.  An entry may leave if it is stomped on or invalid, or,   *)
(* among the first MWIDTH, if it is done and nothing before it in the      *)
(* window is an oddball or has an exception (invalid entries keep theirs). *)

CmtPastOddball(k) ==         \* mutant: the entry at the head is not looked at
  \/ st[H(k)] \in {"empty", "stomped"}
  \/ k < MWIDTH /\ st[H(k)] = "done" /\ \A j \in 1 .. k - 1 : ~barrier[H(j)]

Cmt(k) ==
  \/ st[H(k)] \in {"empty", "stomped"}
  \/ k < MWIDTH /\ st[H(k)] = "done" /\ \A j \in 0 .. k - 1 : ~barrier[H(j)]

(* The longest run of such entries from the head commits.  The test for a  *)
(* collision of heads and tails is switched off, so the run may go on past *)
(* the tails.                                                              *)
StopsAtSecond(cmtcnt) ==     \* mutant: the run does not end at an unfinished second entry
  (\A k \in 0 .. cmtcnt - 1 : k # 1 => Cmt(k)) /\ (cmtcnt < WINDOW => ~Cmt(cmtcnt))

IsCommitCount(cmtcnt) ==
  (\A k \in 0 .. cmtcnt - 1 : Cmt(k)) /\ (cmtcnt < WINDOW => ~Cmt(cmtcnt))

-----------------------------------------------------------------------------
(* Heads.  In a buffer that is not empty the heads move over up to MWIDTH  *)
(* invalid entries; this assignment comes after that of the commit.        *)

IsLeadingInvalid(n) ==
  (\A k \in 0 .. n - 1 : ~Valid(H(k))) /\ (n < MWIDTH => Valid(H(n)))

NeverSkips(cmtcnt, n) ==     \* mutant: the heads wait at an invalid entry
  IF ~RobEmpty /\ ~Valid(head) THEN 0 ELSE cmtcnt

HeadMove(cmtcnt, n) == IF ~RobEmpty /\ ~Valid(head) THEN n ELSE cmtcnt

-----------------------------------------------------------------------------
(* Room for a group at the tails.                                          *)

Slots == {T(k) : k \in 0 .. MWIDTH - 1}
room ==
  \/ empty
  \/ \A k \in 0 .. MWIDTH : ~Valid(T(k))
  \/ (\A e \in Slots : ~Valid(e)) /\ head \notin Slots

EmptyForever ==              \* mutant: the register is never cleared
  empty

NextEmpty == empty /\ head = tail

-----------------------------------------------------------------------------
(* One clock: a group (kind) is queued if the pipeline advances (adv), the *)
(* instructions fin finish or are invalidated by a branch miss, and cmtcnt *)
(* entries commit.  The commit clears valid bits last, so it also clears   *)
(* that of an instruction queued in the same clock.                        *)
Clock(adv, kind, fin, cmtcnt, n) ==
  LET committed == {H(k) : k \in 0 .. cmtcnt - 1}
  IN
  /\ head' = H(HeadMove(cmtcnt, n))
  /\ empty' = NextEmpty
  /\ rstcnt' = IF rstcnt < RSTCNT THEN rstcnt + 1 ELSE rstcnt
  /\ st' = [e \in Entries |->
              IF e \in committed THEN "empty"
              ELSE IF adv /\ e \in Slots THEN kind[e]
              ELSE IF e \in fin THEN "done" ELSE st[e]]

(* Of the entries written in the clock, those in odd are oddballs or have  *)
(* an exception.  The bit of an instruction that has to execute first is   *)
(* only read when it has finished, and is chosen then.                     *)
Mark(written, odd) ==
  barrier' = [e \in Entries |-> IF e \in written THEN e \in odd ELSE barrier[e]]

OddballsOf(written) ==
  LET kept == {e \in Entries : barrier[e]} \ written
  IN  {odd \in SUBSET written : Cardinality(odd \cup kept) <= MaxOdd}

Queue(fin, cmtcnt, n) ==
  /\ room /\ rstcnt = RSTCNT
  /\ tail' = T(MWIDTH)
  /\ \E kind \in [Slots -> Kinds] :
    /\ Clock(TRUE, kind, fin, cmtcnt, n)
    /\ \E odd \in OddballsOf(fin \cup {e \in Slots : kind[e] # "busy"}) : Mark(fin \cup Slots, odd)
Hold(fin, cmtcnt, n) ==
  /\ tail' = tail
  /\ Clock(FALSE, <<>>, fin, cmtcnt, n)
  /\ \E odd \in OddballsOf(fin) : Mark(fin, odd)

ClockEdge(fin) ==
  \E cmtcnt \in {c \in 0 .. WINDOW : IsCommitCount(c)},
     n \in {k \in 0 .. MWIDTH : IsLeadingInvalid(k)} :
    Queue(fin, cmtcnt, n) \/ Hold(fin, cmtcnt, n)

Busy == {e \in Entries : st[e] = "busy"}
Finishing == {fin \in SUBSET Busy : Cardinality(fin) <= MaxDone}

Init ==
  /\ st = [e \in Entries |-> "empty"]
  /\ barrier = [e \in Entries |-> FALSE]
  /\ head = 0 /\ tail = 0 /\ empty = TRUE /\ rstcnt = 0

Next == \E fin \in Finishing : ClockEdge(fin)

(* An instruction the head waits for finishes some time. *)
HeadFinishes == \E fin \in Finishing : head \in fin /\ ClockEdge(fin)

Spec == Init /\ [][Next]_vars /\ WF_vars(Next) /\ WF_vars(HeadFinishes)

-----------------------------------------------------------------------------
(* Properties.                                                             *)

TypeOK ==
  /\ st \in [Entries -> Statuses]
  /\ barrier \in [Entries -> BOOLEAN]
  /\ head \in Entries
  /\ tail \in Entries
  /\ empty \in BOOLEAN
  /\ rstcnt \in 0 .. RSTCNT

(* A group is never queued over an instruction that has not committed,     *)
(* although the room believes a register that is only correct until the    *)
(* first group is queued.                                                  *)
QueuesOnInvalid == tail' # tail => \A e \in Slots : ~Valid(e)
NothingOverwritten == [][QueuesOnInvalid]_vars

(* Instructions commit in the order they were queued in: seen from the     *)
(* tails, where the oldest entries are, nothing stays before one that      *)
(* leaves, although the heads run past the tails and wrap around.          *)
Leaves(e) == Valid(e) /\ st'[e] = "empty"
LeavesInOrder ==
  \A k \in 0 .. ROB_ENTRIES - 1 : Leaves(T(k)) =>
    /\ st[T(k)] # "busy"
    /\ \A j \in 0 .. k - 1 : Valid(T(j)) => Leaves(T(j))
CommitsInOrder == [][LeavesInOrder]_vars

(* The ring as a queue: the valid entries, read from the tails upwards,    *)
(* are the instructions from the oldest to the youngest; invalid entries   *)
(* in between are not seen.                                                *)
RingOrder == [k \in 1 .. ROB_ENTRIES |-> st[T(k - 1)]]
Queued(ring) ==
  LET upTo[k \in 0 .. Len(ring)] ==
        IF k = 0 THEN <<>>
        ELSE IF ring[k] # "empty" THEN Append(upTo[k - 1], ring[k]) ELSE upTo[k - 1]
  IN  upTo[Len(ring)]
(* A group that is queued, of valid instructions only, is in the buffer    *)
(* after the clock: "do not commit invalid instructions at the tail of the *)
(* queue", says the commit count.                                          *)
Buffer == INSTANCE InOrderBuffer WITH
            Width <- MWIDTH, Least <- MWIDTH, Capacity <- ROB_ENTRIES,
            queue <- Queued(RingOrder), place <- tail
IsInOrderBuffer == Buffer!Spec

(* What is kept of it through every meeting of the heads and the tails: in *)
(* the clock a group is queued the commit may clear any of its valid bits, *)
(* but from then on an instruction stays, with all others in order, until  *)
(* it is at the front and has finished or was stomped on.                  *)
LossyBuffer == INSTANCE InOrderBuffer WITH
                 Width <- MWIDTH, Least <- 0, Capacity <- ROB_ENTRIES,
                 queue <- Queued(RingOrder), place <- tail
LosesOnlyOnEntry == LossyBuffer!Spec

(* Only the first oddball or exception of a clock commits: behind it no    *)
(* instruction leaves that was not stomped on.                             *)
OnlyStompedFollowOddball ==
  \A k, j \in 0 .. WINDOW - 1 :
    j < k /\ Leaves(H(j)) /\ barrier[H(j)] /\ Leaves(H(k)) => st[H(k)] = "stomped"
OddballCommitsLast == [][OnlyStompedFollowOddball]_vars

(* The buffer drains wherever the heads and tails stand: it is empty again *)
(* and again, or instructions go on leaving it.  As they leave in order,   *)
(* each one that is queued leaves some time.                               *)
InstructionsKeepLeaving ==
  ([]<>RobEmpty) \/ ([]<><<\E e \in Entries : Leaves(e)>>_vars)

(* A pipeline that waits for room gets it.                                 *)
RoomReturns == ~room ~> room
=============================================================================
