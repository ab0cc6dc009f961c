--------------------------- MODULE InOrderBuffer ---------------------------
(***************************************************************************)
(* What a re-order buffer promises: it is a queue.  Instructions enter at  *)
(* its end in groups, finish in any order, and leave from its front, and   *)
(* none of them leaves before it has finished or was stomped on.  With     *)
(* Least = Width a group enters whole; with less, instructions may be lost *)
(* in the clock they enter in, and never after it.                         *)
(***************************************************************************)
EXTENDS Naturals, Sequences

CONSTANTS
  Width,      \* instructions of a group
  Least,      \* instructions of a group that enter at least
  Capacity    \* instructions the buffer has room for

VARIABLES
  queue,      \* the statuses of the instructions, oldest first
  place       \* where the next group goes: another place for each group

Instruction == {"busy", "done", "stomped"}

(* What an instruction may have become while it stayed.                    *)
Later(s) == IF s = "busy" THEN {"busy", "done"} ELSE {s}

(* In one clock the first n leave, instructions finish among the others    *)
(* and, when a group takes its place, new ones enter behind them.          *)
Entering == IF place' = place THEN {0} ELSE Least .. Width

Advance(n) ==
  LET staying == Len(queue) - n
  IN  /\ \A k \in 1 .. n : queue[k] # "busy"
      /\ \E new \in Entering : Len(queue') = staying + new
      /\ Len(queue') <= Capacity
      /\ \A k \in 1 .. staying : queue'[k] \in Later(queue[n + k])
      /\ \A k \in staying + 1 .. Len(queue') : queue'[k] \in Instruction

Init == queue = <<>>

Next == \E n \in 0 .. Len(queue) : Advance(n)

Spec == Init /\ [][Next]_<<queue, place>>
=============================================================================
