------------------------ MODULE ReorderBufferProofs ------------------------
(***************************************************************************)
(* Order of commit in the ring, for buffers and windows of any size, and   *)
(* that the ring implements a queue (InOrderBuffer).                       *)
(*                                                                         *)
(* Nothing keeps the heads between the oldest and the youngest entry.  The *)
(* argument is that, going up from the tails, every entry before the head  *)
(* is invalid: whatever the heads pass is invalid or committed by the same *)
(* clock, including what is queued there in that clock.                    *)
(***************************************************************************)
EXTENDS ReorderBuffer, BaseLemmas, TLAPS

(* Entries from the tails up to the head.                                  *)
Dist == IF head >= tail THEN head - tail ELSE (head + ROB_ENTRIES) - tail

HeadBeforeOldest == \A k \in 0 .. Dist - 1 : ~Valid(T(k))

(* The first clocks after reset: by the time the pipeline may advance the  *)
(* heads have left the tails and the room no longer believes its register. *)
AfterReset ==
  /\ rstcnt < RSTCNT => tail = 0 /\ RobEmpty
  /\ rstcnt = 0 => head = 0
  /\ rstcnt = 1 => head = WINDOW
  /\ rstcnt > 1 => ~empty

IInv == TypeOK /\ HeadBeforeOldest /\ AfterReset

-----------------------------------------------------------------------------
(* The ring.                                                               *)

LEMMA Sizes ==
  /\ ROB_ENTRIES \in Nat /\ MWIDTH \in Nat /\ WINDOW \in Nat /\ RSTCNT \in Nat
  /\ 0 < MWIDTH /\ MWIDTH <= WINDOW /\ WINDOW < ROB_ENTRIES /\ 1 < RSTCNT
<1>1. ROB_ENTRIES \in Nat
  BY SizeAssumption DEF ROB_ENTRIES
<1> QED
  BY <1>1, SizeAssumption

(* The entry k places up from the head or the tails is an entry.           *)
LEMMA RingEntries ==
  ASSUME TypeOK
  PROVE  \A k \in 0 .. ROB_ENTRIES : H(k) \in Entries /\ T(k) \in Entries
  BY Sizes DEF TypeOK, Entries, H, T, Wrap

(* The head stands Dist entries up from the tails.                         *)
LEMMA HeadFromTail ==
  ASSUME TypeOK
  PROVE  /\ Dist \in 0 .. ROB_ENTRIES - 1
         /\ \A k \in 0 .. ROB_ENTRIES - 1 : Dist + k < ROB_ENTRIES => T(Dist + k) = H(k)
         /\ \A k \in 0 .. ROB_ENTRIES - 1 :
              Dist + k >= ROB_ENTRIES => T((Dist + k) - ROB_ENTRIES) = H(k)
<1>1. head \in Nat /\ tail \in Nat /\ head < ROB_ENTRIES /\ tail < ROB_ENTRIES
  BY Sizes DEF TypeOK, Entries
<1>2. Dist \in 0 .. ROB_ENTRIES - 1
  BY <1>1, Sizes DEF Dist
<1>3. \A k \in 0 .. ROB_ENTRIES - 1 : Dist + k < ROB_ENTRIES => T(Dist + k) = H(k)
  BY <1>1, Sizes DEF Dist, T, H, Wrap
<1>4. \A k \in 0 .. ROB_ENTRIES - 1 :
        Dist + k >= ROB_ENTRIES => T((Dist + k) - ROB_ENTRIES) = H(k)
  BY <1>1, Sizes DEF Dist, T, H, Wrap
<1> QED
  BY <1>2, <1>3, <1>4

(* Two places less than a round apart are different entries.               *)
LEMMA TailDistinct ==
  ASSUME TypeOK
  PROVE  \A j, k \in 0 .. ROB_ENTRIES - 1 : T(j) = T(k) => j = k
<1>1. tail \in Nat /\ tail < ROB_ENTRIES
  BY Sizes DEF TypeOK, Entries
<1> QED
  BY <1>1, Sizes DEF T, Wrap

-----------------------------------------------------------------------------
(* One clock.                                                              *)

(* What a step of the ring does, with the choices of the clock named.      *)
Edge(adv, kind, fin, odd, cmtcnt, n) ==
  /\ fin \subseteq Busy
  /\ IsCommitCount(cmtcnt) /\ IsLeadingInvalid(n)
  /\ adv => room /\ rstcnt = RSTCNT
  /\ tail' = IF adv THEN T(MWIDTH) ELSE tail
  /\ Clock(adv, kind, fin, cmtcnt, n)
  /\ Mark(fin \cup (IF adv THEN Slots ELSE {}), odd)

LEMMA NextIsEdge ==
  ASSUME Next
  PROVE  \E adv \in BOOLEAN, kind \in [Slots -> Kinds] \cup {<<>>}, fin \in SUBSET Busy,
            odd \in SUBSET (Busy \cup Slots), cmtcnt \in 0 .. WINDOW, n \in 0 .. MWIDTH :
              /\ Edge(adv, kind, fin, odd, cmtcnt, n)
              /\ adv => kind \in [Slots -> Kinds]
<1>1. PICK fin \in Finishing : ClockEdge(fin)
  BY DEF Next
<1>2. fin \in SUBSET Busy
  BY <1>1 DEF Finishing
<1>3. PICK cmtcnt \in 0 .. WINDOW, n \in 0 .. MWIDTH :
        /\ IsCommitCount(cmtcnt) /\ IsLeadingInvalid(n)
        /\ Queue(fin, cmtcnt, n) \/ Hold(fin, cmtcnt, n)
  BY <1>1 DEF ClockEdge
<1>4. CASE Queue(fin, cmtcnt, n)
  <2>0. room /\ rstcnt = RSTCNT /\ tail' = T(MWIDTH)
    BY <1>4, Zenon DEF Queue
  <2>1. PICK kind \in [Slots -> Kinds] :
          /\ Clock(TRUE, kind, fin, cmtcnt, n)
          /\ \E odd \in OddballsOf(fin \cup {e \in Slots : kind[e] # "busy"}) :
               Mark(fin \cup Slots, odd)
    BY <1>4, Zenon DEF Queue
  <2>2. PICK odd \in OddballsOf(fin \cup {e \in Slots : kind[e] # "busy"}) :
          Mark(fin \cup Slots, odd)
    BY <2>1
  <2>3. odd \in SUBSET (Busy \cup Slots)
    BY <1>2, <2>2 DEF OddballsOf
  <2>4. Edge(TRUE, kind, fin, odd, cmtcnt, n)
    <3>1. fin \cup (IF TRUE THEN Slots ELSE {}) = fin \cup Slots
      OBVIOUS
    <3> QED
      BY <1>2, <1>3, <2>0, <2>1, <2>2, <3>1, Zenon DEF Edge
  <2> QED
    BY <1>2, <1>3, <2>1, <2>3, <2>4
<1>5. CASE Hold(fin, cmtcnt, n)
  <2>0. tail' = tail
    BY <1>5, Zenon DEF Hold
  <2>1. PICK odd \in OddballsOf(fin) : Clock(FALSE, <<>>, fin, cmtcnt, n) /\ Mark(fin, odd)
    BY <1>5, Zenon DEF Hold
  <2>2. odd \in SUBSET (Busy \cup Slots)
    BY <1>2, <2>1 DEF OddballsOf
  <2>3. Edge(FALSE, <<>>, fin, odd, cmtcnt, n)
    <3>1. fin \cup (IF FALSE THEN Slots ELSE {}) = fin
      OBVIOUS
    <3> QED
      BY <1>2, <1>3, <2>0, <2>1, <3>1, Zenon DEF Edge
  <2> QED
    BY <1>2, <1>3, <2>2, <2>3
<1> QED
  BY <1>3, <1>4, <1>5

(* Registers keep their types.                                             *)
LEMMA EdgeTypes ==
  ASSUME TypeOK,
         NEW adv \in BOOLEAN, NEW kind, NEW fin, NEW odd,
         NEW cmtcnt \in 0 .. WINDOW, NEW n \in 0 .. MWIDTH,
         Edge(adv, kind, fin, odd, cmtcnt, n),
         adv => kind \in [Slots -> Kinds]
  PROVE  TypeOK'
<1>1. st' \in [Entries -> Statuses]
  <2>1. "empty" \in Statuses /\ "done" \in Statuses
    BY DEF Statuses
  <2>2. \A e \in Slots : adv => kind[e] \in Statuses
    BY SizeAssumption
  <2> QED
    BY <2>1, <2>2 DEF Edge, Clock, Mark, TypeOK
<1>2. barrier' \in [Entries -> BOOLEAN]
  <2> DEFINE w == fin \cup (IF adv THEN Slots ELSE {})
             bit(e) == IF e \in w THEN e \in odd ELSE barrier[e]
  <2>1. barrier' = [e \in Entries |-> bit(e)]
    BY DEF Edge, Clock, Mark
  <2>2. ASSUME NEW e \in Entries PROVE bit(e) \in BOOLEAN
    <3>1. barrier[e] \in BOOLEAN
      BY DEF TypeOK
    <3>2. (e \in odd) \in BOOLEAN
      OBVIOUS
    <3> QED
      BY <3>1, <3>2
  <2> HIDE DEF bit
  <2> QED
    BY <2>1, <2>2
<1>3. head' \in Entries
  <2>1. HeadMove(cmtcnt, n) \in 0 .. ROB_ENTRIES
    BY Sizes DEF HeadMove
  <2> QED
    BY <2>1, RingEntries DEF Edge, Clock, Mark
<1>4. tail' \in Entries
  <2>1. T(MWIDTH) \in Entries
    BY Sizes, RingEntries
  <2> QED
    BY <2>1 DEF Edge, Clock, Mark, TypeOK
<1>5. empty' \in BOOLEAN /\ rstcnt' \in 0 .. RSTCNT
  BY Sizes DEF Edge, Clock, Mark, TypeOK, NextEmpty
<1> QED
  BY <1>1, <1>2, <1>3, <1>4, <1>5 DEF TypeOK

(* The head moves no further than the commit reaches, and whatever it      *)
(* passes is invalid afterwards.                                           *)
LEMMA PassedIsInvalid ==
  ASSUME TypeOK,
         NEW adv \in BOOLEAN, NEW kind, NEW fin, NEW odd,
         NEW cmtcnt \in 0 .. WINDOW, NEW n \in 0 .. MWIDTH,
         Edge(adv, kind, fin, odd, cmtcnt, n)
  PROVE  /\ HeadMove(cmtcnt, n) \in 0 .. cmtcnt
         /\ \A k \in 0 .. HeadMove(cmtcnt, n) - 1 : st'[H(k)] = "empty"
<1>1. n <= cmtcnt
  <2> SUFFICES ASSUME cmtcnt < n PROVE FALSE
    BY Sizes
  <2>1. ~Valid(H(cmtcnt)) /\ ~Cmt(cmtcnt)
    BY Sizes DEF Edge, IsCommitCount, IsLeadingInvalid
  <2> QED
    BY <2>1 DEF Cmt, Valid
<1>2. HeadMove(cmtcnt, n) \in 0 .. cmtcnt
  BY <1>1, Sizes DEF HeadMove
<1>3. \A k \in 0 .. cmtcnt - 1 : H(k) \in Entries
  BY Sizes, RingEntries
<1>4. \A k \in 0 .. cmtcnt - 1 : st'[H(k)] = "empty"
  BY <1>3 DEF Edge, Clock, Mark
<1> QED
  BY <1>2, <1>4, Sizes

(* An invalid entry stays invalid unless a group is queued there.          *)
LEMMA InvalidStays ==
  ASSUME TypeOK,
         NEW adv \in BOOLEAN, NEW kind, NEW fin, NEW odd,
         NEW cmtcnt \in 0 .. WINDOW, NEW n \in 0 .. MWIDTH,
         Edge(adv, kind, fin, odd, cmtcnt, n),
         NEW e \in Entries, ~Valid(e), adv => e \notin Slots
  PROVE  st'[e] = "empty"
<1>1. st[e] = "empty" /\ e \notin fin
  BY DEF Valid, Edge, Busy
<1> QED
  BY <1>1 DEF Edge, Clock, Mark

(* A group queued where the head stands is passed by it: its entries were  *)
(* invalid, so the commit and the head run over them.                      *)
LEMMA HeadLeavesSlots ==
  ASSUME TypeOK, AfterReset,
         NEW adv \in BOOLEAN, NEW kind, NEW fin, NEW odd,
         NEW cmtcnt \in 0 .. WINDOW, NEW n \in 0 .. MWIDTH,
         Edge(adv, kind, fin, odd, cmtcnt, n), adv,
         Dist < MWIDTH
  PROVE  Dist + HeadMove(cmtcnt, n) >= MWIDTH
<1>1. Dist \in Nat /\ MWIDTH - Dist \in 1 .. MWIDTH
  BY HeadFromTail, Sizes
<1>2. \A k \in 0 .. MWIDTH - 1 : ~Valid(T(k))
  <2>1. room /\ ~empty
    BY Sizes DEF Edge, Clock, Mark, AfterReset
  <2>2. \A k \in 0 .. MWIDTH - 1 : T(k) \in Slots /\ k \in 0 .. MWIDTH
    BY Sizes DEF Slots
  <2> QED
    BY <2>1, <2>2 DEF room
<1>3. \A k \in 0 .. (MWIDTH - Dist) - 1 : ~Valid(H(k))
  <2> SUFFICES ASSUME NEW k \in 0 .. (MWIDTH - Dist) - 1 PROVE ~Valid(H(k))
    OBVIOUS
  <2>1. k \in 0 .. ROB_ENTRIES - 1 /\ Dist + k < ROB_ENTRIES /\ Dist + k \in 0 .. MWIDTH - 1
    BY <1>1, Sizes
  <2> QED
    BY <1>2, <2>1, HeadFromTail
<1>4. cmtcnt >= MWIDTH - Dist
  <2> SUFFICES ASSUME cmtcnt < MWIDTH - Dist PROVE FALSE
    BY <1>1, Sizes
  <2>1. cmtcnt \in 0 .. (MWIDTH - Dist) - 1 /\ cmtcnt < WINDOW
    BY <1>1, Sizes
  <2> QED
    BY <1>3, <2>1 DEF Edge, IsCommitCount, Cmt, Valid
<1>5. n >= MWIDTH - Dist
  <2> SUFFICES ASSUME n < MWIDTH - Dist PROVE FALSE
    BY <1>1, Sizes
  <2>1. n \in 0 .. (MWIDTH - Dist) - 1 /\ n < MWIDTH
    BY <1>1, Sizes
  <2> QED
    BY <1>3, <2>1 DEF Edge, IsLeadingInvalid
<1> QED
  BY <1>1, <1>4, <1>5, Sizes DEF HeadMove

(* What lies between the tails and the head stays invalid.                 *)
LEMMA StepHeadBeforeOldest ==
  ASSUME IInv, TypeOK',
         NEW adv \in BOOLEAN, NEW kind, NEW fin, NEW odd,
         NEW cmtcnt \in 0 .. WINDOW, NEW n \in 0 .. MWIDTH,
         Edge(adv, kind, fin, odd, cmtcnt, n)
  PROVE  HeadBeforeOldest'
<1> DEFINE m == HeadMove(cmtcnt, n)
           a == IF adv THEN MWIDTH ELSE 0
           D == Dist
<1> USE DEF IInv
<1>1. head \in Nat /\ tail \in Nat /\ head < ROB_ENTRIES /\ tail < ROB_ENTRIES
  BY Sizes DEF TypeOK, Entries
<1>2. m \in 0 .. WINDOW /\ \A k \in 0 .. m - 1 : st'[H(k)] = "empty"
  BY PassedIsInvalid, Sizes
<1>3. D \in 0 .. ROB_ENTRIES - 1 /\ a \in 0 .. MWIDTH /\ D + m >= a
  <2>1. D \in 0 .. ROB_ENTRIES - 1
    BY HeadFromTail
  <2>2. CASE adv /\ Dist < MWIDTH
    <3>1. adv /\ Dist < MWIDTH /\ TypeOK /\ AfterReset
      BY <2>2
    <3>2. Dist + HeadMove(cmtcnt, n) >= MWIDTH
      BY ONLY <3>1, HeadLeavesSlots, Edge(adv, kind, fin, odd, cmtcnt, n),
         adv \in BOOLEAN, cmtcnt \in 0 .. WINDOW, n \in 0 .. MWIDTH
    <3> QED
      BY <2>1, <3>1, <3>2, Sizes
  <2>3. CASE ~(adv /\ Dist < MWIDTH)
    BY <2>1, <2>3, <1>2, Sizes
  <2> QED
    BY <2>1, <2>2, <2>3, Sizes
<1>4. head' = Wrap(head + m) /\ tail' = Wrap(tail + a)
  BY <1>1 DEF Edge, Clock, Mark, H, T, Wrap
<1> HIDE DEF m, a
(* The new distance, possibly after the head went all the way round.       *)
<1>5. Dist' = IF (D + m) - a < ROB_ENTRIES THEN (D + m) - a ELSE ((D + m) - a) - ROB_ENTRIES
  BY <1>1, <1>2, <1>3, <1>4, Sizes DEF Dist, Wrap
<1>6. SUFFICES ASSUME NEW k \in 0 .. Dist' - 1 PROVE st'[T(k)'] = "empty"
  BY DEF HeadBeforeOldest, Valid
<1> DEFINE i == k + a
<1>7. i \in Nat /\ i < D + m
  BY <1>2, <1>3, <1>5, <1>6, Sizes
<1>8. T(k)' = IF i < ROB_ENTRIES THEN T(i) ELSE T(i - ROB_ENTRIES)
  BY <1>1, <1>2, <1>3, <1>4, <1>5, <1>6, Sizes DEF T, Wrap
<1>9. CASE i < D
  <2>1. i \in 0 .. Dist - 1 /\ i \in 0 .. ROB_ENTRIES - 1 /\ T(k)' = T(i)
    BY <1>3, <1>7, <1>8, <1>9, Sizes
  <2>2. ~Valid(T(i)) /\ T(i) \in Entries
    BY <2>1, RingEntries, Sizes DEF HeadBeforeOldest
  <2>3. adv => T(i) \notin Slots
    <3> SUFFICES ASSUME adv, T(i) \in Slots PROVE FALSE
      OBVIOUS
    <3>1. PICK j \in 0 .. MWIDTH - 1 : T(i) = T(j)
      BY DEF Slots
    <3>2. i >= MWIDTH
      BY <1>6, <1>5, <1>3, Sizes DEF a
    <3>3. j \in 0 .. ROB_ENTRIES - 1
      BY <3>1, Sizes
    <3> QED
      BY <2>1, <3>1, <3>2, <3>3, TailDistinct, Sizes
  <2> QED
    BY <2>1, <2>2, <2>3, InvalidStays
<1>10. CASE i >= D
  <2>1. i - D \in 0 .. m - 1 /\ i - D \in 0 .. ROB_ENTRIES - 1
    BY <1>2, <1>3, <1>7, <1>10, Sizes
  <2>2. T(k)' = H(i - D)
    <3>1. CASE i < ROB_ENTRIES
      BY <3>1, <2>1, <1>3, <1>8, HeadFromTail, Sizes
    <3>2. CASE i >= ROB_ENTRIES
      BY <3>2, <2>1, <1>3, <1>8, HeadFromTail, Sizes
    <3> QED
      BY <3>1, <3>2, <1>7, Sizes
  <2> QED
    BY <2>1, <2>2, <1>2
<1> QED
  BY <1>3, <1>7, <1>9, <1>10

LEMMA StepAfterReset ==
  ASSUME IInv,
         NEW adv \in BOOLEAN, NEW kind, NEW fin, NEW odd,
         NEW cmtcnt \in 0 .. WINDOW, NEW n \in 0 .. MWIDTH,
         Edge(adv, kind, fin, odd, cmtcnt, n)
  PROVE  AfterReset'
<1> USE DEF IInv
<1>1. rstcnt \in 0 .. RSTCNT /\ rstcnt' = IF rstcnt < RSTCNT THEN rstcnt + 1 ELSE rstcnt
  BY DEF TypeOK, Edge, Clock
<1>2. CASE rstcnt = RSTCNT
  <2>1. empty' = NextEmpty
    BY DEF Edge, Clock, Mark
  <2>2. ~empty'
    BY <1>2, <2>1, Sizes DEF AfterReset, NextEmpty
  <2> QED
    BY <1>1, <1>2, <2>2, Sizes DEF AfterReset
<1>3. CASE rstcnt < RSTCNT
  <2>1. ~adv /\ tail = 0 /\ RobEmpty /\ tail' = 0
    BY <1>3, <1>1, Sizes DEF AfterReset, Edge, Clock, Mark
  <2>2. RobEmpty'
    <3>1. \A e \in Entries : st'[e] = "empty"
      BY <2>1, InvalidStays DEF RobEmpty
    <3> QED
      BY <3>1 DEF RobEmpty, Valid
  <2>3. rstcnt = 0 => head' = WINDOW
    <3> SUFFICES ASSUME rstcnt = 0 PROVE head' = WINDOW
      OBVIOUS
    <3>1. head = 0
      BY DEF AfterReset
    <3>2. cmtcnt = WINDOW
      <4> SUFFICES ASSUME cmtcnt < WINDOW PROVE FALSE
        BY Sizes
      <4>1. H(cmtcnt) \in Entries
        BY RingEntries, Sizes
      <4> QED
        BY <2>1, <4>1 DEF Edge, IsCommitCount, Cmt, RobEmpty, Valid
    <3> QED
      BY <2>1, <3>1, <3>2, Sizes DEF Edge, Clock, Mark, HeadMove, H, Wrap
  <2>4. rstcnt > 0 => ~empty'
    BY <1>1, <2>1, Sizes DEF AfterReset, Edge, Clock, Mark, NextEmpty
  <2> QED
    BY <1>1, <1>3, <2>1, <2>2, <2>3, <2>4, Sizes DEF AfterReset
<1> QED
  BY <1>1, <1>2, <1>3, Sizes

LEMMA InitIInv == Init => IInv
<1> SUFFICES ASSUME Init PROVE IInv
  OBVIOUS
<1>1. TypeOK
  BY Sizes DEF Init, TypeOK, Statuses, Entries
<1>2. HeadBeforeOldest
  BY Sizes DEF Init, HeadBeforeOldest, Dist
<1>3. AfterReset
  BY Sizes DEF Init, AfterReset, RobEmpty, Valid
<1> QED
  BY <1>1, <1>2, <1>3 DEF IInv

LEMMA StepIInv == IInv /\ [Next]_vars => IInv'
<1> SUFFICES ASSUME IInv, [Next]_vars PROVE IInv'
  OBVIOUS
<1>1. CASE UNCHANGED vars
  BY <1>1 DEF vars, IInv, TypeOK, HeadBeforeOldest, AfterReset, Dist, T, Valid, RobEmpty
<1>2. CASE Next
  <2>1. PICK adv \in BOOLEAN, kind \in [Slots -> Kinds] \cup {<<>>}, fin \in SUBSET Busy,
             odd \in SUBSET (Busy \cup Slots), cmtcnt \in 0 .. WINDOW, n \in 0 .. MWIDTH :
               /\ Edge(adv, kind, fin, odd, cmtcnt, n)
               /\ adv => kind \in [Slots -> Kinds]
    BY <1>2, NextIsEdge
  <2>2. TypeOK'
    BY <2>1, EdgeTypes DEF IInv
  <2>3. HeadBeforeOldest'
    BY <2>1, <2>2, StepHeadBeforeOldest
  <2>4. AfterReset'
    BY <2>1, StepAfterReset
  <2> QED
    BY <2>2, <2>3, <2>4 DEF IInv
<1> QED
  BY <1>1, <1>2

(* Registers keep their types and the heads never pass the oldest          *)
(* instruction, in every behaviour.                                        *)
THEOREM RingSafety == Spec => [](TypeOK /\ HeadBeforeOldest)
<1>1. IInv => TypeOK /\ HeadBeforeOldest
  BY DEF IInv
<1> QED
  BY InitIInv, StepIInv, <1>1, PTL DEF Spec

-----------------------------------------------------------------------------

(* What leaves is in the run of entries that commit.                       *)
LEMMA LeavingCommits ==
  ASSUME TypeOK,
         NEW adv \in BOOLEAN, NEW kind, NEW fin, NEW odd,
         NEW cmtcnt \in 0 .. WINDOW, NEW n \in 0 .. MWIDTH,
         Edge(adv, kind, fin, odd, cmtcnt, n),
         adv => \A e \in Slots : ~Valid(e),
         NEW e \in Entries, Leaves(e)
  PROVE  \E i \in 0 .. cmtcnt - 1 : e = H(i) /\ Cmt(i)
<1>1. e \in {H(k) : k \in 0 .. cmtcnt - 1}
  <2> SUFFICES ASSUME e \notin {H(k) : k \in 0 .. cmtcnt - 1} PROVE FALSE
    OBVIOUS
  <2>1. ~(adv /\ e \in Slots) /\ st[e] # "empty" /\ st'[e] = "empty"
    BY DEF Leaves, Valid
  <2>2. st'[e] = IF e \in fin THEN "done" ELSE st[e]
    BY <2>1 DEF Edge, Clock, Mark
  <2> QED
    BY <2>1, <2>2
<1> QED
  BY <1>1 DEF Edge, IsCommitCount

(* A group is only queued where all entries are invalid.                   *)
LEMMA QueuedOnInvalid ==
  ASSUME IInv,
         NEW adv \in BOOLEAN, NEW kind, NEW fin, NEW odd,
         NEW cmtcnt \in 0 .. WINDOW, NEW n \in 0 .. MWIDTH,
         Edge(adv, kind, fin, odd, cmtcnt, n)
  PROVE  adv => \A e \in Slots : ~Valid(e)
<1> SUFFICES ASSUME adv PROVE \A e \in Slots : ~Valid(e)
  OBVIOUS
<1>1. room /\ ~empty
  BY Sizes DEF Edge, Clock, Mark, IInv, AfterReset
<1>2. \A e \in Slots : \E k \in 0 .. MWIDTH : e = T(k)
  BY Sizes DEF Slots
<1> QED
  BY <1>1, <1>2 DEF room

(* A group is never queued over an instruction, for any size of buffer.    *)
THEOREM QueueingOverwritesNothing == Spec => NothingOverwritten
<1>1. IInv /\ [Next]_vars => [QueuesOnInvalid]_vars
  <2> SUFFICES ASSUME IInv, Next PROVE QueuesOnInvalid
    OBVIOUS
  <2>1. PICK adv \in BOOLEAN, kind \in [Slots -> Kinds] \cup {<<>>}, fin \in SUBSET Busy,
             odd \in SUBSET (Busy \cup Slots), cmtcnt \in 0 .. WINDOW, n \in 0 .. MWIDTH :
               Edge(adv, kind, fin, odd, cmtcnt, n)
    BY NextIsEdge
  <2>2. adv => \A e \in Slots : ~Valid(e)
    BY <2>1, QueuedOnInvalid
  <2>3. tail' # tail => adv
    BY <2>1 DEF Edge, Clock, Mark
  <2> QED
    BY <2>2, <2>3 DEF QueuesOnInvalid
<1> QED
  BY InitIInv, StepIInv, <1>1, PTL DEF Spec, NothingOverwritten

(* Seen from the tails a leaving entry is a place Dist or more up, and so  *)
(* is every valid one before it, which lies between it and the head.       *)
LEMMA EdgeLeavesInOrder ==
  ASSUME IInv,
         NEW adv \in BOOLEAN, NEW kind, NEW fin, NEW odd,
         NEW cmtcnt \in 0 .. WINDOW, NEW n \in 0 .. MWIDTH,
         Edge(adv, kind, fin, odd, cmtcnt, n)
  PROVE  LeavesInOrder
<1> SUFFICES ASSUME NEW k \in 0 .. ROB_ENTRIES - 1, Leaves(T(k))
             PROVE  /\ st[T(k)] # "busy"
                    /\ \A j \in 0 .. k - 1 : Valid(T(j)) => Leaves(T(j))
  BY DEF LeavesInOrder
<1> USE DEF IInv
<1>1. PICK i \in 0 .. cmtcnt - 1 : T(k) = H(i) /\ Cmt(i)
  <2>1. T(k) \in Entries
    BY RingEntries, Sizes
  <2> QED
    BY <2>1, LeavingCommits, QueuedOnInvalid
<1>2. st[T(k)] # "busy"
  BY <1>1 DEF Cmt
<1>3. Dist \in 0 .. ROB_ENTRIES - 1 /\ i \in 0 .. ROB_ENTRIES - 1
  BY HeadFromTail, Sizes
(* The window does not reach round to the entries below the head.          *)
<1>4. k = Dist + i
  <2>1. ~(k \in 0 .. Dist - 1)
    BY DEF HeadBeforeOldest, Leaves
  <2>2. k >= Dist /\ k - Dist \in 0 .. ROB_ENTRIES - 1 /\ Dist + (k - Dist) = k
    BY <1>3, <2>1, Sizes
  <2>3. CASE Dist + i < ROB_ENTRIES
    <3>1. T(Dist + i) = T(k) /\ Dist + i \in 0 .. ROB_ENTRIES - 1
      BY <1>1, <1>3, <2>3, HeadFromTail, Sizes
    <3> QED
      BY <3>1, TailDistinct
  <2>4. CASE Dist + i >= ROB_ENTRIES
    <3>1. T((Dist + i) - ROB_ENTRIES) = T(k)
      BY <1>1, <1>3, <2>4, HeadFromTail
    <3>2. (Dist + i) - ROB_ENTRIES \in 0 .. ROB_ENTRIES - 1
      BY <1>3, <2>4, Sizes
    <3>3. (Dist + i) - ROB_ENTRIES = k
      BY <3>1, <3>2, TailDistinct
    <3> QED
      BY <3>3, <2>2, <1>3, Sizes
  <2> QED
    BY <2>3, <2>4, <1>3, Sizes
<1>5. ASSUME NEW j \in 0 .. k - 1, Valid(T(j)) PROVE Leaves(T(j))
  <2>1. ~(j \in 0 .. Dist - 1)
    BY <1>5 DEF HeadBeforeOldest
  <2>2. j - Dist \in 0 .. i - 1 /\ Dist + (j - Dist) = j /\ j < ROB_ENTRIES
    BY <1>3, <1>4, <1>5, <2>1, Sizes
  <2>3. T(j) = H(j - Dist) /\ j - Dist \in 0 .. cmtcnt - 1
    BY <1>3, <2>2, HeadFromTail, Sizes
  <2>4. T(j) \in Entries
    BY <2>2, <1>5, RingEntries, Sizes
  <2> QED
    BY <1>5, <2>3, <2>4 DEF Edge, Clock, Mark, Leaves
<1> QED
  BY <1>2, <1>5

(* Instructions commit in order whatever the sizes, although the heads run *)
(* past the tails in an empty buffer.                                      *)
THEOREM CommitIsInOrder == Spec => CommitsInOrder
<1>1. IInv /\ [Next]_vars => [LeavesInOrder]_vars
  <2> SUFFICES ASSUME IInv, Next PROVE LeavesInOrder
    OBVIOUS
  <2>1. PICK adv \in BOOLEAN, kind \in [Slots -> Kinds] \cup {<<>>}, fin \in SUBSET Busy,
             odd \in SUBSET (Busy \cup Slots), cmtcnt \in 0 .. WINDOW, n \in 0 .. MWIDTH :
               Edge(adv, kind, fin, odd, cmtcnt, n)
    BY NextIsEdge
  <2> QED
    BY <2>1, EdgeLeavesInOrder
<1> QED
  BY InitIInv, StepIInv, <1>1, PTL DEF Spec, CommitsInOrder

(* Two places in the window are different entries, so a leaving entry has  *)
(* itself passed the test for the place it stands at.                      *)
LEMMA HeadDistinct ==
  ASSUME TypeOK
  PROVE  \A j, k \in 0 .. WINDOW - 1 : H(j) = H(k) => j = k
<1>1. head \in Nat /\ head < ROB_ENTRIES
  BY Sizes DEF TypeOK, Entries
<1> QED
  BY <1>1, Sizes DEF H, Wrap

(* The first oddball or exception of a clock is the last instruction that  *)
(* commits in it, apart from those stomped on, for any window.             *)
THEOREM OddballIsLast == Spec => OddballCommitsLast
<1>1. IInv /\ [Next]_vars => [OnlyStompedFollowOddball]_vars
  <2> SUFFICES ASSUME IInv, Next,
                      NEW k \in 0 .. WINDOW - 1, NEW j \in 0 .. WINDOW - 1,
                      j < k, Leaves(H(j)), barrier[H(j)], Leaves(H(k))
               PROVE  st[H(k)] = "stomped"
    BY DEF OnlyStompedFollowOddball
  <2>1. PICK adv \in BOOLEAN, kind \in [Slots -> Kinds] \cup {<<>>}, fin \in SUBSET Busy,
             odd \in SUBSET (Busy \cup Slots), cmtcnt \in 0 .. WINDOW, n \in 0 .. MWIDTH :
               Edge(adv, kind, fin, odd, cmtcnt, n)
    BY NextIsEdge
  <2>2. H(k) \in Entries
    BY RingEntries, Sizes DEF IInv
  <2>3. PICK i \in 0 .. cmtcnt - 1 : H(k) = H(i) /\ Cmt(i)
    BY <2>1, <2>2, LeavingCommits, QueuedOnInvalid DEF IInv
  <2>4. i = k
    BY <2>3, HeadDistinct, Sizes DEF IInv
  <2>5. st[H(k)] # "empty" /\ j \in 0 .. k - 1
    BY Sizes DEF Leaves, Valid
  <2> QED
    BY <2>3, <2>4, <2>5 DEF Cmt
<1> QED
  BY InitIInv, StepIInv, <1>1, PTL DEF Spec, OddballCommitsLast

-----------------------------------------------------------------------------
(* The queue read from the ring.  c counts the instructions up to each     *)
(* place of the ring, and so gives each its place in the queue.            *)
In == LossyBuffer!Instruction
One(s) == IF s # "empty" THEN 1 ELSE 0

Counts(s, n, c) ==
  /\ c \in [0 .. n -> Nat] /\ c[0] = 0
  /\ \A i \in 1 .. n : c[i] = c[i - 1] + One(s[i])

IsQueueOf(s, n, c, q) ==
  /\ q \in Seq(In) /\ Len(q) = c[n]
  /\ \A i \in 1 .. n : s[i] # "empty" => q[c[i]] = s[i]
  /\ \A k \in 1 .. c[n] : \E i \in 1 .. n : s[i] # "empty" /\ c[i] = k

LEMMA QueuedSteps ==
  ASSUME NEW s, NEW n \in Nat, Len(s) = n
  PROVE  \E f : /\ Queued(s) = f[n] /\ f[0] = <<>>
                /\ \A i \in 1 .. n :
                     f[i] = IF s[i] # "empty" THEN Append(f[i - 1], s[i]) ELSE f[i - 1]
<1> DEFINE next(q, i) == IF s[i] # "empty" THEN Append(q, s[i]) ELSE q
           Reads(g, m) == g = [i \in 0 .. m |-> IF i = 0 THEN <<>> ELSE next(g[i - 1], i)]
           S == {m \in Nat : \E g : Reads(g, m)}
<1> DEFINE f == CHOOSE g : Reads(g, n)
<1>5. Queued(s) = f[n]
  BY DEF Queued
<1> HIDE DEF next
<1>1. 0 \in S
  <2>1. Reads([i \in 0 .. 0 |-> <<>>], 0)
    OBVIOUS
  <2> QED
    BY <2>1
<1>2. ASSUME NEW m \in Nat, m \in S PROVE m + 1 \in S
  <2>1. PICK g : Reads(g, m)
    BY <1>2
  <2> DEFINE h == [i \in 0 .. m + 1 |-> IF i = m + 1 THEN next(g[m], m + 1) ELSE g[i]]
             k == [i \in 0 .. m + 1 |-> IF i = 0 THEN <<>> ELSE next(h[i - 1], i)]
  <2>2. ASSUME NEW i \in 0 .. m PROVE h[i] = g[i]
    OBVIOUS
  <2>3. ASSUME NEW i \in 0 .. m + 1 PROVE h[i] = k[i]
    <3>1. CASE i = 0
      BY <3>1, <2>1, <2>2
    <3>2. CASE i = m + 1
      <4>1. m \in 0 .. m /\ i - 1 = m /\ i # 0
        BY <3>2
      <4>2. h[i] = next(g[m], i) /\ k[i] = next(h[i - 1], i)
        BY <3>2, <4>1
      <4> HIDE DEF h, k
      <4> QED
        BY <2>2, <4>1, <4>2
    <3>3. CASE i # 0 /\ i # m + 1
      <4>1. i - 1 \in 0 .. m /\ i \in 0 .. m
        BY <3>3
      <4>2. h[i] = g[i] /\ h[i - 1] = g[i - 1]
        BY <2>2, <4>1
      <4>3. g[i] = next(g[i - 1], i)
        BY <2>1, <3>3, <4>1
      <4>4. k[i] = next(h[i - 1], i)
        BY <3>3
      <4> QED
        BY <4>2, <4>3, <4>4
    <3> QED
      BY <3>1, <3>2, <3>3
  <2>4. h = k
    BY <2>3
  <2>5. Reads(h, m + 1)
    BY <2>4
  <2> HIDE DEF h, k, Reads
  <2>6. m + 1 \in Nat /\ \E x : Reads(x, m + 1)
    BY <2>5
  <2> QED
    BY <2>6
<1>3. \E g : Reads(g, n)
  <2> HIDE DEF Reads
  <2>1. Nat \subseteq S
    <3> HIDE DEF S
    <3> QED
      BY <1>1, <1>2, SetInduction
  <2> QED
    BY <2>1
<1>4. Reads(f, n)
  <2> HIDE DEF Reads
  <2> QED
    BY <1>3
<1> HIDE DEF f
<1>6. f[0] = <<>>
  BY <1>4
<1>7. ASSUME NEW i \in 1 .. n PROVE f[i] = next(f[i - 1], i)
  <2>1. i \in 0 .. n /\ i # 0
    OBVIOUS
  <2> QED
    BY <1>4, <2>1
<1> QED
  BY <1>5, <1>6, <1>7 DEF next

(* A count grows by at most one from place to place.                       *)
LEMMA CountsGrow ==
  ASSUME NEW s, NEW n \in Nat, NEW c, Counts(s, n, c)
  PROVE  \A i, j \in 0 .. n : i <= j => c[i] <= c[j] /\ c[j] <= c[i] + (j - i)
<1> DEFINE S == {d \in Nat : \A i \in 0 .. n : i + d <= n =>
                              c[i] <= c[i + d] /\ c[i + d] <= c[i] + d}
<1>1. 0 \in S
  BY DEF Counts
<1>2. ASSUME NEW d \in Nat, d \in S PROVE d + 1 \in S
  <2> SUFFICES ASSUME NEW i \in 0 .. n, i + (d + 1) <= n
               PROVE  c[i] <= c[i + (d + 1)] /\ c[i + (d + 1)] <= c[i] + (d + 1)
    OBVIOUS
  <2> DEFINE j == i + d
  <2>1. j \in 0 .. n /\ j + 1 \in 1 .. n /\ i + (d + 1) = j + 1 /\ (j + 1) - 1 = j
    OBVIOUS
  <2>2. c[i] <= c[j] /\ c[j] <= c[i] + d
    BY <1>2, <2>1
  <2> HIDE DEF j
  <2>3. c[j + 1] = c[j] + One(s[j + 1]) /\ One(s[j + 1]) \in 0 .. 1
    BY <2>1 DEF Counts, One
  <2>4. c[i] \in Nat /\ c[j] \in Nat
    BY <2>1 DEF Counts
  <2>5. c[i] <= c[j + 1] /\ c[j + 1] <= c[i] + (d + 1)
    BY <2>2, <2>3, <2>4
  <2> QED
    BY <2>1, <2>5
<1>3. Nat \subseteq S
  <2> HIDE DEF S
  <2> QED
    BY <1>1, <1>2, SetInduction
<1>4. ASSUME NEW i \in 0 .. n, NEW j \in 0 .. n, i <= j
      PROVE  c[i] <= c[j] /\ c[j] <= c[i] + (j - i)
  <2> DEFINE d == j - i
  <2>1. d \in Nat /\ i + d = j
    BY <1>4
  <2> HIDE DEF d
  <2>2. d \in S
    BY <2>1, <1>3
  <2>3. c[i] <= c[i + d] /\ c[i + d] <= c[i] + d
    BY <2>1, <2>2
  <2> QED
    BY <2>1, <2>3 DEF d
<1> QED
  BY <1>4

LEMMA QueueExists ==
  ASSUME NEW n \in Nat, NEW s \in [1 .. n -> Statuses]
  PROVE  \E c : Counts(s, n, c) /\ IsQueueOf(s, n, c, Queued(s))
<1>1. Len(s) = n /\ \A i \in 1 .. n : s[i] \in Statuses /\ (s[i] # "empty" => s[i] \in In)
  <2>1. Len(s) = n
    OBVIOUS
  <2> QED
    BY <2>1 DEF In, LossyBuffer!Instruction, Statuses
<1>2. PICK f : /\ Queued(s) = f[n] /\ f[0] = <<>>
               /\ \A i \in 1 .. n :
                    f[i] = IF s[i] # "empty" THEN Append(f[i - 1], s[i]) ELSE f[i - 1]
  BY <1>1, QueuedSteps
<1> DEFINE c == [i \in 0 .. n |-> Len(f[i])]
           Upto(i) ==
             /\ f[i] \in Seq(In)
             /\ \A h \in 1 .. i : s[h] # "empty" => Len(f[h]) \in 1 .. Len(f[i])
                                                   /\ f[i][Len(f[h])] = s[h]
             /\ \A k \in 1 .. Len(f[i]) : \E h \in 1 .. i : s[h] # "empty" /\ Len(f[h]) = k
           S == {i \in Nat : i <= n => Upto(i)}
<1>3. 0 \in S
  <2>1. <<>> \in Seq(In) /\ Len(<<>>) = 0 /\ 1 .. 0 = {}
    OBVIOUS
  <2>2. f[0] \in Seq(In) /\ Len(f[0]) = 0
    BY <1>2, <2>1
  <2>3. Upto(0)
    BY <2>1, <2>2
  <2> QED
    BY <2>3
<1>4. ASSUME NEW i \in Nat, i \in S, i + 1 <= n
      PROVE  Upto(i + 1)
  <2> DEFINE j == i + 1
             a == f[i]
             b == f[j]
  <2>0. i <= n /\ j \in 1 .. n /\ j - 1 = i /\ Upto(i)
    BY <1>4
  <2>1. a \in Seq(In) /\ Len(a) \in Nat
    BY <2>0
  <2>2. CASE s[j] = "empty"
    <3>1. b = a
      BY <1>2, <2>0, <2>2
    <3>2. \A h \in 1 .. j : s[h] # "empty" => h \in 1 .. i
      BY <2>0, <2>2
    <3>3. 1 .. i \subseteq 1 .. j
      BY <2>0
    <3> QED
      BY <2>0, <3>1, <3>2, <3>3
  <2>3. CASE s[j] # "empty"
    <3> DEFINE x == s[j]
    <3>1. b = Append(a, x) /\ x \in In
      BY <1>1, <1>2, <2>0, <2>3
    <3> HIDE DEF a, x
    <3>2. /\ b \in Seq(In) /\ Len(b) = Len(a) + 1 /\ b[Len(b)] = x
          /\ \A p \in 1 .. Len(a) : b[p] = a[p]
      <4> HIDE DEF b
      <4> QED
        BY <2>1, <3>1
    <3>3. ASSUME NEW h \in 1 .. j, s[h] # "empty"
          PROVE  Len(f[h]) \in 1 .. Len(b) /\ b[Len(f[h])] = s[h]
      <4>1. CASE h = j
        <5>1. f[h] = b /\ s[h] = x
          BY <4>1 DEF x
        <5>2. Len(b) \in 1 .. Len(b)
          BY <2>1, <3>2
        <5> QED
          BY <3>2, <5>1, <5>2
      <4>2. CASE h \in 1 .. i
        <5>1. Len(f[h]) \in 1 .. Len(a) /\ a[Len(f[h])] = s[h]
          BY <2>0, <3>3, <4>2 DEF a
        <5> HIDE DEF b
        <5> QED
          BY <2>1, <3>2, <5>1
      <4> QED
        BY <2>0, <4>1, <4>2
    <3>4. ASSUME NEW k \in 1 .. Len(b) PROVE \E h \in 1 .. j : s[h] # "empty" /\ Len(f[h]) = k
      <4>1. CASE k = Len(b)
        BY <2>0, <2>3, <4>1
      <4>2. CASE k # Len(b)
        <5>1. k \in 1 .. Len(a)
          <6> HIDE DEF b
          <6> QED
            BY <2>1, <3>2, <4>2
        <5>2. PICK h \in 1 .. i : s[h] # "empty" /\ Len(f[h]) = k
          BY <2>0, <5>1 DEF a
        <5>3. h \in 1 .. j
          BY <2>0
        <5> QED
          BY <5>2, <5>3
      <4> QED
        BY <4>1, <4>2
    <3> QED
      BY <3>2, <3>3, <3>4
  <2> QED
    BY <2>2, <2>3
<1> HIDE DEF Upto
<1>5. \A i \in 0 .. n : Upto(i)
  <2>1. \A i \in Nat : i \in S => i + 1 \in S
    BY <1>4
  <2>2. Nat \subseteq S
    <3> HIDE DEF S
    <3> QED
      BY <1>3, <2>1, SetInduction
  <2> QED
    BY <2>2
<1>6. Counts(s, n, c)
  <2>1. \A i \in 0 .. n : f[i] \in Seq(In)
    BY <1>5 DEF Upto
  <2>2. c \in [0 .. n -> Nat] /\ c[0] = 0
    BY <1>2, <2>1
  <2>3. ASSUME NEW i \in 1 .. n PROVE c[i] = c[i - 1] + One(s[i])
    <3> DEFINE h == i - 1
               a == f[h]
    <3>1. i \in 0 .. n /\ h \in 0 .. n
      OBVIOUS
    <3>2. c[i] = Len(f[i]) /\ c[h] = Len(a) /\ a \in Seq(In)
      BY <2>1, <3>1
    <3>3. f[i] = IF s[i] # "empty" THEN Append(a, s[i]) ELSE a
      BY <1>2
    <3> HIDE DEF a, c
    <3>4. s[i] # "empty" => Len(f[i]) = Len(a) + 1
      BY <3>2, <3>3
    <3>5. c[i] = c[h] + One(s[i])
      BY <3>2, <3>3, <3>4 DEF One
    <3> QED
      BY <3>5
  <2> HIDE DEF c
  <2> QED
    BY <2>2, <2>3 DEF Counts
<1>7. IsQueueOf(s, n, c, Queued(s))
  <2>1. Upto(n) /\ n \in 0 .. n
    BY <1>5
  <2>2. \A i \in 1 .. n : c[i] = Len(f[i])
    OBVIOUS
  <2>3. c[n] = Len(f[n])
    BY <2>1
  <2> HIDE DEF c
  <2>4. f[n] \in Seq(In) /\ Len(f[n]) = c[n]
    BY <2>1, <2>3 DEF Upto
  <2>5. \A i \in 1 .. n : s[i] # "empty" => f[n][c[i]] = s[i]
    BY <2>1, <2>2 DEF Upto
  <2>6. \A k \in 1 .. c[n] : \E i \in 1 .. n : s[i] # "empty" /\ c[i] = k
    BY <2>1, <2>2, <2>3 DEF Upto
  <2> QED
    BY <1>2, <2>4, <2>5, <2>6 DEF IsQueueOf
<1> QED
  BY <1>6, <1>7

(* The places of a ring before and after a clock.  The first m places are  *)
(* left, the ring starts d places further up, and what is behind the       *)
(* places that were there is new.                                          *)
LEMMA QueueAdvances ==
  ASSUME NEW n \in Nat, NEW s \in [1 .. n -> Statuses], NEW t \in [1 .. n -> Statuses],
         NEW d \in 0 .. n, NEW m \in 0 .. n,
         \A i \in 1 .. d : s[i] = "empty",
         \A i \in 1 .. m : s[i] # "busy",
         \A i \in 1 .. n - d : i + d <= m => t[i] = "empty",
         \A i \in 1 .. n - d : i + d > m =>
            IF s[i + d] = "empty" THEN t[i] = "empty" ELSE t[i] \in LossyBuffer!Later(s[i + d])
  PROVE  LET q == Queued(s)
             r == Queued(t)
         IN  \E out \in 0 .. Len(q) :
               /\ \A k \in 1 .. out : q[k] # "busy"
               /\ Len(r) \in Len(q) - out .. Len(q) - out + d
               /\ Len(r) <= n
               /\ \A k \in 1 .. Len(q) - out : r[k] \in LossyBuffer!Later(q[out + k])
               /\ \A k \in Len(q) - out + 1 .. Len(r) : r[k] \in In
<1> DEFINE q == Queued(s)
           r == Queued(t)
<1>1. PICK c : Counts(s, n, c) /\ IsQueueOf(s, n, c, q)
  BY QueueExists
<1>2. PICK b : Counts(t, n, b) /\ IsQueueOf(t, n, b, r)
  BY QueueExists
<1> HIDE DEF q, r
<1>3. /\ \A i \in 0 .. n : c[i] \in Nat /\ b[i] \in Nat
      /\ \A i \in 1 .. n : c[i] = c[i - 1] + One(s[i]) /\ b[i] = b[i - 1] + One(t[i])
      /\ c[0] = 0 /\ b[0] = 0
      /\ Len(q) = c[n] /\ Len(r) = b[n]
  BY <1>1, <1>2 DEF Counts, IsQueueOf
<1>4. \A i, j \in 0 .. n : i <= j => /\ c[i] <= c[j] /\ c[j] <= c[i] + (j - i)
                                     /\ b[i] <= b[j] /\ b[j] <= b[i] + (j - i)
  BY <1>1, <1>2, CountsGrow
<1>5. \A x : One(x) \in 0 .. 1 /\ (x = "empty" => One(x) = 0) /\ (x # "empty" => One(x) = 1)
  BY DEF One
<1>6. c[d] = 0
  <2> DEFINE S == {i \in Nat : i <= d => c[i] = 0}
  <2>1. 0 \in S
    BY <1>3
  <2>2. ASSUME NEW i \in Nat, i \in S PROVE i + 1 \in S
    <3> SUFFICES ASSUME i + 1 <= d PROVE c[i + 1] = 0
      OBVIOUS
    <3> DEFINE j == i + 1
    <3>1. j \in 1 .. d /\ j \in 1 .. n /\ j - 1 = i /\ c[i] = 0
      BY <2>2
    <3> HIDE DEF j
    <3>2. c[j] = c[i] + One(s[j]) /\ One(s[j]) = 0
      BY <1>3, <1>5, <3>1
    <3> QED
      BY <3>1, <3>2 DEF j
  <2>3. Nat \subseteq S
    <3> HIDE DEF S
    <3> QED
      BY <2>1, <2>2, SetInduction
  <2> QED
    BY <2>3
<1> DEFINE out == c[m]
           last == n - d
<1>7. out \in 0 .. Len(q) /\ last \in 0 .. n
  <2>0. m \in 0 .. n /\ n \in 0 .. n /\ m <= n
    OBVIOUS
  <2>1. c[m] <= c[n] /\ c[m] \in Nat /\ c[n] \in Nat
    BY <2>0, <1>3, <1>4
  <2> QED
    BY <2>1, <1>3
(* What was before the new places is counted as it was. *)
<1>8. \A i \in 0 .. last : b[i] = IF i + d <= m THEN 0 ELSE c[i + d] - out
  <2> DEFINE S == {i \in Nat : i <= last => b[i] = IF i + d <= m THEN 0 ELSE c[i + d] - out}
  <2>1. 0 \in S
    <3>1. 0 + d = d /\ (~(d <= m) => m <= d)
      OBVIOUS
    <3>2. ~(d <= m) => out = 0
      <4>1. m <= d => c[m] <= c[d] /\ c[m] \in Nat
        BY <1>3, <1>4
      <4> QED
        BY <4>1, <3>1, <1>6
    <3> QED
      BY <1>3, <1>6, <3>1, <3>2
  <2>2. ASSUME NEW i \in Nat, i \in S PROVE i + 1 \in S
    <3> DEFINE j == i + 1
    <3> SUFFICES ASSUME j <= last PROVE b[j] = IF j + d <= m THEN 0 ELSE c[j + d] - out
      OBVIOUS
    <3>1. /\ i <= last /\ j \in 1 .. last /\ j \in 1 .. n /\ j - 1 = i
          /\ j + d \in 1 .. n /\ (j + d) - 1 = i + d /\ i + d \in 0 .. n
      BY <1>7
    <3>2. b[i] = IF i + d <= m THEN 0 ELSE c[i + d] - out
      BY <2>2, <3>1
    <3>3. b[j] = b[i] + One(t[j])
      BY <1>3, <3>1
    <3>4. CASE j + d <= m
      <4>1. t[j] = "empty" /\ i + d <= m
        BY <3>1, <3>4
      <4> QED
        BY <4>1, <3>2, <3>3, <3>4, <1>5
    <3>5. CASE ~(j + d <= m)
      <4>1. One(t[j]) = One(s[j + d])
        <5>1. IF s[j + d] = "empty" THEN t[j] = "empty" ELSE t[j] \in LossyBuffer!Later(s[j + d])
          BY <3>1, <3>5
        <5>2. s[j + d] # "empty" => t[j] # "empty"
          BY <5>1 DEF LossyBuffer!Later
        <5> QED
          BY <5>1, <5>2, <1>5
      <4>2. c[j + d] = c[i + d] + One(s[j + d])
        BY <1>3, <3>1
      <4>3. b[i] = c[i + d] - out
        <5>1. i + d <= m => i + d = m
          BY <3>1, <3>5
        <5>2. i + d = m => c[i + d] - out = 0
          BY <1>3
        <5> QED
          BY <3>2, <5>1, <5>2
      <4>4. /\ c[i + d] \in Nat /\ out \in Nat /\ b[i] \in Nat /\ One(s[j + d]) \in Nat
            /\ c[j + d] \in Nat
        <5>1. i \in 0 .. n /\ j + d \in 0 .. n /\ m \in 0 .. n
          BY <3>1
        <5>2. c[i + d] \in Nat /\ out \in Nat /\ b[i] \in Nat /\ c[j + d] \in Nat
          BY <1>3, <3>1, <5>1
        <5>3. One(s[j + d]) \in Nat
          BY <1>5
        <5> QED
          BY <5>2, <5>3
      <4>5. b[j] = c[j + d] - out
        <5> HIDE DEF out, j
        <5> QED
          BY <3>3, <4>1, <4>2, <4>3, <4>4
      <4> QED
        BY <3>5, <4>5
    <3> QED
      BY <3>4, <3>5
  <2>3. Nat \subseteq S
    <3> HIDE DEF S
    <3> QED
      BY <2>1, <2>2, SetInduction
  <2> QED
    BY <2>3, <1>7
<1> DEFINE staying == Len(q) - out
<1>9. b[last] = staying /\ staying \in Nat
  <2>1. last + d = n /\ last \in 0 .. last
    BY <1>7
  <2>2. last + d <= m => m = n
    BY <2>1
  <2> QED
    BY <1>3, <1>7, <1>8, <2>1, <2>2
<1>10. Len(r) \in staying .. staying + d /\ Len(r) <= n
  <2>1. b[last] <= b[n] /\ b[n] <= b[last] + (n - last) /\ n - last = d
    BY <1>4, <1>7
  <2>2. b[0] <= b[n] /\ b[n] <= b[0] + (n - 0)
    BY <1>4
  <2> QED
    BY <1>3, <1>9, <2>1, <2>2
<1>11. ASSUME NEW k \in 1 .. out PROVE q[k] # "busy"
  <2>1. k \in 1 .. c[n]
    BY <1>3, <1>7
  <2>2. PICK i \in 1 .. n : s[i] # "empty" /\ c[i] = k
    BY <1>1, <2>1 DEF IsQueueOf
  <2>3. q[k] = s[i]
    BY <1>1, <2>2 DEF IsQueueOf
  <2>4. i <= m
    <3> SUFFICES ASSUME m < i PROVE FALSE
      OBVIOUS
    <3> DEFINE h == i - 1
    <3>1. h \in 0 .. n /\ m <= h
      OBVIOUS
    <3>2. c[m] <= c[h] /\ c[i] = c[h] + 1 /\ c[h] \in Nat /\ c[m] \in Nat
      <4>1. c[i] = c[h] + One(s[i]) /\ One(s[i]) = 1
        BY <1>3, <1>5, <2>2
      <4> HIDE DEF h
      <4> QED
        BY <1>3, <1>4, <3>1, <4>1
    <3> HIDE DEF h
    <3> QED
      BY <2>2, <3>2
  <2> QED
    BY <2>3, <2>4
<1>12. ASSUME NEW k \in 1 .. staying PROVE r[k] \in LossyBuffer!Later(q[out + k])
  <2>1. k \in 1 .. b[n]
    BY <1>3, <1>9, <1>10
  <2>2. PICK i \in 1 .. n : t[i] # "empty" /\ b[i] = k
    BY <1>2, <2>1 DEF IsQueueOf
  <2>3. r[k] = t[i]
    BY <1>2, <2>2 DEF IsQueueOf
  <2>4. i <= last
    <3> SUFFICES ASSUME last < i PROVE FALSE
      BY <1>7
    <3> DEFINE h == i - 1
    <3>1. h \in 0 .. n /\ last <= h
      BY <1>7
    <3>2. b[last] <= b[h] /\ b[i] = b[h] + 1 /\ b[h] \in Nat /\ b[last] \in Nat
      <4>1. b[i] = b[h] + One(t[i]) /\ One(t[i]) = 1
        BY <1>3, <1>5, <2>2
      <4> HIDE DEF h
      <4> QED
        BY <1>3, <1>4, <1>7, <3>1, <4>1
    <3> HIDE DEF h, last, staying
    <3> QED
      BY <1>9, <2>2, <3>2
  <2>5. i + d \in 1 .. n /\ i \in 1 .. last
    BY <1>7, <2>4
  <2>6. i + d > m
    BY <2>2, <2>5
  <2>7. s[i + d] # "empty" /\ t[i] \in LossyBuffer!Later(s[i + d])
    BY <2>2, <2>5, <2>6
  <2>8. c[i + d] = out + k
    <3>1. b[i] = c[i + d] - out
      BY <1>8, <2>5, <2>6
    <3>2. c[i + d] \in Nat /\ out \in Nat
      BY <1>3, <2>5
    <3> QED
      BY <2>2, <3>1, <3>2
  <2>9. q[out + k] = s[i + d]
    BY <1>1, <2>5, <2>7, <2>8 DEF IsQueueOf
  <2> QED
    BY <2>3, <2>7, <2>9
<1>13. \A k \in staying + 1 .. Len(r) : r[k] \in In
  <2>1. r \in Seq(In)
    BY <1>2 DEF IsQueueOf
  <2> HIDE DEF staying
  <2>2. \A k \in staying + 1 .. Len(r) : k \in 1 .. Len(r)
    BY <1>9
  <2> QED
    BY <2>1, <2>2
<1> QED
  BY <1>7, <1>10, <1>11, <1>12, <1>13 DEF q, r

(* The places of the ring in a clock.                                      *)
LEMMA EdgeOnRing ==
  ASSUME IInv, TypeOK',
         NEW adv \in BOOLEAN, NEW kind, NEW fin, NEW odd,
         NEW cmtcnt \in 0 .. WINDOW, NEW h \in 0 .. MWIDTH,
         Edge(adv, kind, fin, odd, cmtcnt, h),
         adv => kind \in [Slots -> Kinds]
  PROVE  LET d == IF adv THEN MWIDTH ELSE 0
             m == IF Dist + cmtcnt >= ROB_ENTRIES THEN ROB_ENTRIES ELSE Dist + cmtcnt
             s == RingOrder
             t == RingOrder'
         IN  /\ d \in 0 .. ROB_ENTRIES /\ m \in 0 .. ROB_ENTRIES
             /\ s \in [1 .. ROB_ENTRIES -> Statuses] /\ t \in [1 .. ROB_ENTRIES -> Statuses]
             /\ \A i \in 1 .. d : s[i] = "empty"
             /\ \A i \in 1 .. m : s[i] # "busy"
             /\ \A i \in 1 .. ROB_ENTRIES - d : i + d <= m => t[i] = "empty"
             /\ \A i \in 1 .. ROB_ENTRIES - d : i + d > m =>
                  IF s[i + d] = "empty" THEN t[i] = "empty"
                  ELSE t[i] \in LossyBuffer!Later(s[i + d])
<1> DEFINE N == ROB_ENTRIES
           d == IF adv THEN MWIDTH ELSE 0
           m == IF Dist + cmtcnt >= N THEN N ELSE Dist + cmtcnt
           s == RingOrder
           t == RingOrder'
           committed == {H(k) : k \in 0 .. cmtcnt - 1}
<1>1. /\ fin \subseteq Busy /\ IsCommitCount(cmtcnt)
      /\ st' = [e \in Entries |->
                  IF e \in committed THEN "empty"
                  ELSE IF adv /\ e \in Slots THEN kind[e]
                  ELSE IF e \in fin THEN "done" ELSE st[e]]
      /\ tail' = IF adv THEN T(MWIDTH) ELSE tail
  BY DEF Edge, Clock, Mark
<1>2. /\ TypeOK /\ HeadBeforeOldest
      /\ Dist \in 0 .. N - 1 /\ N \in Nat /\ MWIDTH \in Nat /\ MWIDTH < N
      /\ cmtcnt \in Nat /\ cmtcnt < N
      /\ tail \in Nat /\ tail < N
  <2>1. TypeOK /\ HeadBeforeOldest
    BY DEF IInv
  <2>2. tail \in Nat /\ tail < N
    BY <2>1, Sizes DEF TypeOK, Entries
  <2> QED
    BY <2>1, <2>2, HeadFromTail, Sizes
<1>3. d \in 0 .. N /\ m \in 0 .. N /\ d \in Nat
  BY <1>2
<1>4. \A k \in 0 .. N - 1 : T(k) \in Entries /\ T(k)' \in Entries
  <2>1. tail' \in Nat /\ tail' < N
    BY Sizes DEF TypeOK, Entries
  <2>2. \A i \in Nat : \A k \in 0 .. N - 1 : i < N => Wrap(i + k) \in Entries
    BY <1>2 DEF Wrap, Entries
  <2> QED
    BY <1>2, <2>1, <2>2 DEF T
<1>5. ASSUME NEW i \in 1 .. N
      PROVE  s[i] = st[T(i - 1)] /\ t[i] = st'[T(i - 1)'] /\ i - 1 \in 0 .. N - 1
  BY <1>2 DEF RingOrder
<1>6. s \in [1 .. N -> Statuses] /\ t \in [1 .. N -> Statuses]
  <2>1. \A i \in 1 .. N : i - 1 \in 0 .. N - 1
    BY <1>2
  <2>2. \A i \in 1 .. N : st[T(i - 1)] \in Statuses /\ st'[T(i - 1)'] \in Statuses
    BY <1>2, <1>4, <2>1 DEF TypeOK
  <2> QED
    BY <2>2 DEF RingOrder
<1> HIDE DEF d, m, committed
<1>7. ASSUME NEW i \in 1 .. N - d
      PROVE  /\ i + d \in 1 .. N /\ (i + d) - 1 \in 0 .. N - 1 /\ (i + d) - 1 >= d
             /\ s[i + d] = st[T((i + d) - 1)] /\ t[i] = st'[T((i + d) - 1)]
  <2>1. i + d \in 1 .. N /\ i \in 1 .. N /\ (i + d) - 1 \in 0 .. N - 1 /\ (i + d) - 1 >= d
    BY <1>2, <1>3
  <2>2. T(i - 1)' = T((i + d) - 1)
    <3>1. tail' = IF tail + d < N THEN tail + d ELSE tail + d - N
      BY <1>1, <1>2 DEF d, T, Wrap
    <3> QED
      BY <1>2, <1>3, <2>1, <3>1 DEF T, Wrap
  <2> HIDE DEF s, t
  <2>3. s[i + d] = st[T((i + d) - 1)] /\ t[i] = st'[T(i - 1)']
    BY <1>5, <2>1
  <2> QED
    BY <2>1, <2>2, <2>3
(* An entry before the m-th is passed by the heads or commits. *)
<1>8. ASSUME NEW k \in 0 .. N - 1, k < m
      PROVE  (k < Dist /\ st[T(k)] = "empty") \/ \E j \in 0 .. cmtcnt - 1 : T(k) = H(j)
  <2>1. CASE k < Dist
    BY <1>2, <2>1 DEF HeadBeforeOldest, Valid
  <2>2. CASE k >= Dist
    <3> DEFINE j == k - Dist
    <3>1. j \in 0 .. cmtcnt - 1 /\ j \in 0 .. N - 1 /\ Dist + j = k
      BY <1>2, <1>8, <2>2 DEF m
    <3> HIDE DEF j
    <3>2. T(k) = H(j)
      BY <1>2, <3>1, HeadFromTail
    <3> QED
      BY <3>1, <3>2
  <2> QED
    BY <1>2, <2>1, <2>2
(* No other commits. *)
<1>9. ASSUME NEW k \in 0 .. N - 1, k >= m
      PROVE  T(k) \notin committed
  <2> SUFFICES ASSUME NEW j \in 0 .. cmtcnt - 1, T(k) = H(j) PROVE FALSE
    BY DEF committed
  <2>1. Dist + j < N /\ Dist + j < m /\ Dist + j \in 0 .. N - 1 /\ j \in 0 .. N - 1
    BY <1>2, <1>9 DEF m
  <2>2. T(Dist + j) = H(j)
    BY <1>2, <2>1, HeadFromTail
  <2>3. k = Dist + j
    BY <1>2, <2>1, <2>2, TailDistinct
  <2> QED
    BY <1>9, <2>1, <2>3, <1>3
<1>10. ASSUME NEW k \in 0 .. N - 1, k >= d
       PROVE  ~(adv /\ T(k) \in Slots)
  <2> SUFFICES ASSUME adv, NEW j \in 0 .. MWIDTH - 1, T(k) = T(j) PROVE FALSE
    BY DEF Slots
  <2>1. j \in 0 .. N - 1
    BY <1>2
  <2>2. k = j
    BY <1>2, <2>1, TailDistinct
  <2> QED
    BY <1>10, <1>2, <2>2 DEF d
<1>11. \A e \in fin : st[e] = "busy"
  BY <1>1 DEF Busy
<1>12. \A i \in 1 .. d : s[i] = "empty"
  <2> SUFFICES ASSUME adv, NEW i \in 1 .. MWIDTH PROVE s[i] = "empty"
    BY DEF d
  <2>1. T(i - 1) \in Slots /\ i \in 1 .. N
    BY <1>2 DEF Slots
  <2>2. ~Valid(T(i - 1))
    BY <2>1, QueuedOnInvalid
  <2> QED
    BY <1>5, <2>1, <2>2 DEF Valid
<1>13. ASSUME NEW i \in 1 .. m PROVE s[i] # "busy"
  <2> DEFINE k == i - 1
  <2>1. k \in 0 .. N - 1 /\ k < m /\ i \in 1 .. N
    BY <1>2, <1>3
  <2>2. s[i] = st[T(k)]
    BY <1>5, <2>1
  <2> HIDE DEF k
  <2>3. st[T(k)] # "busy"
    <3>1. \A j \in 0 .. cmtcnt - 1 : st[H(j)] # "busy"
      BY <1>1 DEF IsCommitCount, Cmt
    <3> QED
      BY <1>8, <2>1, <3>1
  <2> QED
    BY <2>2, <2>3
<1>14. ASSUME NEW i \in 1 .. N - d, i + d <= m PROVE t[i] = "empty"
  <2> DEFINE k == (i + d) - 1
  <2>1. k \in 0 .. N - 1 /\ k < m /\ k >= d /\ t[i] = st'[T(k)] /\ T(k) \in Entries
    BY <1>3, <1>4, <1>7, <1>14
  <2> HIDE DEF k
  <2>2. ~(adv /\ T(k) \in Slots)
    BY <1>10, <2>1
  <2>3. CASE T(k) \in committed
    BY <1>1, <2>1, <2>3
  <2>4. CASE T(k) \notin committed
    <3>1. st[T(k)] = "empty"
      BY <1>8, <2>1, <2>4 DEF committed
    <3> QED
      BY <1>1, <1>11, <2>1, <2>2, <2>4, <3>1
  <2> QED
    BY <2>3, <2>4
<1>15. ASSUME NEW i \in 1 .. N - d, i + d > m
       PROVE  IF s[i + d] = "empty" THEN t[i] = "empty" ELSE t[i] \in LossyBuffer!Later(s[i + d])
  <2> DEFINE k == (i + d) - 1
  <2>1. /\ k \in 0 .. N - 1 /\ k >= m /\ k >= d /\ T(k) \in Entries
        /\ t[i] = st'[T(k)] /\ s[i + d] = st[T(k)]
    BY <1>3, <1>4, <1>7, <1>15
  <2> HIDE DEF k
  <2>2. ~(adv /\ T(k) \in Slots) /\ T(k) \notin committed
    BY <1>9, <1>10, <2>1
  <2>3. st'[T(k)] = IF T(k) \in fin THEN "done" ELSE st[T(k)]
    BY <1>1, <2>1, <2>2
  <2>4. T(k) \in fin => st[T(k)] = "busy"
    BY <1>11
  <2> QED
    BY <2>1, <2>3, <2>4 DEF LossyBuffer!Later
<1> QED
  BY <1>3, <1>6, <1>12, <1>13, <1>14, <1>15 DEF d, m

(* The tail moves whenever a group is queued.                              *)
LEMMA TailMoves ==
  ASSUME IInv, NEW adv \in BOOLEAN, NEW kind, NEW fin, NEW odd, NEW cmtcnt, NEW h,
         Edge(adv, kind, fin, odd, cmtcnt, h), tail' = tail
  PROVE  ~adv
<1> SUFFICES ASSUME adv PROVE FALSE
  OBVIOUS
<1>1. tail' = T(MWIDTH)
  BY DEF Edge, Clock, Mark
<1>2. tail \in Nat /\ tail < ROB_ENTRIES
  BY Sizes DEF IInv, TypeOK, Entries
<1>3. ROB_ENTRIES \in Nat /\ MWIDTH \in Nat /\ 0 < MWIDTH /\ MWIDTH < ROB_ENTRIES
  BY Sizes
<1> QED
  BY <1>1, <1>2, <1>3 DEF T, Wrap

(* Every clock of the ring is a clock of the queue.                        *)
LEMMA StepIsAdvance ==
  IInv /\ TypeOK' /\ [Next]_vars => [LossyBuffer!Next]_<<Queued(RingOrder), tail>>
<1> SUFFICES ASSUME IInv, TypeOK', [Next]_vars PROVE [LossyBuffer!Next]_<<Queued(RingOrder), tail>>
  OBVIOUS
<1>1. CASE UNCHANGED vars
  BY <1>1 DEF vars, RingOrder, T
<1>2. CASE Next
  <2>1. PICK adv \in BOOLEAN, kind \in [Slots -> Kinds] \cup {<<>>}, fin \in SUBSET Busy,
             odd \in SUBSET (Busy \cup Slots), cmtcnt \in 0 .. WINDOW, h \in 0 .. MWIDTH :
               /\ Edge(adv, kind, fin, odd, cmtcnt, h)
               /\ adv => kind \in [Slots -> Kinds]
    BY <1>2, NextIsEdge
  <2> DEFINE d == IF adv THEN MWIDTH ELSE 0
             m == IF Dist + cmtcnt >= ROB_ENTRIES THEN ROB_ENTRIES ELSE Dist + cmtcnt
             s == RingOrder
             t == RingOrder'
             q == Queued(s)
             r == Queued(t)
  <2>2. /\ d \in 0 .. ROB_ENTRIES /\ m \in 0 .. ROB_ENTRIES
        /\ s \in [1 .. ROB_ENTRIES -> Statuses] /\ t \in [1 .. ROB_ENTRIES -> Statuses]
        /\ \A i \in 1 .. d : s[i] = "empty"
        /\ \A i \in 1 .. m : s[i] # "busy"
        /\ \A i \in 1 .. ROB_ENTRIES - d : i + d <= m => t[i] = "empty"
        /\ \A i \in 1 .. ROB_ENTRIES - d : i + d > m =>
             IF s[i + d] = "empty" THEN t[i] = "empty"
             ELSE t[i] \in LossyBuffer!Later(s[i + d])
    BY <2>1, EdgeOnRing
  <2>3. ROB_ENTRIES \in Nat /\ d \in 0 .. MWIDTH /\ MWIDTH \in Nat
    BY Sizes
  <2> HIDE DEF d, m, s, t
  <2>4. PICK out \in 0 .. Len(q) :
          /\ \A k \in 1 .. out : q[k] # "busy"
          /\ Len(r) \in Len(q) - out .. Len(q) - out + d
          /\ Len(r) <= ROB_ENTRIES
          /\ \A k \in 1 .. Len(q) - out : r[k] \in LossyBuffer!Later(q[out + k])
          /\ \A k \in Len(q) - out + 1 .. Len(r) : r[k] \in In
    BY <2>2, <2>3, QueueAdvances
  <2>5. Len(q) \in Nat /\ Len(r) \in Nat
    BY <2>2, <2>3, QueueExists DEF IsQueueOf
  <2>6. \E new \in LossyBuffer!Entering : Len(r) = Len(q) - out + new
    <3> DEFINE new == Len(r) - (Len(q) - out)
    <3> HIDE DEF q, r
    <3>1. new \in 0 .. d /\ Len(r) = Len(q) - out + new
      BY <2>3, <2>4, <2>5
    <3> HIDE DEF new
    <3>2. tail' = tail => d = 0
      BY <2>1, TailMoves DEF d
    <3>3. new \in LossyBuffer!Entering
      <4>1. tail' = tail => new \in {0}
        BY <3>1, <3>2
      <4>2. new \in 0 .. MWIDTH
        BY <2>3, <3>1
      <4> QED
        BY <4>1, <4>2 DEF LossyBuffer!Entering
    <3> QED
      BY <3>1, <3>3
  <2>7. q = Queued(RingOrder) /\ r = Queued(RingOrder)'
    BY DEF s, t
  <2> HIDE DEF q, r
  <2>8. LossyBuffer!Advance(out)
    BY <2>4, <2>6, <2>7 DEF LossyBuffer!Advance, In
  <2> QED
    BY <2>4, <2>7, <2>8 DEF LossyBuffer!Next
<1> QED
  BY <1>1, <1>2

LEMMA StartsEmpty == Init => LossyBuffer!Init
<1> SUFFICES ASSUME Init PROVE Queued(RingOrder) = <<>>
  BY DEF LossyBuffer!Init
<1>1. TypeOK /\ \A e \in Entries : st[e] = "empty"
  BY InitIInv DEF Init, IInv
<1>2. ROB_ENTRIES \in Nat
  BY Sizes
<1>3. \A i \in 1 .. ROB_ENTRIES : T(i - 1) \in Entries
  <2>1. \A i \in 1 .. ROB_ENTRIES : i - 1 \in 0 .. ROB_ENTRIES
    BY <1>2
  <2> QED
    BY <1>1, <2>1, RingEntries
<1> DEFINE s == RingOrder
<1>4. s \in [1 .. ROB_ENTRIES -> Statuses] /\ \A i \in 1 .. ROB_ENTRIES : s[i] = "empty"
  BY <1>1, <1>3 DEF RingOrder, Statuses
<1> HIDE DEF s
<1>5. PICK c : IsQueueOf(s, ROB_ENTRIES, c, Queued(s)) /\ Counts(s, ROB_ENTRIES, c)
  BY <1>2, <1>4, QueueExists
<1>6. c[ROB_ENTRIES] = 0
  <2>1. c[ROB_ENTRIES] \in Nat
    BY <1>2, <1>5 DEF Counts
  <2>2. ~(1 \in 1 .. c[ROB_ENTRIES])
    BY <1>4, <1>5 DEF IsQueueOf
  <2> QED
    BY <2>1, <2>2
<1>7. Queued(s) \in Seq(In) /\ Len(Queued(s)) = 0
  BY <1>5, <1>6 DEF IsQueueOf
<1> QED
  BY <1>7 DEF s

(* The ring of the re-order buffer is a queue from which instructions are  *)
(* lost in the clock they are queued in and in no other: what is in it     *)
(* stays in its order, finishes in any order and leaves from the front,    *)
(* none of it before it has finished or was stomped on, and nothing enters *)
(* without a group taking its place at the tail.  The group itself need    *)
(* not enter whole: the commit of Qupls4.sv 7243 clears entries the queue  *)
(* of 6529 writes in the same clock.                                       *)
THEOREM RingLosesOnlyOnEntry == Spec => LosesOnlyOnEntry
<1>1. IInv => TypeOK
  BY DEF IInv
<1> QED
  BY <1>1, InitIInv, StepIInv, StepIsAdvance, StartsEmpty, PTL
     DEF Spec, LosesOnlyOnEntry, LossyBuffer!Spec
=============================================================================
