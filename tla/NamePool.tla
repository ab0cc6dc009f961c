------------------------------ MODULE NamePool ------------------------------
(***************************************************************************)
(* What a supplier of names promises: a name is free, held by instructions *)
(* that were given it, or on its way back, and is only given out when it   *)
(* is free and only becomes free again after it was given back.            *)
(***************************************************************************)
CONSTANT Names

VARIABLES
  free,   \* names that may be given out
  held    \* names that instructions hold; the others are on their way back

OnTheWay == Names \ (free \cup held)

Init == free = Names /\ held = {}

(* In one clock the names in take are given out, those in give are given   *)
(* back, and those in back, given back earlier, become free.               *)
Exchange(take, give, back) ==
  /\ free' = (free \ take) \cup back
  /\ held' = (held \ give) \cup take

Next == \E take \in SUBSET free, give \in SUBSET held, back \in SUBSET OnTheWay :
          Exchange(take, give, back)

Spec == Init /\ [][Next]_<<free, held>>
=============================================================================
