----------------------- MODULE RegNameSupplierProofs -----------------------
(***************************************************************************)
(* No name is lost or doubly owned, for every number and size of pools,    *)
(* every length of the delay line and every choice of groups and frees,    *)
(* up to the first clock that hands one name to two slots.                 *)
(***************************************************************************)
EXTENDS RegNameSupplier, FiniteSetTheorems, TLAPS

IInv == TypeOK /\ NamesPartition

(* The slots that take one name are finitely many.                         *)
LEMMA HoldingSlotsFinite == \A n, en : IsFiniteSet({i \in Slots : Holds(i, n, en)})
<1>1. IsFiniteSet(Slots)
  <2>1. \A a, b \in Int : IsFiniteSet(a .. b)
    BY FS_Interval
  <2>2. 0 \in Int /\ 3 \in Int
    OBVIOUS
  <2> QED
    BY <2>1, <2>2, Zenon DEF Slots
<1> QED
  BY <1>1, FS_Subset

LEMMA NewHoldersType == \A n, en : NewHolders(n, en) \in Nat
  BY HoldingSlotsFinite, FS_CardinalityType DEF NewHolders

(* In a clock that hands no name to two slots, a name gains one holder if  *)
(* it is popped and none otherwise.                                        *)
LEMMA NewHoldersValue ==
  ASSUME NEW n, NEW en \in BOOLEAN, ~PoppedTwice(en)
  PROVE  NewHolders(n, en) = IF n \in Popped(en) THEN 1 ELSE 0
<1> DEFINE S == {i \in Slots : Holds(i, n, en)}
<1>1. CASE n \in Popped(en)
  <2>1. PICK i \in Slots : Holds(i, n, en)
    BY <1>1 DEF Popped, Holds
  <2>2. \A j \in Slots : Holds(j, n, en) => j = i
    BY <2>1 DEF PoppedTwice, Holds
  <2>3. S = {i}
    BY <2>1, <2>2
  <2> QED
    BY <1>1, <2>3, FS_Singleton DEF NewHolders
<1>2. CASE n \notin Popped(en)
  <2>1. S = {}
    BY <1>2 DEF Popped, Holds
  <2> QED
    BY <1>2, <2>1, FS_EmptySet DEF NewHolders
<1> QED
  BY <1>1, <1>2

(* Only names in the bitmap are popped.                                    *)
LEMMA PoppedAvailable ==
  ASSUME TypeOK, NEW en, NEW n \in Popped(en)
  PROVE  n \in Names /\ InBitmap(n)
<1>1. PICK i \in Slots : Ov(i) /\ n = Name(i)
  BY DEF Popped
<1>2. dec[i] \in Pools
  BY <1>1 DEF Ov, Req, TypeOK
<1>3. n[1] = dec[i] /\ n[2] \in avail[dec[i]] /\ n = <<n[1], n[2]>>
  BY <1>1 DEF Ov, IsAvail, Name
<1> QED
  BY <1>2, <1>3 DEF TypeOK, Names, InBitmap

LEMMA InitIInv == Init => IInv
<1> SUFFICES ASSUME Init PROVE IInv
  OBVIOUS
<1>1. TypeOK
  BY DEF Init, ResetAvail, TypeOK
<1>2. ASSUME NEW n \in Names PROVE OnePlace(n)
  <2>1. holders[n] = 0 /\ InBitmap(n) /\ \A k \in Stages : ~InStage(n, k)
    BY <1>2 DEF Init, ResetAvail, Names, InBitmap, InStage
  <2> QED
    BY <2>1 DEF OnePlace
<1> QED
  BY <1>1, <1>2 DEF IInv, NamesPartition

(* A clock preserves the types.                                            *)
LEMMA ClockTypes ==
  ASSUME TypeOK, NEW en \in BOOLEAN, NEW freed \in Freeable, Clock(en, freed)
  PROVE  TypeOK'
<1>1. freed \subseteq Names /\ \A n \in freed : holders[n] > 0
  BY DEF Freeable
<1>2. DELAY - 1 \in Stages
  BY SizeAssumption DEF Stages
<1>3. avail' \in [Pools -> SUBSET Regs]
  BY <1>2 DEF Clock, NextAvail, TypeOK
<1>4. vtdl' \in [Stages -> SUBSET Names]
  <2>1. \A k \in Stages \ {0} : k - 1 \in Stages
    BY SizeAssumption DEF Stages
  <2> QED
    BY <1>1, <2>1 DEF Clock, NextVtdl, TypeOK
<1>5. holders' \in [Names -> Nat]
  <2>1. \A n \in Names : holders[n] - (IF n \in freed THEN 1 ELSE 0) \in Nat
    BY <1>1 DEF TypeOK
  <2>2. \A n \in Names :
          (holders[n] - (IF n \in freed THEN 1 ELSE 0)) + NewHolders(n, en) \in Nat
    BY <2>1, NewHoldersType
  <2> QED
    BY <2>2 DEF Clock
<1>6. stall' \in BOOLEAN /\ aliased' \in BOOLEAN /\ short' \in BOOLEAN
  BY DEF Clock, NextStall, TypeOK, PoppedTwice
<1>7. dec' \in [Slots -> Pools \cup {NoPool}]
  BY DEF Clock, TypeOK
<1> QED
  BY <1>3, <1>4, <1>5, <1>6, <1>7 DEF TypeOK

(* A clock that hands no name to two slots keeps every name in one place:  *)
(* it stays, or moves from the bitmap to an instruction, from there to the *)
(* delay line, one stage on, or from the last stage back to the bitmap.    *)
LEMMA ClockMovesName ==
  ASSUME TypeOK, NEW en \in BOOLEAN, NEW freed \in Freeable, Clock(en, freed),
         ~PoppedTwice(en), NEW n \in Names, OnePlace(n)
  PROVE  OnePlace(n)'
<1> DEFINE popped == n \in Popped(en)
           out == InStage(n, DELAY - 1)
<1>1. n \in freed => holders[n] > 0
  BY DEF Freeable
<1>2. popped => InBitmap(n)
  BY PoppedAvailable
<1>3. DELAY - 1 \in Stages /\ \A k \in Stages \ {0} : k - 1 \in Stages
  BY SizeAssumption DEF Stages
<1>4. InBitmap(n)' <=> (InBitmap(n) /\ ~popped) \/ out
  <2>1. n = <<n[1], n[2]>> /\ n[1] \in Pools /\ n[2] \in Regs
    BY DEF Names
  <2>2. avail'[n[1]] = (avail[n[1]] \ {r \in Regs : <<n[1], r>> \in Popped(en)})
                         \cup {r \in Regs : <<n[1], r>> \in vtdl[DELAY - 1]}
    BY <2>1 DEF Clock, NextAvail
  <2> QED
    BY <2>1, <2>2 DEF InBitmap, InStage
<1>5. holders'[n] = (holders[n] - (IF n \in freed THEN 1 ELSE 0)) + (IF popped THEN 1 ELSE 0)
  BY NewHoldersValue DEF Clock
<1>6. \A k \in Stages : InStage(n, k)' <=> IF k = 0 THEN n \in freed ELSE InStage(n, k - 1)
  BY DEF Clock, NextVtdl, InStage
<1>7. holders[n] \in {0, 1}
  BY DEF OnePlace
<1>8. holders'[n] \in {0, 1}
  BY <1>1, <1>2, <1>5, <1>7 DEF OnePlace
<1>9. InBitmap(n)' => holders'[n] = 0 /\ \A k \in Stages : ~InStage(n, k)'
  <2>1. CASE InBitmap(n) /\ ~popped
    BY <2>1, <1>1, <1>3, <1>5, <1>6, <1>7 DEF OnePlace
  <2>2. CASE out
    <3>1. holders[n] = 0 /\ n \notin freed /\ ~popped
      BY <2>2, <1>1, <1>2, <1>3 DEF OnePlace
    <3>2. \A k \in Stages \ {0} : ~InStage(n, k - 1)
      BY <2>2, <1>3, SizeAssumption DEF OnePlace, Stages
    <3> QED
      BY <3>1, <3>2, <1>5, <1>6
  <2> QED
    BY <1>4, <2>1, <2>2
<1>10. ASSUME NEW k \in Stages, InStage(n, k)'
       PROVE  holders'[n] = 0 /\ \A j \in Stages \ {k} : ~InStage(n, j)'
  <2>1. CASE k = 0
    <3>1. n \in freed /\ holders[n] = 1
      BY <2>1, <1>1, <1>6, <1>7, <1>10
    <3>2. ~popped /\ \A j \in Stages : ~InStage(n, j)
      BY <3>1, <1>2 DEF OnePlace
    <3> QED
      BY <2>1, <3>1, <3>2, <1>3, <1>5, <1>6
  <2>2. CASE k # 0
    <3>1. InStage(n, k - 1) /\ k - 1 \in Stages
      BY <2>2, <1>3, <1>6, <1>10
    <3>2. holders[n] = 0 /\ n \notin freed /\ ~popped
      BY <3>1, <1>1, <1>2 DEF OnePlace
    <3>3. \A j \in Stages \ {k} : j # 0 => j - 1 \in Stages \ {k - 1}
      BY <2>2, <1>3 DEF Stages
    <3>4. \A j \in Stages \ {k} : ~InStage(n, j)'
      BY <3>1, <3>2, <3>3, <1>6 DEF OnePlace
    <3> QED
      BY <3>2, <3>4, <1>5
  <2> QED
    BY <2>1, <2>2
<1>11. InBitmap(n)' \/ holders'[n] > 0 \/ \E k \in Stages : InStage(n, k)'
  <2>1. CASE popped
    BY <2>1, <1>1, <1>2, <1>5 DEF OnePlace
  <2>2. CASE InBitmap(n) /\ ~popped
    BY <2>2, <1>4
  <2>3. CASE holders[n] > 0 /\ n \notin freed
    BY <2>3, <1>5, <1>7
  <2>4. CASE n \in freed
    <3>1. 0 \in Stages
      BY SizeAssumption DEF Stages
    <3> QED
      BY <2>4, <3>1, <1>6
  <2>5. ASSUME NEW k \in Stages, InStage(n, k)
        PROVE  InBitmap(n)' \/ \E j \in Stages : InStage(n, j)'
    <3>1. CASE k = DELAY - 1
      BY <2>5, <3>1, <1>4
    <3>2. CASE k # DELAY - 1
      <4>1. k + 1 \in Stages /\ k + 1 # 0 /\ (k + 1) - 1 = k
        BY <3>2, SizeAssumption DEF Stages
      <4>2. InStage(n, k + 1)'
        BY <2>5, <4>1, <1>6
      <4> QED
        BY <4>1, <4>2
    <3> QED
      BY <3>1, <3>2
  <2> QED
    BY <2>1, <2>2, <2>3, <2>4, <2>5 DEF OnePlace
<1> QED
  BY <1>8, <1>9, <1>10, <1>11 DEF OnePlace

LEMMA StepIInv == IInv /\ [Next]_vars => IInv'
<1> SUFFICES ASSUME IInv, [Next]_vars PROVE IInv'
  OBVIOUS
<1>1. CASE UNCHANGED vars
  BY <1>1 DEF IInv, vars, supplierVars, TypeOK, NamesPartition, OnePlace, InBitmap, InStage
<1>2. CASE ClockEdge
  <2> PICK en \in BOOLEAN, freed \in Freeable : Clock(en, freed)
    BY <1>2 DEF ClockEdge
  <2>1. TypeOK'
    BY ClockTypes DEF IInv
  <2>2. ASSUME ~aliased', NEW n \in Names PROVE OnePlace(n)'
    <3>1. ~PoppedTwice(en) /\ OnePlace(n)
      BY <2>2 DEF Clock, IInv, NamesPartition
    <3> QED
      BY <3>1, ClockMovesName DEF IInv
  <2> QED
    BY <2>1, <2>2 DEF IInv, NamesPartition
<1> QED
  BY <1>1, <1>2 DEF Next, HistoryEnds

(* Bitmap, holders, delay line and decode group keep their types, for all   *)
(* sizes of pool and delay line.                                           *)
THEOREM SupplierTypes == Spec => []TypeOK
<1>1. IInv => TypeOK
  BY DEF IInv
<1> QED
  BY InitIInv, StepIInv, <1>1, PTL DEF Spec

(* Every name is in the bitmap, with one instruction, or in one stage of   *)
(* the delay line, until a clock hands one name to two slots.              *)
THEOREM NamesNeverLostOrShared == Spec => []NamesPartition
<1>1. IInv => NamesPartition
  BY DEF IInv
<1> QED
  BY InitIInv, StepIInv, <1>1, PTL DEF Spec

(* A popped name has a holder after the clock, and no other name gains one,*)
(* even when two slots share it.                                           *)
LEMMA NewHoldersPositive ==
  ASSUME NEW n, NEW en
  PROVE  NewHolders(n, en) > 0 <=> n \in Popped(en)
<1> DEFINE S == {i \in Slots : Holds(i, n, en)}
<1>1. IsFiniteSet(S)
  BY HoldingSlotsFinite
<1>2. S # {} <=> n \in Popped(en)
  BY DEF Popped, Holds
<1>3. Cardinality(S) \in Nat /\ (Cardinality(S) = 0 <=> S = {})
  BY <1>1, FS_CardinalityType, FS_EmptySet
<1> QED
  BY <1>2, <1>3 DEF NewHolders

(* The initial states are those of the pool.                               *)
LEMMA InitPool == Init => Pool!Init
<1> SUFFICES ASSUME Init PROVE Pool!Init
  OBVIOUS
<1>1. \A n \in Names : InBitmap(n) /\ holders[n] = 0
  BY DEF Init, ResetAvail, Names, InBitmap
<1> QED
  BY <1>1 DEF Pool!Init

(* Every clock is an exchange of the pool: of the popped names, the freed  *)
(* ones that no slot pops, and the output of the delay line.               *)
LEMMA ClockExchanges ==
  ASSUME IInv, NEW en \in BOOLEAN, NEW freed \in Freeable, Clock(en, freed)
  PROVE  Pool!Next
<1> DEFINE back == {n \in Names : InStage(n, DELAY - 1)}
<1>1. \A n \in Names : OnePlace(n)
  BY DEF IInv, NamesPartition, Clock
<1>2. DELAY - 1 \in Stages
  BY SizeAssumption DEF Stages
<1>3. \A n \in Popped(en) : n \in Names /\ InBitmap(n)
  BY PoppedAvailable DEF IInv
<1>4. freed \subseteq Names /\ \A n \in freed : holders[n] = 1
  BY <1>1 DEF Freeable, OnePlace
<1>5. \A n \in back : n \in Names /\ ~InBitmap(n) /\ ~(holders[n] > 0)
  BY <1>1, <1>2 DEF OnePlace
<1>6. \A n \in Names : InBitmap(n)' <=> (InBitmap(n) /\ n \notin Popped(en)) \/ n \in back
  <2> TAKE n \in Names
  <2>1. n = <<n[1], n[2]>> /\ n[1] \in Pools /\ n[2] \in Regs
    BY DEF Names
  <2>2. avail'[n[1]] = (avail[n[1]] \ {r \in Regs : <<n[1], r>> \in Popped(en)})
                         \cup {r \in Regs : <<n[1], r>> \in vtdl[DELAY - 1]}
    BY <2>1 DEF Clock, NextAvail
  <2> QED
    BY <2>1, <2>2 DEF InBitmap, InStage
<1>7. \A n \in Names : holders'[n] > 0 <=> (holders[n] > 0 /\ n \notin freed) \/ n \in Popped(en)
  <2> TAKE n \in Names
  <2>1. holders'[n] = (holders[n] - (IF n \in freed THEN 1 ELSE 0)) + NewHolders(n, en)
    BY DEF Clock
  <2>2. NewHolders(n, en) \in Nat /\ (NewHolders(n, en) > 0 <=> n \in Popped(en))
    BY NewHoldersType, NewHoldersPositive
  <2>3. holders[n] \in {0, 1}
    BY <1>1 DEF OnePlace
  <2> QED
    BY <2>1, <2>2, <2>3, <1>4
<1>8. Popped(en) \in SUBSET {n \in Names : InBitmap(n)}
  BY <1>3
<1>9. freed \in SUBSET {n \in Names : holders[n] > 0}
  BY <1>4
<1>10. back \in SUBSET Pool!OnTheWay
  BY <1>5 DEF Pool!OnTheWay
<1>11. Pool!Exchange(Popped(en), freed, back)
  <2>1. {n \in Names : InBitmap(n)}' = ({n \in Names : InBitmap(n)} \ Popped(en)) \cup back
    BY <1>6 DEF Names, Pools, Regs
  <2>2. {n \in Names : holders[n] > 0}' = ({n \in Names : holders[n] > 0} \ freed) \cup Popped(en)
    BY <1>3, <1>7 DEF Names, Pools, Regs
  <2> QED
    BY <2>1, <2>2 DEF Pool!Exchange
<1> HIDE DEF back
<1> QED
  BY <1>8, <1>9, <1>10, <1>11 DEF Pool!Next, Pool!Exchange

LEMMA StepPool == IInv /\ [Next]_vars => [Pool!Next]_<<{n \in Names : InBitmap(n)}, {n \in Names : holders[n] > 0}>>
<1> SUFFICES ASSUME IInv, [Next]_vars
             PROVE  [Pool!Next]_<<{n \in Names : InBitmap(n)}, {n \in Names : holders[n] > 0}>>
  OBVIOUS
<1>1. CASE UNCHANGED vars
  BY <1>1 DEF vars, supplierVars, InBitmap
<1>2. CASE ClockEdge
  <2> PICK en \in BOOLEAN, freed \in Freeable : Clock(en, freed)
    BY <1>2 DEF ClockEdge
  <2> QED
    BY ClockExchanges
<1> QED
  BY <1>1, <1>2 DEF Next, HistoryEnds

(* The supplier implements the pool of names, with its bitmap for the free *)
(* names and the instructions' counts for the held ones.                   *)
THEOREM SupplierImplementsPool == Spec => IsNamePool
<1> QED
  BY InitIInv, StepIInv, InitPool, StepPool, PTL DEF Spec, IsNamePool, Pool!Spec
=============================================================================
