-------------------------- MODULE StarkPoolProofs --------------------------
(***************************************************************************)
(* The lines of the Stark assembler for every length of the line.          *)
(*   - Of every program: the types, the place of the next instruction and  *)
(*     the stack of the pool (PoolInv).                                    *)
(*   - Of programs in which an instruction brings at most two words of     *)
(*     constants and marks OPM_CLR the operands that pool them             *)
(*     (TwoWordsCounted), or, bringing none, at most one operand           *)
(*     (MarksCounted): what the lines hold (IInv, LinesInv).  The code     *)
(*     accepts other programs, and breaks what is proved here for them.    *)
(***************************************************************************)
EXTENDS StarkPool, BaseLemmas, SequenceTheorems, TLAPS

BucketSpace == [size : 1 .. 2, pos : Int, of : Nat]

LEMMA KindTypes ==
  ASSUME NEW k \in Kinds
  PROVE  /\ k.first \in 0 .. 2 /\ k.second \in 0 .. 2 /\ k.clr \in 0 .. 2
         /\ Need(k) \in 0 .. 4 /\ k.first + k.second = Need(k)
  BY KindsAssumption DEF KindSpace, Need

LEMMA PlaceOnLine ==
  ASSUME NEW e \in Nat
  PROVE  /\ e % Words \in 0 .. Words - 1
         /\ e >= Words /\ e < Words + Words => e % Words = e - Words
  BY WordsAssumption

LEMMA PooledType ==
  ASSUME NEW k \in Kinds, NEW tot \in Nat, NEW n \in Nat
  PROVE  Pooled(k, tot, n) \in Seq(BucketSpace)
<1> DEFINE one == Words - tot - k.first
<1>1. one \in Int /\ one - k.second \in Int
  BY KindTypes, WordsAssumption
<1>2. /\ k.first > 0 => Bucket(k.first, one, n) \in BucketSpace
      /\ k.second > 0 => Bucket(k.second, one - k.second, n) \in BucketSpace
  BY <1>1, KindTypes DEF Bucket, BucketSpace
<1> HIDE DEF one
<1>3. <<>> \in Seq(BucketSpace) /\ \A b \in BucketSpace : <<b>> \in Seq(BucketSpace)
  OBVIOUS
<1>4. \A p, q \in Seq(BucketSpace) : p \o q \in Seq(BucketSpace)
  OBVIOUS
<1>5. Pooled(k, tot, n) = (IF k.first > 0 THEN <<Bucket(k.first, one, n)>> ELSE <<>>)
                       \o (IF k.second > 0 THEN <<Bucket(k.second, one - k.second, n)>> ELSE <<>>)
  BY DEF Pooled, one
<1> QED
  BY <1>2, <1>3, <1>4, <1>5, Zenon

(* A filled bucket lies directly under the one before it.                  *)
Stacked(bks, tot) ==
  /\ bks = <<>> => tot = 0
  /\ bks # <<>> => bks[Len(bks)].pos = Words - tot
  /\ bks # <<>> => bks[1].pos + bks[1].size = Words
  /\ \A j \in 1 .. Len(bks) - 1 : bks[j].pos = bks[j + 1].pos + bks[j + 1].size

LEMMA OneMoreStacked ==
  ASSUME NEW bks \in Seq(BucketSpace), NEW tot \in Nat, Stacked(bks, tot),
         NEW b \in BucketSpace, b.pos = Words - tot - b.size
  PROVE  /\ Append(bks, b) \in Seq(BucketSpace)
         /\ Stacked(Append(bks, b), tot + b.size)
<1> DEFINE all == Append(bks, b)
<1>1. /\ all \in Seq(BucketSpace) /\ Len(all) = Len(bks) + 1 /\ all[Len(bks) + 1] = b
      /\ \A j \in 1 .. Len(bks) : all[j] = bks[j]
      /\ Len(bks) \in Nat /\ all # <<>>
  OBVIOUS
<1>2. /\ b.size \in 1 .. 2 /\ b.pos \in Int
      /\ \A j \in 1 .. Len(bks) : bks[j].size \in 1 .. 2 /\ bks[j].pos \in Int
  <2>1. \A c \in BucketSpace : c.size \in 1 .. 2 /\ c.pos \in Int
    BY DEF BucketSpace
  <2>2. \A j \in 1 .. Len(bks) : bks[j] \in BucketSpace
    OBVIOUS
  <2> QED
    BY <2>1, <2>2
<1> HIDE DEF all
<1>3. all[Len(all)].pos = Words - (tot + b.size)
  BY <1>1, <1>2, WordsAssumption
<1>4. CASE bks = <<>>
  BY <1>1, <1>2, <1>3, <1>4, WordsAssumption DEF Stacked, all
<1>5. CASE bks # <<>>
  <2>1. Len(bks) > 0
    BY <1>5
  <2>2. all[1].pos + all[1].size = Words
    BY <1>1, <1>5, <2>1 DEF Stacked
  <2>3. ASSUME NEW j \in 1 .. Len(all) - 1
        PROVE  all[j].pos = all[j + 1].pos + all[j + 1].size
    <3>1. CASE j = Len(bks)
      BY <3>1, <1>1, <1>2, <1>5, <2>1, WordsAssumption DEF Stacked
    <3>2. CASE j < Len(bks)
      BY <3>2, <1>1, <1>2, <2>1 DEF Stacked
    <3> QED
      BY <3>1, <3>2, <1>1
  <2> QED
    BY <1>1, <1>3, <2>2, <2>3 DEF Stacked, all
<1> QED
  BY <1>1, <1>4, <1>5 DEF all

LEMMA PooledStacked ==
  ASSUME NEW k \in Kinds, NEW n \in Nat,
         NEW bks \in Seq(BucketSpace), NEW tot \in Nat, Stacked(bks, tot)
  PROVE  /\ bks \o Pooled(k, tot, n) \in Seq(BucketSpace)
         /\ Stacked(bks \o Pooled(k, tot, n), tot + Need(k))
<1> DEFINE one == Words - tot - k.first
           b1 == Bucket(k.first, one, n)
           b2 == Bucket(k.second, one - k.second, n)
           new == Pooled(k, tot, n)
<1>1. /\ k.first > 0 => b1 \in BucketSpace /\ b1.size = k.first /\ b1.pos = Words - tot - b1.size
      /\ k.second > 0 => b2 \in BucketSpace /\ b2.size = k.second /\ b2.pos = Words - (tot + k.first) - b2.size
  BY KindTypes, WordsAssumption DEF Bucket, BucketSpace
<1>2. new = (IF k.first > 0 THEN <<b1>> ELSE <<>>) \o (IF k.second > 0 THEN <<b2>> ELSE <<>>)
  BY DEF Pooled
<1>3. /\ k.first \in 0 .. 2 /\ k.second \in 0 .. 2 /\ Need(k) = k.first + k.second
      /\ tot + k.first \in Nat
  BY KindTypes
<1> HIDE DEF b1, b2, new
<1>4. CASE k.first = 0 /\ k.second = 0
  <2>1. bks \o new = bks
    BY <1>2, <1>4
  <2> QED
    BY <2>1, <1>3, <1>4 DEF new
<1>5. CASE k.first > 0 /\ k.second = 0
  <2>1. bks \o new = Append(bks, b1) /\ tot + Need(k) = tot + b1.size
    BY <1>1, <1>2, <1>3, <1>5
  <2> QED
    BY <2>1, <1>1, <1>5, OneMoreStacked DEF new
<1>6. CASE k.first = 0 /\ k.second > 0
  <2>1. bks \o new = Append(bks, b2) /\ tot + Need(k) = tot + b2.size
    BY <1>1, <1>2, <1>3, <1>6
  <2>2. b2.pos = Words - tot - b2.size
    BY <1>1, <1>6
  <2> QED
    BY <2>1, <2>2, <1>1, <1>6, OneMoreStacked DEF new
<1>7. CASE k.first > 0 /\ k.second > 0
  <2>1. /\ Append(bks, b1) \in Seq(BucketSpace)
        /\ Stacked(Append(bks, b1), tot + k.first)
    BY <1>1, <1>7, OneMoreStacked
  <2>2. /\ Append(Append(bks, b1), b2) \in Seq(BucketSpace)
        /\ Stacked(Append(Append(bks, b1), b2), tot + k.first + k.second)
    BY <2>1, <1>1, <1>3, <1>7, OneMoreStacked
  <2>3. bks \o new = Append(Append(bks, b1), b2)
    <3>1. new = <<b1>> \o <<b2>> /\ b1 \in BucketSpace /\ b2 \in BucketSpace
      BY <1>1, <1>2, <1>7
    <3>2. bks \o (<<b1>> \o <<b2>>) = (bks \o <<b1>>) \o <<b2>>
      BY <3>1, ConcatAssociative
    <3>3. bks \o <<b1>> = Append(bks, b1) /\ Append(bks, b1) \in Seq(BucketSpace)
      BY <3>1
    <3>4. Append(bks, b1) \o <<b2>> = Append(Append(bks, b1), b2)
      BY <3>1, <3>3
    <3> QED
      BY <3>1, <3>2, <3>3, <3>4
  <2> QED
    BY <2>2, <2>3, <1>3 DEF new
<1> QED
  BY <1>3, <1>4, <1>5, <1>6, <1>7

(* The buckets of an instruction carry its number.                         *)
Known(bks) == \A j \in 1 .. Len(bks) : bks[j].of \in 0 .. MaxInsns

LEMMA PooledKnown ==
  ASSUME NEW k \in Kinds, NEW tot \in Nat, NEW n \in 0 .. MaxInsns,
         NEW bks \in Seq(BucketSpace), Known(bks)
  PROVE  Known(bks \o Pooled(k, tot, n)) /\ Known(Pooled(k, tot, n))
<1> DEFINE new == Pooled(k, tot, n)
           one == Words - tot - k.first
           b1 == Bucket(k.first, one, n)
           b2 == Bucket(k.second, one - k.second, n)
           p == IF k.first > 0 THEN <<b1>> ELSE <<>>
           q == IF k.second > 0 THEN <<b2>> ELSE <<>>
<1>1. n \in Nat /\ new \in Seq(BucketSpace)
  BY PooledType, MaxInsnsAssumption
<1>2. new = p \o q
  BY DEF Pooled
<1>3. \A j \in 1 .. Len(new) : new[j].of = n
  <2>1. b1.of = n /\ b2.of = n
    BY DEF Bucket
  <2> HIDE DEF b1, b2, new
  <2>2. \A x, y : /\ Len(<<x>> \o <<y>>) = 2 /\ (<<x>> \o <<y>>)[1] = x /\ (<<x>> \o <<y>>)[2] = y
                  /\ Len(<<x>> \o <<>>) = 1 /\ (<<x>> \o <<>>)[1] = x
                  /\ Len(<<>> \o <<y>>) = 1 /\ (<<>> \o <<y>>)[1] = y
    OBVIOUS
  <2>3. /\ k.first > 0 /\ k.second > 0 => new = <<b1>> \o <<b2>>
        /\ k.first > 0 /\ ~(k.second > 0) => new = <<b1>> \o <<>>
        /\ ~(k.first > 0) /\ k.second > 0 => new = <<>> \o <<b2>>
        /\ ~(k.first > 0) /\ ~(k.second > 0) => Len(new) = 0
    <3>1. <<>> \o <<>> = <<>> /\ Len(<<>>) = 0
      OBVIOUS
    <3>2. /\ k.first > 0 => p = <<b1>>
          /\ ~(k.first > 0) => p = <<>>
          /\ k.second > 0 => q = <<b2>>
          /\ ~(k.second > 0) => q = <<>>
      OBVIOUS
    <3> HIDE DEF p, q
    <3> QED
      BY <1>2, <3>1, <3>2
  <2> HIDE DEF p, q
  <2> QED
    BY <2>1, <2>2, <2>3
<1> HIDE DEF new
<1>4. /\ Len(bks \o new) = Len(bks) + Len(new) /\ Len(bks) \in Nat /\ Len(new) \in Nat
      /\ \A j \in 1 .. Len(bks) + Len(new) :
           (bks \o new)[j] = IF j <= Len(bks) THEN bks[j] ELSE new[j - Len(bks)]
  BY <1>1
<1>5. ASSUME NEW j \in 1 .. Len(bks \o new) PROVE (bks \o new)[j].of \in 0 .. MaxInsns
  <2>1. CASE j <= Len(bks)
    BY <2>1, <1>4 DEF Known
  <2>2. CASE j > Len(bks)
    <3>1. j - Len(bks) \in 1 .. Len(new) /\ (bks \o new)[j] = new[j - Len(bks)]
      BY <2>2, <1>4
    <3> QED
      BY <3>1, <1>3
  <2> QED
    BY <2>1, <2>2, <1>4
<1> QED
  BY <1>3, <1>5 DEF Known, new

-----------------------------------------------------------------------------
(* What stands on the lines.  The words that are not instructions, and all *)
(* of them.                                                                *)
Filling == {Nop} \cup {Constant(n, part) : n \in Nat, part \in 1 .. 2}
Word == Filling \cup {Insn(n, refs) : n \in Nat, refs \in Seq(BucketSpace)}

LEMMA WordFacts ==
  /\ \A w \in Filling : w.is # "insn"
  /\ \A n, part : Constant(n, part).is = "const"
  /\ \A n, refs : Insn(n, refs).is = "insn" /\ Insn(n, refs).refs = refs
  /\ Filling \subseteq Word
  /\ \A n \in Nat, refs \in Seq(BucketSpace) : Insn(n, refs) \in Word
<1>1. \A n, part : Constant(n, part).is = "const"
  BY DEF Constant
<1>2. \A n, refs : Insn(n, refs).is = "insn" /\ Insn(n, refs).refs = refs
  BY DEF Insn
<1>3. \A w \in Filling : w.is # "insn"
  BY <1>1 DEF Filling, Nop
<1> QED
  BY <1>1, <1>2, <1>3 DEF Word

LEMMA ConcatFacts ==
  ASSUME NEW S, NEW s \in Seq(S), NEW t \in Seq(S)
  PROVE  /\ s \o t \in Seq(S) /\ Len(s \o t) = Len(s) + Len(t)
         /\ Len(s) \in Nat /\ Len(t) \in Nat
         /\ \A p \in 1 .. Len(s) : (s \o t)[p] = s[p]
         /\ \A p \in 1 .. Len(t) : (s \o t)[Len(s) + p] = t[p]
  OBVIOUS

LEMMA BucketFields == \A b \in BucketSpace : b.size \in 1 .. 2 /\ b.pos \in Int /\ b.of \in Nat
  BY DEF BucketSpace

(* A bucket becomes as many words as it has, NOPs if it is killed.         *)
LEMMA BucketWritten ==
  ASSUME NEW bks \in Seq(BucketSpace), NEW j \in 1 .. Len(bks), NEW iit
  PROVE  /\ BucketOut(bks, j, iit) \in Seq(Filling)
         /\ Len(BucketOut(bks, j, iit)) = bks[j].size
<1>1. bks[j].size \in 1 .. 2 /\ bks[j].of \in Nat
  BY BucketFields
<1>2. \A part \in 1 .. bks[j].size :
        (IF Killed(iit, j, bks) THEN Nop ELSE Constant(bks[j].of, part)) \in Filling
  BY <1>1 DEF Filling
<1> QED
  BY <1>1, <1>2 DEF BucketOut

(* The loop over the buckets, newest first, writes as many words as the    *)
(* pool counts and puts each bucket at its place before the end of the     *)
(* line.                                                                   *)
LEMMA ConstantsWritten ==
  ASSUME NEW bks \in Seq(BucketSpace), NEW tot \in Nat, Stacked(bks, tot), NEW iit
  PROVE  /\ ConstantsOut(bks, iit) \in Seq(Filling)
         /\ Len(ConstantsOut(bks, iit)) = tot
         /\ \A j \in 1 .. Len(bks) : \A part \in 1 .. bks[j].size :
              /\ bks[j].pos - (Words - tot) + part \in 1 .. tot
              /\ ConstantsOut(bks, iit)[bks[j].pos - (Words - tot) + part]
                   = BucketOut(bks, j, iit)[part]
<1> DEFINE n == Len(bks)
           seqs == [j \in 1 .. n |-> BucketOut(bks, n + 1 - j, iit)]
           out == ConstantsOut(bks, iit)
<1>1. out = FlattenSeq(seqs) /\ Len(seqs) = n /\ n \in Nat
  BY DEF ConstantsOut
<1>2. CASE n = 0
  <2>1. seqs = <<>> /\ bks = <<>>
    BY <1>2
  <2>2. out = <<>> /\ tot = 0
    BY <1>1, <1>2, <2>1 DEF FlattenSeq, Stacked
  <2> QED
    BY <1>2, <2>2
<1>3. CASE n # 0
  <2> HIDE DEF seqs, out
  <2>1. PICK f : /\ FlattenSeq(seqs) = f[n]
                 /\ f[1] = seqs[1]
                 /\ \A i \in 1 .. n - 1 : f[i + 1] = f[i] \o seqs[i + 1]
    <3>1. n \in Nat \ {0} /\ Len(seqs) = n
      BY <1>1, <1>3
    <3> HIDE DEF n
    <3> QED
      BY <3>1, FlattenSteps
  <2> DEFINE at(i) == bks[n + 1 - i].pos - (Words - tot)
             size(i) == bks[n + 1 - i].size
             Written(i) ==
               /\ f[i] \in Seq(Filling)
               /\ Len(f[i]) = at(i) + size(i)
               /\ \A h \in 1 .. i : /\ at(h) >= 0 /\ at(h) + size(h) <= Len(f[i])
                                    /\ \A part \in 1 .. size(h) : f[i][at(h) + part] = seqs[h][part]
  <2>2. ASSUME NEW i \in 1 .. n
        PROVE  /\ at(i) \in Int /\ size(i) \in 1 .. 2
               /\ seqs[i] = BucketOut(bks, n + 1 - i, iit)
               /\ seqs[i] \in Seq(Filling) /\ Len(seqs[i]) = size(i)
    <3>1. n + 1 - i \in 1 .. n
      BY <1>1
    <3>2. bks[n + 1 - i] \in BucketSpace
      BY <3>1
    <3>3. seqs[i] = BucketOut(bks, n + 1 - i, iit)
      BY DEF seqs
    <3> QED
      BY <3>1, <3>2, <3>3, BucketFields, BucketWritten, WordsAssumption
  <2>3. at(1) = 0
    BY <1>1, <1>3, WordsAssumption DEF Stacked
  <2>4. ASSUME NEW i \in 1 .. n - 1 PROVE at(i + 1) = at(i) + size(i)
    <3>1. n - i \in 1 .. n - 1 /\ (n - i) + 1 = n + 1 - i /\ n + 1 - (i + 1) = n - i
      BY <1>1
    <3>2. bks[n - i].pos = bks[n + 1 - i].pos + bks[n + 1 - i].size
      BY <3>1 DEF Stacked
    <3>3. bks[n + 1 - i].pos \in Int /\ bks[n + 1 - i].size \in Int
      <4>1. bks[n + 1 - i] \in BucketSpace
        BY <3>1
      <4> QED
        BY <4>1, BucketFields
    <3> QED
      BY <3>1, <3>2, <3>3, WordsAssumption
  <2>5. at(n) + size(n) = tot
    <3>1. n + 1 - n = 1
      BY <1>1
    <3>2. bks[1].pos \in Int /\ bks[1].size \in Int
      <4>1. bks[1] \in BucketSpace
        BY <1>1, <1>3
      <4> QED
        BY <4>1, BucketFields
    <3> QED
      BY <1>3, <3>1, <3>2, WordsAssumption DEF Stacked
  <2>l. n \in Nat
    BY <1>1
  <2> HIDE DEF at, size, n
  <2>6. Written(1)
    BY <2>1, <2>2, <2>3, <1>1, <1>3
  <2>7. ASSUME NEW i \in 1 .. n - 1, Written(i) PROVE Written(i + 1)
    <3>1. /\ f[i + 1] = f[i] \o seqs[i + 1] /\ i + 1 \in 1 .. n /\ i \in 1 .. n
          /\ at(i + 1) = Len(f[i])
      <4>1. i + 1 \in 1 .. n /\ i \in 1 .. n
        BY <2>l
      <4> QED
        BY <4>1, <2>1, <2>4, <2>7
    <3>2. seqs[i + 1] \in Seq(Filling) /\ Len(seqs[i + 1]) = size(i + 1) /\ size(i + 1) \in 1 .. 2
      BY <3>1, <2>2
    <3>3. /\ f[i] \in Seq(Filling)
          /\ \A h \in 1 .. i : /\ at(h) >= 0 /\ at(h) + size(h) <= Len(f[i])
                               /\ \A part \in 1 .. size(h) : f[i][at(h) + part] = seqs[h][part]
      BY <2>7
    <3> HIDE DEF Written
    <3>4. /\ f[i + 1] \in Seq(Filling) /\ Len(f[i + 1]) = Len(f[i]) + Len(seqs[i + 1])
          /\ \A p \in 1 .. Len(f[i]) : f[i + 1][p] = f[i][p]
          /\ \A p \in 1 .. Len(seqs[i + 1]) : f[i + 1][Len(f[i]) + p] = seqs[i + 1][p]
      <4>1. /\ f[i] \o seqs[i + 1] \in Seq(Filling)
            /\ Len(f[i] \o seqs[i + 1]) = Len(f[i]) + Len(seqs[i + 1])
            /\ \A p \in 1 .. Len(f[i]) : (f[i] \o seqs[i + 1])[p] = f[i][p]
            /\ \A p \in 1 .. Len(seqs[i + 1]) : (f[i] \o seqs[i + 1])[Len(f[i]) + p] = seqs[i + 1][p]
        <5>1. f[i] \in Seq(Filling) /\ seqs[i + 1] \in Seq(Filling)
          BY <3>2, <3>3
        <5> DEFINE a == f[i]
                   b == seqs[i + 1]
        <5>2. a \in Seq(Filling) /\ b \in Seq(Filling)
          BY <5>1
        <5> HIDE DEF a, b
        <5>3. /\ a \o b \in Seq(Filling) /\ Len(a \o b) = Len(a) + Len(b)
              /\ \A p \in 1 .. Len(a) : (a \o b)[p] = a[p]
              /\ \A p \in 1 .. Len(b) : (a \o b)[Len(a) + p] = b[p]
          BY <5>2, ConcatFacts
        <5> QED
          BY <5>3 DEF a, b
      <4> QED
        BY <4>1, <3>1
    <3>n. Len(f[i]) \in Nat
      BY <3>3
    <3>5. ASSUME NEW h \in 1 .. i + 1
          PROVE  /\ at(h) >= 0 /\ at(h) + size(h) <= Len(f[i + 1])
                 /\ \A part \in 1 .. size(h) : f[i + 1][at(h) + part] = seqs[h][part]
      <4>1. CASE h = i + 1
        <5> DEFINE q == i + 1
        <5>1. h = q /\ at(q) = Len(f[i]) /\ size(q) \in 1 .. 2
          BY <4>1, <3>1, <3>2
        <5>2. /\ Len(f[q]) = Len(f[i]) + size(q)
              /\ \A p \in 1 .. size(q) : f[q][Len(f[i]) + p] = seqs[q][p]
          BY <3>2, <3>4
        <5>3. /\ at(h) >= 0 /\ at(h) + size(h) <= Len(f[q])
              /\ \A part \in 1 .. size(h) : f[q][at(h) + part] = seqs[h][part]
          <6> HIDE DEF q
          <6> QED
            BY <5>1, <5>2, <3>n
        <5> QED
          BY <5>3
      <4>2. CASE h \in 1 .. i
        <5>1. at(h) \in Int /\ size(h) \in 1 .. 2 /\ Len(f[i]) \in Nat
          BY <2>2, <4>2, <3>1, <3>3, <2>l
        <5>2. at(h) >= 0 /\ at(h) + size(h) <= Len(f[i])
          BY <3>3, <4>2
        <5>3. \A part \in 1 .. size(h) : at(h) + part \in 1 .. Len(f[i])
          BY <5>1, <5>2
        <5>4. \A part \in 1 .. size(h) : f[i + 1][at(h) + part] = seqs[h][part]
          BY <5>3, <3>3, <3>4, <4>2
        <5> DEFINE q == i + 1
        <5>5. size(q) \in 1 .. 2 /\ Len(f[q]) = Len(f[i]) + size(q)
          BY <3>2, <3>4
        <5>6. \A part \in 1 .. size(h) : f[q][at(h) + part] = seqs[h][part]
          BY <5>4
        <5>7. at(h) + size(h) <= Len(f[q])
          <6> HIDE DEF q
          <6> QED
            BY <5>1, <5>2, <5>5
        <5> QED
          BY <5>2, <5>6, <5>7
      <4> QED
        BY <4>1, <4>2
    <3> QED
      BY <3>1, <3>2, <3>4, <3>5 DEF Written
  <2> DEFINE S == {i \in Nat : i + 1 <= n => Written(i + 1)}
  <2> HIDE DEF Written
  <2>8. Nat \subseteq S
    <3>1. 0 \in S
      BY <2>6
    <3>2. ASSUME NEW i \in Nat, i \in S PROVE i + 1 \in S
      <4>1. CASE (i + 1) + 1 <= n
        <5>1. Written(i + 1) /\ i + 1 \in 1 .. n - 1
          BY <3>2, <4>1, <1>1
        <5>2. Written((i + 1) + 1)
          BY <5>1, <2>7
        <5> QED
          BY <5>2
      <4>2. CASE ~((i + 1) + 1 <= n)
        BY <4>2
      <4> QED
        BY <4>1, <4>2
    <3> HIDE DEF S
    <3> QED
      BY <3>1, <3>2, SetInduction
  <2>9. Written(n)
    <3>1. n - 1 \in Nat /\ (n - 1) + 1 = n
      BY <1>1, <1>3
    <3> QED
      BY <2>8, <3>1
  <2>10. out \in Seq(Filling) /\ Len(out) = tot
    BY <1>1, <2>1, <2>5, <2>9 DEF Written
  <2>11. ASSUME NEW j \in 1 .. n, NEW part \in 1 .. bks[j].size
         PROVE  /\ bks[j].pos - (Words - tot) + part \in 1 .. tot
                /\ out[bks[j].pos - (Words - tot) + part] = BucketOut(bks, j, iit)[part]
    <3>1. n + 1 - j \in 1 .. n /\ n + 1 - (n + 1 - j) = j
      BY <1>1
    <3>2. at(n + 1 - j) = bks[j].pos - (Words - tot) /\ size(n + 1 - j) = bks[j].size
      BY <3>1 DEF at, size
    <3>3. seqs[n + 1 - j] = BucketOut(bks, j, iit)
      BY <3>1, <2>2
    <3>4. at(n + 1 - j) \in Int /\ size(n + 1 - j) \in 1 .. 2
      BY <3>1, <2>2
    <3>5. /\ at(n + 1 - j) >= 0 /\ at(n + 1 - j) + size(n + 1 - j) <= tot
          /\ \A p \in 1 .. size(n + 1 - j) : out[at(n + 1 - j) + p] = seqs[n + 1 - j][p]
      BY <1>1, <2>1, <2>9, <2>10, <3>1 DEF Written
    <3> QED
      BY <3>2, <3>3, <3>4, <3>5
  <2> QED
    BY <2>10, <2>11 DEF out, n
<1> QED
  BY <1>2, <1>3

-----------------------------------------------------------------------------
(* Every program: an instruction, whether it fits, closes the line or      *)
(* moves on, leaves the place of the next one at the number of words       *)
(* written, and the pool stacked or empty.                                 *)
PoolInv ==
  /\ offset \in 0 .. Words - 1
  /\ totsz \in Nat
  /\ buckets \in Seq(BucketSpace)
  /\ Known(buckets)
  /\ BucketsStacked
  /\ how \in {"open", "plain", "last", "moved"}
  /\ ninsn \in 0 .. MaxInsns
  /\ line \in Seq(Word)
  /\ Len(line) = offset

(* What is left of the words after the complete lines.                     *)
LEMMA RestLength ==
  ASSUME NEW out \in Seq(Word)
  PROVE  Rest(out) \in Seq(Word) /\ Len(Rest(out)) = Len(out) % Words
<1> DEFINE n == Len(out)
           full == (n \div Words) * Words
<1>1. n \in Nat
  OBVIOUS
<1>2. full \in Nat /\ full <= n /\ n - full = n % Words
  BY <1>1, WordsAssumption
<1>3. \A p \in full + 1 .. n : out[p] \in Word
  BY <1>2
<1>4. Rest(out) = SubSeq(out, full + 1, n)
  BY DEF Rest
<1> HIDE DEF full, n
<1>5. full + 1 \in Int /\ n \in Int /\ \A p \in full + 1 .. n : out[p] \in Word
  BY <1>1, <1>2, <1>3
<1>6. /\ Rest(out) \in Seq(Word)
      /\ Len(Rest(out)) = IF full + 1 <= n THEN n - (full + 1) + 1 ELSE 0
  BY <1>4, <1>5, SubSeqProperties
<1> QED
  BY <1>1, <1>2, <1>6 DEF n

(* The words written when a line is closed, and their number.              *)
LEMMA OutLength ==
  ASSUME NEW bks \in Seq(BucketSpace), NEW tot \in Nat, Stacked(bks, tot), NEW iit,
         NEW sp \in Nat, NEW n \in Nat, NEW refs \in Seq(BucketSpace)
  PROVE  LET out == NopsOut(sp) \o ConstantsOut(bks, iit) \o <<Insn(n, refs)>>
         IN  out \in Seq(Word) /\ Len(out) = sp + tot + 1
<1> DEFINE nops == NopsOut(sp)
           consts == ConstantsOut(bks, iit)
           fill == nops \o consts
           insn == Insn(n, refs)
<1>1. nops \in Seq(Filling) /\ Len(nops) = sp
  BY DEF NopsOut, Filling
<1>2. consts \in Seq(Filling) /\ Len(consts) = tot
  BY ConstantsWritten
<1>3. insn \in Word
  BY WordFacts
<1> HIDE DEF nops, consts, insn
<1>4. fill \in Seq(Filling) /\ Len(fill) = sp + tot
  <2>1. nops \o consts \in Seq(Filling) /\ Len(nops \o consts) = Len(nops) + Len(consts)
    BY <1>1, <1>2, ConcatProperties
  <2> QED
    BY <1>1, <1>2, <2>1
<1> HIDE DEF fill
<1>5. fill \in Seq(Word)
  BY <1>4, WordFacts, SeqMonotonic
<1>6. fill \o <<insn>> \in Seq(Word) /\ Len(fill \o <<insn>>) = Len(fill) + 1
  BY <1>3, <1>5
<1> QED
  BY <1>4, <1>6 DEF fill, nops, consts, insn

(* The words written and the place they lead to.                           *)
LEMMA WriteKeepsPlace ==
  ASSUME PoolInv, NEW out \in Seq(Word), Write(out),
         offset' = (offset + Len(out)) % Words
  PROVE  line' \in Seq(Word) /\ Len(line') = offset' /\ offset' \in 0 .. Words - 1
<1>1. /\ line \o out \in Seq(Word) /\ Len(line \o out) = offset + Len(out)
      /\ Len(out) \in Nat /\ offset \in Nat
  <2>1. line \in Seq(Word) /\ Len(line) = offset
    BY DEF PoolInv
  <2>2. line \o out \in Seq(Word) /\ Len(line \o out) = Len(line) + Len(out)
    BY <2>1, ConcatProperties
  <2>3. Len(out) \in Nat /\ Len(line) \in Nat
    BY <2>1
  <2> QED
    BY <2>1, <2>2, <2>3
<1>2. line' = Rest(line \o out)
  BY DEF Write
<1> DEFINE all == line \o out
<1>3. all \in Seq(Word) /\ Len(all) = offset + Len(out) /\ line' = Rest(all)
  BY <1>1, <1>2
<1> HIDE DEF all
<1>4. line' \in Seq(Word) /\ Len(line') = (offset + Len(out)) % Words
  BY <1>3, RestLength
<1>5. offset + Len(out) \in Nat
  BY <1>1
<1> QED
  BY <1>4, <1>5, PlaceOnLine

(* The pool after an instruction that joins the open line, and after one   *)
(* that starts a new pool.                                                 *)
LEMMA PoolJoined ==
  ASSUME PoolInv, ninsn < MaxInsns, NEW k \in Kinds
  PROVE  LET all == buckets \o Pooled(k, totsz, ninsn)
             new == Pooled(k, 0, ninsn)
         IN  /\ ninsn \in Nat /\ totsz + Need(k) \in Nat /\ Need(k) \in Nat
             /\ Pooled(k, totsz, ninsn) \in Seq(BucketSpace)
             /\ all \in Seq(BucketSpace) /\ Stacked(all, totsz + Need(k)) /\ Known(all)
             /\ new \in Seq(BucketSpace) /\ Stacked(new, Need(k)) /\ Known(new)
<1>1. /\ ninsn \in 0 .. MaxInsns /\ ninsn \in Nat /\ totsz \in Nat /\ 0 \in Nat
      /\ Need(k) \in Nat /\ totsz + Need(k) \in Nat
      /\ buckets \in Seq(BucketSpace) /\ Known(buckets) /\ Stacked(buckets, totsz)
  BY KindTypes, MaxInsnsAssumption DEF PoolInv, BucketsStacked, Stacked
<1>2. <<>> \in Seq(BucketSpace) /\ Stacked(<<>>, 0) /\ Known(<<>>)
  BY DEF Stacked, Known
<1>3. Pooled(k, totsz, ninsn) \in Seq(BucketSpace) /\ Pooled(k, 0, ninsn) \in Seq(BucketSpace)
  BY <1>1, PooledType
<1>4. /\ buckets \o Pooled(k, totsz, ninsn) \in Seq(BucketSpace)
      /\ Stacked(buckets \o Pooled(k, totsz, ninsn), totsz + Need(k))
      /\ Known(buckets \o Pooled(k, totsz, ninsn))
  BY <1>1, PooledStacked, PooledKnown
<1>5. Stacked(<<>> \o Pooled(k, 0, ninsn), 0 + Need(k)) /\ Known(Pooled(k, 0, ninsn))
  BY <1>1, <1>2, PooledStacked, PooledKnown
<1>6. <<>> \o Pooled(k, 0, ninsn) = Pooled(k, 0, ninsn) /\ 0 + Need(k) = Need(k)
  BY <1>1, <1>3, ConcatEmptySeq
<1>7. Stacked(Pooled(k, 0, ninsn), Need(k))
  BY <1>5, <1>6
<1> QED
  BY <1>1, <1>3, <1>4, <1>5, <1>7

LEMMA SpaceIsNat ==
  ASSUME PoolInv, NEW tot \in Nat, NEW iit \in Int
  PROVE  Space(iit, tot) \in Nat
<1>1. Words - tot - offset - (IF iit > 2 THEN iit - 2 ELSE 0) \in Int
  BY WordsAssumption DEF PoolInv
<1> QED
  BY <1>1 DEF Space, Clamp

LEMMA AnswerIsInt ==
  ASSUME NEW k, NEW at, NEW tot, NEW bks \in Seq(BucketSpace), NEW last, NEW stale \in 1 .. 2
  PROVE  WillNotFit(k, at, tot, bks, last, stale) \in Int
<1>1. \A h \in Int : SizeAt(bks, h, stale) \in 1 .. 2
  <2>1. \A h \in DOMAIN bks : bks[h] \in BucketSpace
    OBVIOUS
  <2> QED
    BY <2>1, BucketFields DEF SizeAt
<1>2. Len(bks) \in Int /\ Len(bks) - 1 \in Int
  OBVIOUS
<1>3. BucketWords(k, bks, stale) \in Int
  BY <1>1, <1>2 DEF BucketWords
<1> QED
  BY <1>3 DEF WillNotFit

LEMMA EvalKeepsPool ==
  ASSUME PoolInv, [Next]_vars
  PROVE  PoolInv'
<1>1. CASE UNCHANGED vars
  BY <1>1 DEF PoolInv, vars, BucketsStacked, Known
<1>2. ASSUME NEW k \in Kinds, NEW stale \in 1 .. 2, NEW last \in BOOLEAN,
             ninsn < MaxInsns, ninsn' = ninsn + 1,
             Fits(k, stale) \/ ClosesLine(k, last, stale) \/ Moves(k, stale)
      PROVE  PoolInv'
  <2> DEFINE tot == totsz + Need(k)
             here == Pooled(k, totsz, ninsn)
             all == buckets \o here
             new == Pooled(k, 0, ninsn)
  <2>1. /\ ninsn \in Nat /\ tot \in Nat /\ Need(k) \in Nat /\ here \in Seq(BucketSpace)
        /\ all \in Seq(BucketSpace) /\ Stacked(all, tot) /\ Known(all)
        /\ new \in Seq(BucketSpace) /\ Stacked(new, Need(k)) /\ Known(new)
    BY <1>2, PoolJoined
  <2>2. ninsn' \in 0 .. MaxInsns
    BY <1>2, <2>1, MaxInsnsAssumption
  <2>3. offset \in Nat
    BY WordsAssumption DEF PoolInv
  <2> HIDE DEF tot, here, all, new
  <2>4. CASE Fits(k, stale)
    <3>1. /\ totsz' = tot /\ buckets' = all /\ how' = "open"
          /\ offset' = (offset + 1) % Words /\ Write(<<Insn(ninsn, here)>>)
      BY <2>4 DEF Fits, tot, here, all
    <3>2. <<Insn(ninsn, here)>> \in Seq(Word) /\ Len(<<Insn(ninsn, here)>>) = 1
      BY <2>1, WordFacts
    <3>3. line' \in Seq(Word) /\ Len(line') = offset' /\ offset' \in 0 .. Words - 1
      BY <3>1, <3>2, WriteKeepsPlace
    <3> QED
      BY <2>1, <2>2, <3>1, <3>3 DEF PoolInv, BucketsStacked, Stacked
  <2>5. CASE ClosesLine(k, last, stale)
    <3> DEFINE iit == WillNotFit(k, (offset + 1) % Words, tot, all, last, stale)
               sp == Space(iit, tot)
               out == NopsOut(sp) \o ConstantsOut(all, iit) \o <<Insn(ninsn, here)>>
    <3>1. /\ totsz' = 0 /\ buckets' = <<>> /\ how' \in {"plain", "last"}
          /\ offset' = (offset + tot + sp + 1) % Words /\ Write(out)
      BY <2>5 DEF ClosesLine, tot, here, all
    <3>2. sp \in Nat
      BY <2>1, AnswerIsInt, SpaceIsNat
    <3>3. out \in Seq(Word) /\ Len(out) = sp + tot + 1
      <4> HIDE DEF iit, sp
      <4>1. out = NopsOut(sp) \o ConstantsOut(all, iit) \o <<Insn(ninsn, here)>>
        OBVIOUS
      <4> HIDE DEF out
      <4> QED
        BY <2>1, <3>2, <4>1, OutLength
    <3> HIDE DEF iit, sp
    <3> HIDE DEF out
    <3>4. offset + tot + sp + 1 = offset + Len(out)
      BY <2>1, <2>3, <3>2, <3>3
    <3>5. line' \in Seq(Word) /\ Len(line') = offset' /\ offset' \in 0 .. Words - 1
      BY <3>1, <3>3, <3>4, WriteKeepsPlace
    <3> QED
      BY <2>2, <3>1, <3>5 DEF PoolInv, BucketsStacked, Known
  <2>6. CASE Moves(k, stale)
    <3> DEFINE iit == WillNotFit(k, (offset + 1) % Words, tot, all, FALSE, stale)
               sp == Space(iit, tot)
               out == NopsOut(sp) \o ConstantsOut(all, iit) \o <<Insn(ninsn, new)>>
    <3>1. /\ totsz' = Need(k) /\ buckets' = new /\ how' = "moved"
          /\ offset' = (offset + tot + sp + 1) % Words /\ Write(out)
      BY <2>6 DEF Moves, tot, here, all, new
    <3>2. sp \in Nat
      BY <2>1, AnswerIsInt, SpaceIsNat
    <3>3. out \in Seq(Word) /\ Len(out) = sp + tot + 1
      <4> HIDE DEF iit, sp
      <4>1. out = NopsOut(sp) \o ConstantsOut(all, iit) \o <<Insn(ninsn, new)>>
        OBVIOUS
      <4> HIDE DEF out
      <4> QED
        BY <2>1, <3>2, <4>1, OutLength
    <3> HIDE DEF iit, sp
    <3> HIDE DEF out
    <3>4. offset + tot + sp + 1 = offset + Len(out)
      BY <2>1, <2>3, <3>2, <3>3
    <3>5. line' \in Seq(Word) /\ Len(line') = offset' /\ offset' \in 0 .. Words - 1
      BY <3>1, <3>3, <3>4, WriteKeepsPlace
    <3> QED
      BY <2>1, <2>2, <3>1, <3>5 DEF PoolInv, BucketsStacked, Stacked
  <2> QED
    BY <1>2, <2>4, <2>5, <2>6
<1>3. ASSUME NEW k \in Kinds, EvalInstruction(k)
      PROVE  PoolInv'
  <2>1. /\ ninsn < MaxInsns /\ ninsn' = ninsn + 1
        /\ \E stale \in 1 .. 2 :
             Fits(k, stale) \/ ClosesLine(k, FALSE, stale) \/ Moves(k, stale)
    BY <1>3 DEF EvalInstruction
  <2> QED
    BY <2>1, <1>2
<1>4. ASSUME NEW k \in Kinds, EvalLastInstruction(k)
      PROVE  PoolInv'
  <2>1. ninsn < MaxInsns /\ ninsn' = ninsn + 1 /\ ClosesLine(k, TRUE, 1)
    BY <1>4, Zenon DEF EvalLastInstruction
  <2>2. 1 \in 1 .. 2 /\ TRUE \in BOOLEAN
    OBVIOUS
  <2> QED
    BY <2>1, <2>2, <1>2, Zenon
<1> QED
  BY <1>1, <1>3, <1>4 DEF Next

LEMMA PoolInvariant == Spec => []PoolInv
<1>1. Init => PoolInv
  <2>1. <<>> \in Seq(BucketSpace) /\ <<>> \in Seq(Word) /\ Len(<<>>) = 0
    OBVIOUS
  <2> QED
    BY <2>1, WordsAssumption, MaxInsnsAssumption DEF Init, PoolInv, BucketsStacked, Known
<1>2. PoolInv /\ [Next]_vars => PoolInv'
  BY EvalKeepsPool
<1> QED
  BY <1>1, <1>2, PTL DEF Spec

(* The place of each instruction is what has been written, whatever the    *)
(* instructions bring and mark: db->size and the program counter agree     *)
(* with the words that eval_instruction writes.                            *)
THEOREM TypesHold == Spec => []TypeOK
<1>1. PoolInv => TypeOK
  <2> SUFFICES ASSUME PoolInv PROVE TypeOK
    OBVIOUS
  <2> DEFINE S == [size : 1 .. 2, pos : Int, of : 0 .. MaxInsns]
  <2>1. buckets \in Seq(BucketSpace) /\ Len(buckets) \in Nat
    BY DEF PoolInv
  <2>2. ASSUME NEW j \in 1 .. Len(buckets) PROVE buckets[j] \in S
    <3>1. buckets[j] \in BucketSpace
      BY <2>1
    <3> QED
      BY <3>1 DEF BucketSpace, PoolInv, Known
  <2>3. buckets \in Seq(S)
    <3> HIDE DEF S
    <3> QED
      BY <2>1, <2>2
  <2> QED
    BY <2>3 DEF TypeOK, PoolInv
<1> QED
  BY <1>1, PoolInvariant, PTL

(* The place an instruction was given for its constant is the place at     *)
(* which the loop over the buckets, newest first, puts it in the pool, for *)
(* every program: also where the pool has outgrown the line.               *)
THEOREM PoolStaysStacked == Spec => []BucketsStacked
<1>1. PoolInv => BucketsStacked
  BY DEF PoolInv
<1> QED
  BY <1>1, PoolInvariant, PTL

-----------------------------------------------------------------------------
Pools(size) == IF size > 0 THEN 1 ELSE 0

TwoWordsCounted ==
  \A k \in Kinds :
    /\ Need(k) <= 2
    /\ Need(k) > 0 => k.clr = Pools(k.first) + Pools(k.second)

(* The constants of a line are bounded by its instructions, except for one *)
(* constant that a line may start with, and there is room for both.        *)
(* Without this the unsigned comparisons of will_not_fit could wrap.  (The *)
(* place is taken on the line: an instruction that fills the last word is  *)
(* at place 0 with the constants of the line it has filled.)               *)
IInv ==
  /\ offset \in 0 .. Words - 1
  /\ totsz \in Nat
  /\ offset + totsz <= Words
  /\ totsz <= 2 * offset + 3
  /\ buckets \in Seq(BucketSpace)
  /\ ninsn \in Nat
  /\ BucketsStacked

LEMMA KindFacts ==
  ASSUME TwoWordsCounted, NEW k \in Kinds
  PROVE  /\ k.first \in 0 .. 2 /\ k.second \in 0 .. 2 /\ k.clr \in 0 .. 2
         /\ Need(k) \in 0 .. 2
         /\ k.first + k.second = Need(k)
         /\ k.first > 0 /\ k.second = 0 => k.clr = 1
         /\ k.first = 0 /\ k.second > 0 => k.clr = 1
         /\ k.first > 0 /\ k.second > 0 => k.clr = 2
  BY KindsAssumption DEF KindSpace, TwoWordsCounted, Need, Pools

LEMMA Bounds ==
  ASSUME IInv
  PROVE  /\ offset \in Nat /\ offset <= Words - 1 /\ totsz \in Nat
         /\ offset + totsz <= Words /\ totsz <= 2 * offset + 3
         /\ Words \in Nat /\ Words > 8
  BY WordsAssumption DEF IInv

(* will_not_fit counts the constants of the instruction itself; where it   *)
(* has none it counts at most four words of others.                        *)
LEMMA WordsCounted ==
  ASSUME TwoWordsCounted, NEW k \in Kinds, NEW tot \in Nat, NEW n \in Nat,
         NEW bks \in Seq(BucketSpace), NEW stale \in 1 .. 2
  PROVE  LET words == BucketWords(k, bks \o Pooled(k, tot, n), stale)
         IN  /\ words \in 0 .. 4
             /\ k.clr > 0 => words > 0
             /\ Need(k) > 0 => k.clr > 0 /\ words = Need(k)
<1> DEFINE new == Pooled(k, tot, n)
           all == bks \o new
<1>1. all \in Seq(BucketSpace) /\ new \in Seq(BucketSpace) /\ Len(all) = Len(bks) + Len(new)
  BY PooledType
<1>2. \A i \in Int : SizeAt(all, i, stale) \in 1 .. 2
  <2> HIDE DEF all
  <2>1. \A i \in DOMAIN all : all[i] \in BucketSpace
    BY <1>1
  <2>2. \A b \in BucketSpace : b.size \in 1 .. 2
    BY DEF BucketSpace
  <2> QED
    BY <2>1, <2>2 DEF SizeAt
<1>3. BucketWords(k, all, stale) \in 0 .. 4 /\ (k.clr > 0 => BucketWords(k, all, stale) > 0)
  <2>1. Len(all) \in Int /\ Len(all) - 1 \in Int
    BY <1>1
  <2> QED
    BY <1>2, <2>1 DEF BucketWords
<1>4. ASSUME k.first > 0, k.second = 0
      PROVE  k.clr = 1 /\ BucketWords(k, all, stale) = Need(k)
  <2>1. new = <<Bucket(k.first, Words - tot - k.first, n)>>
    BY <1>4 DEF Pooled
  <2>2. Len(all) = Len(bks) + 1 /\ all[Len(all)].size = k.first /\ Len(all) \in DOMAIN all
    BY <2>1, <1>1 DEF Bucket
  <2> QED
    BY <2>2, <1>4, KindFacts DEF BucketWords, SizeAt
<1>5. ASSUME k.first = 0, k.second > 0
      PROVE  k.clr = 1 /\ BucketWords(k, all, stale) = Need(k)
  <2>1. new = <<Bucket(k.second, Words - tot - k.first - k.second, n)>>
    BY <1>5 DEF Pooled
  <2>2. Len(all) = Len(bks) + 1 /\ all[Len(all)].size = k.second /\ Len(all) \in DOMAIN all
    BY <2>1, <1>1 DEF Bucket
  <2> QED
    BY <2>2, <1>5, KindFacts DEF BucketWords, SizeAt
<1>6. ASSUME k.first > 0, k.second > 0
      PROVE  k.clr = 2 /\ BucketWords(k, all, stale) = Need(k)
  <2> DEFINE b1 == Bucket(k.first, Words - tot - k.first, n)
             b2 == Bucket(k.second, Words - tot - k.first - k.second, n)
  <2>0. b1 \in BucketSpace /\ b2 \in BucketSpace /\ b1.size = k.first /\ b2.size = k.second
    BY <1>6, KindFacts, WordsAssumption DEF Bucket, BucketSpace
  <2>1. new = <<b1>> \o <<b2>>
    BY <1>6 DEF Pooled
  <2>4. Len(new) = 2 /\ new[1].size = k.first /\ new[2].size = k.second
    <3> HIDE DEF b1, b2, new
    <3>1. \A p, q \in BucketSpace : Len(<<p>> \o <<q>>) = 2
            /\ (<<p>> \o <<q>>)[1] = p /\ (<<p>> \o <<q>>)[2] = q
      OBVIOUS
    <3> QED
      BY <2>0, <2>1, <3>1
  <2>2. /\ Len(all) = Len(bks) + 2
        /\ Len(all) \in DOMAIN all /\ Len(all) - 1 \in DOMAIN all
        /\ all[Len(all)].size = k.second /\ all[Len(all) - 1].size = k.first
    <3> HIDE DEF new
    <3> QED
      BY <2>4, <1>1
  <2> QED
    BY <2>2, <1>6, KindFacts DEF BucketWords, SizeAt
<1> QED
  BY <1>3, <1>4, <1>5, <1>6, KindFacts

(* An instruction that fits keeps the bounds.                              *)
LEMMA FitsBounds ==
  ASSUME TwoWordsCounted, IInv, NEW k \in Kinds, NEW stale \in 1 .. 2, Fits(k, stale)
  PROVE  /\ offset' \in 0 .. Words - 1 /\ totsz' \in Nat
         /\ offset' + totsz' <= Words /\ totsz' <= 2 * offset' + 3
<1> DEFINE at == (offset + 1) % Words
           tot == totsz + Need(k)
           words == BucketWords(k, buckets \o Pooled(k, totsz, ninsn), stale)
<1>1. /\ words \in 0 .. 4 /\ (k.clr > 0 => words > 0)
      /\ (Need(k) > 0 => k.clr > 0 /\ words = Need(k)) /\ Need(k) \in 0 .. 2
      /\ k.clr \in 0 .. 2
  BY WordsCounted, KindFacts DEF IInv
<1>2. at = IF offset = Words - 1 THEN 0 ELSE offset + 1
  BY WordsAssumption DEF IInv
<1>3. at \in Nat /\ tot \in Nat /\ offset' = at /\ totsz' = tot
  BY <1>1, <1>2, WordsAssumption DEF IInv, Fits
<1>4. WillNotFit(k, at, tot, buckets \o Pooled(k, totsz, ninsn), FALSE, stale) = 0
  BY DEF Fits
<1>5. CASE k.clr > 0
  <2>1. LessUnsigned(at, Words + 2 - words - tot)
    BY <1>1, <1>4, <1>5 DEF WillNotFit
  <2> HIDE DEF words, at
  <2>2. at < Words + 2 - words - tot
    BY <2>1, <1>1, <1>2, <1>3, <1>5, WordsAssumption DEF IInv, LessUnsigned
  <2> QED
    BY <2>2, <1>1, <1>2, <1>3, <1>5, Bounds
<1>6. CASE k.clr = 0
  <2>1. LessUnsigned(at, Words - tot)
    BY <1>1, <1>4, <1>6 DEF WillNotFit
  <2>2. tot = totsz
    BY <1>1, <1>6 DEF IInv
  <2>3. at < Words - totsz
    BY <2>1, <2>2, WordsAssumption DEF IInv, LessUnsigned
  <2> QED
    BY <2>2, <2>3, <1>2, <1>3, WordsAssumption DEF IInv
<1> QED
  BY <1>1, <1>5, <1>6

(* A line is only closed where its instructions, its constants and those   *)
(* of the instruction reach its end, so no NOP is written before them and  *)
(* the instruction lands among the first words of the next line.           *)
LEMMA MovesBounds ==
  ASSUME TwoWordsCounted, IInv, NEW k \in Kinds, NEW stale \in 1 .. 2, Moves(k, stale)
  PROVE  /\ offset' \in 0 .. Words - 1 /\ totsz' \in Nat
         /\ offset' + totsz' <= Words /\ totsz' <= 2 * offset' + 3
<1> DEFINE at == (offset + 1) % Words
           tot == totsz + Need(k)
           all == buckets \o Pooled(k, totsz, ninsn)
           words == BucketWords(k, all, stale)
           iit == WillNotFit(k, at, tot, all, FALSE, stale)
           end == offset + tot + Space(iit, tot) + 1
<1>1. /\ words \in 0 .. 4 /\ (k.clr > 0 => words > 0)
      /\ (Need(k) > 0 => k.clr > 0 /\ words = Need(k)) /\ Need(k) \in 0 .. 2
      /\ k.clr \in 0 .. 2
  BY WordsCounted, KindFacts DEF IInv
<1>2. at = IF offset = Words - 1 THEN 0 ELSE offset + 1
  BY WordsAssumption DEF IInv
<1>3. iit > 2 /\ totsz' = Need(k) /\ offset' = end % Words
  BY DEF Moves
<1>4. iit = 3 + words /\ k.clr > 0 /\ ~LessUnsigned(at, Words + 2 - words - tot)
  BY <1>1, <1>3 DEF WillNotFit
<1>5. tot \in Nat /\ Space(iit, tot) \in Nat
  <2>1. tot \in Nat
    BY <1>1 DEF IInv
  <2> HIDE DEF words, iit, tot
  <2>2. Words - tot - offset - (iit - 2) \in Int
    BY <2>1, <1>1, <1>4, WordsAssumption DEF IInv
  <2> QED
    BY <2>1, <2>2, <1>3 DEF Space, Clamp
<1>6. end \in Nat /\ offset' \in 0 .. Words - 1
  <2>1. end \in Nat
    <3> HIDE DEF iit, tot
    <3> QED
      BY <1>5 DEF IInv
  <2> QED
    BY <2>1, <1>3, PlaceOnLine
<1>7. CASE Need(k) = 0
  <2> HIDE DEF iit, end
  <2> QED
    BY <1>3, <1>6, <1>7, WordsAssumption
<1>8. CASE Need(k) > 0
  <2> HIDE DEF at, words, iit
  <2>1. words = Need(k) /\ words \in 1 .. 2
    BY <1>1, <1>8
  <2>2. at >= Words + 2 - words - tot
    BY <1>1, <1>2, <1>4, <1>5, WordsAssumption DEF IInv, LessUnsigned
  <2>3. offset # Words - 1 /\ at = offset + 1
    BY <2>1, <2>2, <1>2, WordsAssumption DEF IInv
  <2>4. Space(iit, tot) = 0
    <3> HIDE DEF tot
    <3>1. iit \in Int /\ iit > 2 /\ Words - tot - offset - (iit - 2) < 0
      <4>1. offset \in Int
        BY DEF IInv
      <4> HIDE DEF end
      <4> QED
        BY <4>1, <2>1, <2>2, <2>3, <1>4, <1>5, WordsAssumption
    <3> QED
      BY <3>1 DEF Space, Clamp
  <2>5. end = offset + tot + 1 /\ end >= Words + 2 - words /\ end <= Words + Need(k) + 1
    <3>1. end = offset + tot + 1
      BY <2>4, <1>5 DEF IInv
    <3> HIDE DEF end
    <3> QED
      BY <3>1, <2>1, <2>2, <2>3, <1>1, <1>5, Bounds
  <2>6. offset' + Need(k) <= Words
    <3> HIDE DEF end
    <3>1. end >= Words /\ end < Words + Words /\ end \in Nat
      BY <2>1, <2>5, <1>1, <1>6, WordsAssumption
    <3>2. end % Words = end - Words
      BY <3>1, PlaceOnLine
    <3> QED
      BY <3>1, <3>2, <2>1, <2>5, <1>1, <1>3, WordsAssumption
  <2> QED
    BY <2>6, <1>1, <1>3, <1>6, WordsAssumption
<1> QED
  BY <1>1, <1>7, <1>8

(* Without constants of its own, or for the last instruction, the line is  *)
(* closed and the pool is empty.                                           *)
LEMMA ClosesBounds ==
  ASSUME TwoWordsCounted, IInv, NEW k \in Kinds, NEW stale \in 1 .. 2,
         NEW last \in BOOLEAN, ClosesLine(k, last, stale)
  PROVE  /\ offset' \in 0 .. Words - 1 /\ totsz' \in Nat
         /\ offset' + totsz' <= Words /\ totsz' <= 2 * offset' + 3
<1> DEFINE tot == totsz + Need(k)
           all == buckets \o Pooled(k, totsz, ninsn)
           iit == WillNotFit(k, (offset + 1) % Words, tot, all, last, stale)
<1>1. iit \in {1, 2} /\ totsz' = 0 /\ offset' = (offset + tot + Space(iit, tot) + 1) % Words
  BY DEF ClosesLine
<1>2. tot \in Nat /\ Space(iit, tot) \in Nat
  <2>1. tot \in Nat
    BY KindFacts DEF IInv
  <2>2. Words - tot - offset - 0 \in Int
    BY <2>1, WordsAssumption DEF IInv
  <2> QED
    BY <2>1, <2>2, <1>1 DEF Space, Clamp
<1>3. offset + tot + Space(iit, tot) + 1 \in Nat
  BY <1>2 DEF IInv
<1>4. offset' \in 0 .. Words - 1
  BY <1>1, <1>3, PlaceOnLine
<1> HIDE DEF iit, tot
<1> QED
  BY <1>1, <1>4, WordsAssumption

(* Every instruction, whether it fits, closes the line or moves on, keeps  *)
(* the bounds.                                                             *)
LEMMA EvalKeeps ==
  ASSUME TwoWordsCounted, PoolInv, PoolInv', IInv, [Next]_vars
  PROVE  IInv'
<1>1. buckets' \in Seq(BucketSpace) /\ ninsn' \in Nat /\ BucketsStacked'
  BY MaxInsnsAssumption DEF PoolInv
<1>2. /\ offset' \in 0 .. Words - 1 /\ totsz' \in Nat
      /\ offset' + totsz' <= Words /\ totsz' <= 2 * offset' + 3
  <2>1. CASE UNCHANGED vars
    BY <2>1 DEF IInv, vars
  <2>2. ASSUME NEW k \in Kinds, EvalInstruction(k)
        PROVE  /\ offset' \in 0 .. Words - 1 /\ totsz' \in Nat
               /\ offset' + totsz' <= Words /\ totsz' <= 2 * offset' + 3
    <3>1. PICK stale \in 1 .. 2 :
            Fits(k, stale) \/ ClosesLine(k, FALSE, stale) \/ Moves(k, stale)
      BY <2>2 DEF EvalInstruction
    <3> QED
      BY <3>1, FitsBounds, ClosesBounds, MovesBounds
  <2>3. ASSUME NEW k \in Kinds, EvalLastInstruction(k)
        PROVE  /\ offset' \in 0 .. Words - 1 /\ totsz' \in Nat
               /\ offset' + totsz' <= Words /\ totsz' <= 2 * offset' + 3
    <3>1. ClosesLine(k, TRUE, 1)
      BY <2>3, Zenon DEF EvalLastInstruction
    <3>2. 1 \in 1 .. 2 /\ TRUE \in BOOLEAN
      OBVIOUS
    <3> QED
      BY <3>1, <3>2, ClosesBounds, Zenon
  <2> QED
    BY <2>1, <2>2, <2>3 DEF Next
<1> QED
  BY <1>1, <1>2 DEF IInv

(* The places of the open line are bounded after every instruction.        *)
LEMMA LineInvariant ==
  ASSUME TwoWordsCounted
  PROVE  Spec => []IInv
<1>1. Init => IInv
  BY WordsAssumption DEF Init, IInv, BucketsStacked
<1>2. PoolInv /\ PoolInv' /\ IInv /\ [Next]_vars => IInv'
  BY EvalKeeps
<1> QED
  BY <1>1, <1>2, PoolInvariant, PTL DEF Spec

-----------------------------------------------------------------------------
(* An instruction that pools nothing has at most one operand marked: with  *)
(* two, will_not_fit takes the sizes of two foreign constants and may      *)
(* empty the pool in the middle of a line.                                 *)
MarksCounted == \A k \in Kinds : Need(k) = 0 => k.clr <= 1

LinesInv ==
  /\ how \in {"open", "plain", "last", "moved"}
  /\ ninsn \in 0 .. MaxInsns
  /\ \A j \in 1 .. Len(buckets) : buckets[j].of \in 0 .. MaxInsns
  /\ line \in Seq(Word)
  /\ Len(line) = offset
  /\ OpenIndexesHaveBuckets
  /\ PlainCloseFindsConstants

LEMMA ToSetFacts ==
  ASSUME NEW S, NEW s \in Seq(S), NEW t \in Seq(S)
  PROVE  /\ ToSet(s) = {s[i] : i \in 1 .. Len(s)}
         /\ ToSet(s) \subseteq ToSet(s \o t) /\ ToSet(t) \subseteq ToSet(s \o t)
<1>1. \A u \in Seq(S) : ToSet(u) = {u[i] : i \in 1 .. Len(u)}
  BY DEF ToSet
<1>2. /\ s \o t \in Seq(S)
      /\ Len(s \o t) = Len(s) + Len(t) /\ Len(s) \in Nat /\ Len(t) \in Nat
      /\ \A p \in 1 .. Len(s) : (s \o t)[p] = s[p]
      /\ \A p \in 1 .. Len(t) : (s \o t)[Len(s) + p] = t[p]
  BY ConcatFacts
<1>3. ASSUME NEW p \in 1 .. Len(s) PROVE s[p] \in ToSet(s \o t)
  <2>1. p \in 1 .. Len(s \o t)
    BY <1>2
  <2> QED
    BY <1>1, <1>2, <2>1
<1>4. ASSUME NEW p \in 1 .. Len(t) PROVE t[p] \in ToSet(s \o t)
  <2>1. Len(s) + p \in 1 .. Len(s \o t)
    BY <1>2
  <2> QED
    BY <1>1, <1>2, <2>1
<1> QED
  BY <1>1, <1>3, <1>4

(* Words that do not fill a line stay on the open line.                    *)
LEMMA CutShort ==
  ASSUME NEW out \in Seq(Word), Len(out) < Words
  PROVE  Rest(out) = out
<1>1. Len(out) \in Nat /\ Len(out) \div Words = 0 /\ 0 * Words + 1 = 1
  BY WordsAssumption
<1>2. Rest(out) = SubSeq(out, 1, Len(out))
  BY <1>1 DEF Rest
<1> QED
  BY <1>2, SubSeqFull

(* Words that fill one line and not two.                                   *)
LEMMA CutOnce ==
  ASSUME NEW out \in Seq(Word), Words <= Len(out), Len(out) < Words + Words
  PROVE  /\ Rest(out) \in Seq(Word) /\ Len(Rest(out)) = Len(out) - Words
         /\ \A p \in 1 .. Len(out) - Words : Rest(out)[p] = out[Words + p]
         /\ Len(Lines(out)) = 1
         /\ \A p \in 1 .. Words : Lines(out)[1][p] = out[p]
<1>1. Len(out) \in Nat /\ Len(out) \div Words = 1
  BY WordsAssumption
<1>2. 1 * Words + 1 = Words + 1 /\ (1 - 1) * Words + 1 = 1 /\ 1 * Words = Words
  BY WordsAssumption
<1>3. Rest(out) = SubSeq(out, Words + 1, Len(out))
  BY <1>1, <1>2 DEF Rest
<1>4. Lines(out) = [i \in 1 .. 1 |-> SubSeq(out, (i - 1) * Words + 1, i * Words)]
  BY <1>1 DEF Lines
<1>5. Len(Lines(out)) = 1 /\ Lines(out)[1] = SubSeq(out, 1, Words)
  <2> DEFINE cut(i) == SubSeq(out, (i - 1) * Words + 1, i * Words)
  <2>1. Lines(out) = [i \in 1 .. 1 |-> cut(i)]
    BY <1>4
  <2>2. cut(1) = SubSeq(out, 1, Words)
    BY <1>2
  <2> HIDE DEF cut
  <2>3. Len(Lines(out)) = 1 /\ Lines(out)[1] = cut(1)
    BY <2>1
  <2> QED
    BY <2>2, <2>3
<1>6. \A p \in 1 .. Words : SubSeq(out, 1, Words)[p] = out[p]
  <2>1. \A i \in 1 .. Words : out[i] \in Word
    BY <1>1, WordsAssumption
  <2>2. /\ 1 \in Int /\ Words \in Int
        /\ \A i \in 1 .. Words - 1 + 1 : SubSeq(out, 1, Words)[i] = out[1 + i - 1]
    BY <2>1, SubSeqProperties, WordsAssumption
  <2> QED
    BY <2>2, WordsAssumption
<1>7. /\ Rest(out) \in Seq(Word) /\ Len(Rest(out)) = Len(out) - Words
      /\ \A p \in 1 .. Len(out) - Words : Rest(out)[p] = out[Words + p]
  <2>1. \A i \in Words + 1 .. Len(out) : out[i] \in Word
    BY <1>1, WordsAssumption
  <2> DEFINE r == SubSeq(out, Words + 1, Len(out))
  <2>2. /\ r \in Seq(Word)
        /\ Len(r) = IF Words + 1 <= Len(out) THEN Len(out) - (Words + 1) + 1 ELSE 0
        /\ \A i \in 1 .. Len(out) - (Words + 1) + 1 : r[i] = out[(Words + 1) + i - 1]
    BY <1>1, <2>1, SubSeqProperties, WordsAssumption
  <2> HIDE DEF r
  <2>3. Len(r) = Len(out) - Words /\ \A p \in 1 .. Len(out) - Words : r[p] = out[Words + p]
    BY <1>1, <2>2, WordsAssumption
  <2> QED
    BY <1>3, <2>2, <2>3 DEF r
<1> QED
  BY <1>5, <1>6, <1>7

(* A line that is closed: what is written before the instruction, and the  *)
(* instruction, of which what exceeds the line starts the next.            *)
Closing(bks, iit, sp, n, refs) ==
  line \o (NopsOut(sp) \o ConstantsOut(bks, iit) \o <<Insn(n, refs)>>)

(* What is to be known of it, for tot words of constants.                  *)
EndsLine(out, bks, iit, sp, tot, refs) ==
  /\ Rest(out) \in Seq(Word)
  /\ Len(Rest(out)) = Len(line) + sp + tot + 1 - Words
  /\ \A p \in 1 .. Len(Rest(out)) : Rest(out)[p].is = "insn" => Rest(out)[p].refs = refs
  /\ Len(Lines(out)) = 1
  /\ \A p \in 1 .. Len(line) : Lines(out)[1][p] = line[p]
  /\ \A p \in 1 .. Words :
       Len(line) < p /\ p <= Len(line) + sp + tot => Lines(out)[1][p].is # "insn"
  /\ \A i \in 1 .. tot : Len(line) + sp + i <= Words =>
       Lines(out)[1][Len(line) + sp + i] = ConstantsOut(bks, iit)[i]

LEMMA ClosedLine ==
  ASSUME line \in Seq(Word), NEW bks \in Seq(BucketSpace), NEW tot \in Nat, Stacked(bks, tot),
         NEW iit, NEW sp \in Nat, NEW n \in Nat, NEW refs \in Seq(BucketSpace),
         Len(line) < Words,
         Words <= Len(line) + sp + tot + 1, Len(line) + sp + tot + 1 < Words + Words
  PROVE  EndsLine(Closing(bks, iit, sp, n, refs), bks, iit, sp, tot, refs)
<1> DEFINE nops == NopsOut(sp)
           consts == ConstantsOut(bks, iit)
           insn == Insn(n, refs)
           fill == nops \o consts
           out == Closing(bks, iit, sp, n, refs)
           ln == Len(line)
<1>1. nops \in Seq(Filling) /\ Len(nops) = sp
  BY DEF NopsOut, Filling
<1>2. consts \in Seq(Filling) /\ Len(consts) = tot
  BY ConstantsWritten
<1>3. insn \in Word /\ insn.is = "insn" /\ insn.refs = refs
  BY WordFacts
<1>o. out = line \o (fill \o <<insn>>) /\ ln \in Nat
  BY DEF Closing
<1> HIDE DEF nops, consts, insn, out
<1>4. /\ fill \in Seq(Filling) /\ Len(fill) = sp + tot
      /\ \A i \in 1 .. tot : fill[sp + i] = consts[i]
  <2>1. /\ fill \in Seq(Filling) /\ Len(fill) = Len(nops) + Len(consts)
        /\ \A i \in 1 .. Len(consts) : fill[Len(nops) + i] = consts[i]
    <3>1. nops \in Seq(Filling) /\ consts \in Seq(Filling)
      BY <1>1, <1>2
    <3> QED
      BY <3>1
  <2> HIDE DEF fill
  <2> QED
    BY <1>1, <1>2, <2>1
<1> HIDE DEF fill
<1>5. fill \in Seq(Word) /\ <<insn>> \in Seq(Word) /\ Len(<<insn>>) = 1 /\ <<insn>>[1] = insn
  BY <1>3, <1>4, WordFacts, SeqMonotonic
<1> DEFINE tail == fill \o <<insn>>
<1>6. /\ tail \in Seq(Word) /\ Len(tail) = sp + tot + 1
      /\ \A p \in 1 .. sp + tot : tail[p] = fill[p]
      /\ tail[sp + tot + 1] = insn
  <2>1. /\ tail \in Seq(Word) /\ Len(tail) = Len(fill) + Len(<<insn>>)
        /\ \A p \in 1 .. Len(fill) : tail[p] = fill[p]
        /\ \A p \in 1 .. Len(<<insn>>) : tail[Len(fill) + p] = <<insn>>[p]
    BY <1>5, ConcatFacts
  <2> HIDE DEF tail
  <2> QED
    BY <1>4, <1>5, <2>1
<1> HIDE DEF tail
<1>7. /\ out \in Seq(Word) /\ Len(out) = ln + sp + tot + 1
      /\ \A p \in 1 .. ln : out[p] = line[p]
      /\ \A p \in 1 .. sp + tot + 1 : out[ln + p] = tail[p]
  <2>1. out = line \o tail
    BY <1>o DEF tail
  <2>2. /\ out \in Seq(Word) /\ Len(out) = Len(line) + Len(tail)
        /\ \A p \in 1 .. Len(line) : out[p] = line[p]
        /\ \A p \in 1 .. Len(tail) : out[Len(line) + p] = tail[p]
    <3>1. line \in Seq(Word) /\ tail \in Seq(Word)
      BY <1>6
    <3> QED
      BY <2>1, <3>1
  <2> HIDE DEF ln
  <2>3. Len(out) = ln + sp + tot + 1
    <3>1. Len(out) = ln + (sp + tot + 1)
      BY <1>6, <2>2 DEF ln
    <3> QED
      BY <3>1, <1>o
  <2> QED
    BY <1>6, <2>2, <2>3 DEF ln
<1>8. \A p \in 1 .. sp + tot : out[ln + p].is # "insn"
  <2>1. \A p \in 1 .. sp + tot : fill[p] \in Filling
    BY <1>4
  <2>2. ASSUME NEW p \in 1 .. sp + tot PROVE out[ln + p].is # "insn"
    <3>1. p \in 1 .. sp + tot + 1
      OBVIOUS
    <3>2. out[ln + p] = fill[p]
      BY <3>1, <1>6, <1>7
    <3> QED
      BY <2>1, <3>2, WordFacts
  <2> QED
    BY <2>2
<1>9. /\ Rest(out) \in Seq(Word) /\ Len(Rest(out)) = Len(out) - Words
      /\ \A p \in 1 .. Len(out) - Words : Rest(out)[p] = out[Words + p]
      /\ Len(Lines(out)) = 1
      /\ \A p \in 1 .. Words : Lines(out)[1][p] = out[p]
  BY <1>7, CutOnce
<1> HIDE DEF ln
<1>10. ASSUME NEW p \in 1 .. Len(Rest(out)), Rest(out)[p].is = "insn"
       PROVE  Rest(out)[p].refs = refs
  <2> DEFINE q == Words + p - ln
  <2>1. q \in 1 .. sp + tot + 1 /\ Words + p = ln + q /\ Rest(out)[p] = out[ln + q]
    <3>1. Words + p = ln + q /\ p \in 1 .. Len(out) - Words
      BY <1>9, <1>o, WordsAssumption
    <3>2. q \in 1 .. sp + tot + 1
      <4>0. Len(out) = ln + sp + tot + 1 /\ Len(out) \in Nat
        BY <1>7, <1>o
      <4>1. ln < Words /\ p <= ln + sp + tot + 1 - Words
        BY <3>1, <4>0, WordsAssumption DEF ln
      <4> QED
        BY <4>1, <1>o, WordsAssumption
    <3> QED
      BY <1>9, <3>1, <3>2
  <2> HIDE DEF q
  <2>2. q = sp + tot + 1
    BY <2>1, <1>8, <1>10
  <2> QED
    BY <2>1, <2>2, <1>3, <1>6, <1>7
<1>11. ASSUME NEW p \in 1 .. Words, ln < p, p <= ln + sp + tot
       PROVE  Lines(out)[1][p].is # "insn"
  <2>1. p - ln \in 1 .. sp + tot /\ ln + (p - ln) = p
    BY <1>11, <1>o, WordsAssumption
  <2> QED
    BY <2>1, <1>8, <1>9
<1>12. ASSUME NEW i \in 1 .. tot, ln + sp + i <= Words
       PROVE  Lines(out)[1][ln + sp + i] = consts[i]
  <2>1. sp + i \in 1 .. sp + tot /\ ln + (sp + i) = ln + sp + i /\ ln + sp + i \in 1 .. Words
    BY <1>12, <1>o, WordsAssumption
  <2>2. tail[sp + i] = consts[i] /\ sp + i \in 1 .. sp + tot + 1
    BY <2>1, <1>4, <1>6
  <2>3. out[ln + sp + i] = consts[i]
    BY <2>1, <2>2, <1>7
  <2> QED
    BY <2>1, <2>3, <1>9
<1>13. \A p \in 1 .. ln : Lines(out)[1][p] = line[p]
  <2>1. \A p \in 1 .. ln : p \in 1 .. Words
    BY <1>o, WordsAssumption DEF ln
  <2> QED
    BY <2>1, <1>7, <1>9
<1> QED
  <2>1. Len(Rest(out)) = ln + sp + tot + 1 - Words
    <3>1. Len(out) = ln + sp + tot + 1
      BY <1>7
    <3>2. Len(Rest(out)) = Len(out) - Words
      BY <1>9
    <3> QED
      BY <3>1, <3>2, <1>o, WordsAssumption
  <2> QED
    BY <1>9, <1>10, <1>11, <1>12, <1>13, <2>1 DEF EndsLine, ln, out, consts

(* Where a line is closed to move an instruction, the pool reaches down to *)
(* the instructions, so no NOP is written and the line is filled.          *)
LEMMA MovesEnd ==
  ASSUME TwoWordsCounted, MarksCounted, IInv, NEW k \in Kinds, NEW stale \in 1 .. 2
  PROVE  LET tot == totsz + Need(k)
             all == buckets \o Pooled(k, totsz, ninsn)
             iit == WillNotFit(k, (offset + 1) % Words, tot, all, FALSE, stale)
         IN  iit > 2 => /\ Space(iit, tot) = 0
                        /\ Words <= offset + tot + 1
                        /\ offset + tot + 1 < Words + Words
<1> DEFINE at == (offset + 1) % Words
           tot == totsz + Need(k)
           all == buckets \o Pooled(k, totsz, ninsn)
           words == BucketWords(k, all, stale)
           iit == WillNotFit(k, at, tot, all, FALSE, stale)
<1> SUFFICES ASSUME iit > 2
             PROVE  Space(iit, tot) = 0 /\ Words <= offset + tot + 1 /\ offset + tot + 1 < Words + Words
  OBVIOUS
<1>1. /\ words \in 0 .. 4 /\ (k.clr > 0 => words > 0)
      /\ (Need(k) > 0 => k.clr > 0 /\ words = Need(k)) /\ Need(k) \in 0 .. 2
      /\ k.clr \in 0 .. 2
  BY WordsCounted, KindFacts DEF IInv
<1>2. at = IF offset = Words - 1 THEN 0 ELSE offset + 1
  BY WordsAssumption DEF IInv
<1>4. iit = 3 + words /\ k.clr > 0 /\ ~LessUnsigned(at, Words + 2 - words - tot)
  BY <1>1 DEF WillNotFit
<1>5. tot \in Nat
  BY <1>1 DEF IInv
<1>6. words \in 1 .. 2
  <2>1. CASE Need(k) > 0
    BY <2>1, <1>1
  <2>2. CASE Need(k) = 0
    <3>1. k.clr = 1
      BY <2>2, <1>1, <1>4 DEF MarksCounted
    <3>2. SizeAt(all, Len(all), stale) \in 1 .. 2
      <4>1. all \in Seq(BucketSpace)
        <5>1. Pooled(k, totsz, ninsn) \in Seq(BucketSpace) /\ buckets \in Seq(BucketSpace)
          BY PooledType DEF IInv
        <5> QED
          BY <5>1
      <4> HIDE DEF all
      <4>2. Len(all) \in DOMAIN all => all[Len(all)] \in BucketSpace
        BY <4>1
      <4> QED
        BY <4>2, BucketFields DEF SizeAt
    <3> QED
      BY <3>1, <3>2 DEF BucketWords
  <2> QED
    BY <2>1, <2>2, <1>1
<1> HIDE DEF at, words, iit
<1>7. at >= Words + 2 - words - tot
  BY <1>1, <1>2, <1>4, <1>5, WordsAssumption DEF IInv, LessUnsigned
<1>8. offset # Words - 1 /\ at = offset + 1
  BY <1>6, <1>7, <1>2, <1>1, WordsAssumption DEF IInv
<1>9. Space(iit, tot) = 0
  <2> HIDE DEF tot
  <2>1. iit \in Int /\ iit > 2 /\ Words - tot - offset - (iit - 2) < 0
    BY <1>4, <1>5, <1>6, <1>7, <1>8, WordsAssumption DEF IInv
  <2> QED
    BY <2>1 DEF Space, Clamp
<1> QED
  BY <1>1, <1>5, <1>6, <1>7, <1>8, <1>9, Bounds

(* Where it is closed by an instruction without constants, or by the last  *)
(* one, NOPs fill what the pool leaves of it.                              *)
LEMMA ClosesEnd ==
  ASSUME TwoWordsCounted, IInv, NEW k \in Kinds, NEW iit \in {1, 2}
  PROVE  LET tot == totsz + Need(k)
         IN  /\ Space(iit, tot) \in Nat
             /\ Words <= offset + Space(iit, tot) + tot + 1
             /\ offset + Space(iit, tot) + tot + 1 < Words + Words
             /\ Need(k) = 0 => offset + Space(iit, tot) + tot = Words
<1> DEFINE tot == totsz + Need(k)
<1>1. Need(k) \in 0 .. 2 /\ tot \in Nat
  BY KindFacts DEF IInv
<1>2. Words - tot - offset - 0 \in Int /\ Space(iit, tot) = Clamp(Words - tot - offset - 0)
  BY <1>1, WordsAssumption DEF IInv, Space
<1>3. Space(iit, tot) = IF offset + tot > Words THEN 0 ELSE Words - tot - offset
  BY <1>1, <1>2, Bounds DEF Clamp
<1> QED
  BY <1>1, <1>3, Bounds

LEMMA SmallRemainder == ASSUME NEW e \in Nat, e < Words PROVE e % Words = e
  BY WordsAssumption

(* An instruction that fits is written behind the others of its line.      *)
LEMMA FitsLines ==
  ASSUME TwoWordsCounted, IInv, LinesInv, how # "last", NEW k \in Kinds, NEW stale \in 1 .. 2,
         Fits(k, stale), ninsn < MaxInsns, ninsn' = ninsn + 1
  PROVE  LinesInv'
<1> DEFINE new == Pooled(k, totsz, ninsn)
           insn == Insn(ninsn, new)
           out == line \o <<insn>>
<1>1. new \in Seq(BucketSpace) /\ buckets \in Seq(BucketSpace) /\ ninsn \in Nat
  BY PooledType DEF IInv
<1>2. insn \in Word /\ insn.refs = new
  BY <1>1, WordFacts
<1>3. /\ buckets' = buckets \o new /\ how' = "open"
      /\ offset' = (offset + 1) % Words
      /\ line' = Rest(out)
  BY DEF Fits, Write
<1>4. /\ how' \in {"open", "plain", "last", "moved"}
      /\ ninsn' \in 0 .. MaxInsns
      /\ PlainCloseFindsConstants'
  BY <1>3, MaxInsnsAssumption DEF LinesInv, PlainCloseFindsConstants
<1>5. \A j \in 1 .. Len(buckets') : buckets'[j].of \in 0 .. MaxInsns
  <2>1. Known(buckets) /\ totsz \in Nat /\ ninsn \in 0 .. MaxInsns
    BY DEF Known, LinesInv, IInv
  <2> QED
    BY <1>1, <1>3, <2>1, PooledKnown DEF Known
<1> HIDE DEF new, insn, out
<1>6. /\ out \in Seq(Word) /\ Len(out) = offset + 1 /\ offset \in Nat /\ offset < Words
      /\ \A w \in 1 .. offset : out[w] = line[w]
      /\ out[offset + 1] = insn
  <2>1. line \in Seq(Word) /\ Len(line) = offset /\ offset \in Nat /\ offset < Words
    BY Bounds DEF LinesInv
  <2> QED
    BY <1>2, <2>1 DEF out
<1>7. CASE offset + 1 < Words
  <2>1. line' = out /\ offset' = offset + 1
    <3>1. Rest(out) = out
      BY <1>6, <1>7, CutShort
    <3>2. offset + 1 \in Nat
      BY <1>6
    <3>3. (offset + 1) % Words = offset + 1
      BY <1>7, <3>2, SmallRemainder
    <3> QED
      BY <1>3, <3>1, <3>3
  <2>2. ToSet(buckets) \subseteq ToSet(buckets') /\ ToSet(new) \subseteq ToSet(buckets')
    BY <1>1, <1>3, ToSetFacts
  <2>3. ASSUME NEW w \in 1 .. Len(line'), line'[w].is = "insn"
        PROVE  \A r \in ToSet(line'[w].refs) : r \in ToSet(buckets')
    <3>1. CASE w = offset + 1
      BY <3>1, <2>1, <2>2, <1>2, <1>6
    <3>2. CASE w \in 1 .. offset
      <4>1. line'[w] = line[w] /\ w \in 1 .. Len(line)
        BY <3>2, <2>1, <1>6 DEF LinesInv
      <4>2. \A r \in ToSet(line[w].refs) : r \in ToSet(buckets)
        BY <2>3, <4>1 DEF LinesInv, OpenIndexesHaveBuckets
      <4> QED
        BY <4>1, <4>2, <2>2
    <3> QED
      BY <3>1, <3>2, <2>1, <1>6
  <2>4. OpenIndexesHaveBuckets'
    BY <2>3 DEF OpenIndexesHaveBuckets
  <2> QED
    BY <1>4, <1>5, <1>6, <2>1, <2>4 DEF LinesInv
<1>8. CASE offset + 1 = Words
  <2>1. Len(out) = Words /\ Words <= Len(out) /\ Len(out) < Words + Words
    BY <1>6, <1>8, WordsAssumption
  <2>2. line' \in Seq(Word) /\ Len(line') = 0
    BY <2>1, <1>3, <1>6, CutOnce, WordsAssumption
  <2>3. offset' = 0
    BY <1>3, <1>6, <1>8, PlaceOnLine, WordsAssumption
  <2>4. OpenIndexesHaveBuckets'
    BY <2>2 DEF OpenIndexesHaveBuckets
  <2> QED
    BY <1>4, <1>5, <2>2, <2>3, <2>4 DEF LinesInv
<1> QED
  BY <1>6, <1>7, <1>8, WordsAssumption

(* A line that is closed, with the facts of the steps that close it.       *)
LEMMA ClosingStep ==
  ASSUME TwoWordsCounted, IInv, LinesInv, NEW k \in Kinds, NEW iit, NEW sp \in Nat,
         NEW refs \in Seq(BucketSpace),
         Words <= offset + sp + (totsz + Need(k)) + 1,
         offset + sp + (totsz + Need(k)) + 1 < Words + Words,
         Write(NopsOut(sp) \o ConstantsOut(buckets \o Pooled(k, totsz, ninsn), iit)
                 \o <<Insn(ninsn, refs)>>),
         offset' = (offset + (totsz + Need(k)) + sp + 1) % Words
  PROVE  /\ line' \in Seq(Word) /\ Len(line') = offset'
         /\ offset' = offset + sp + (totsz + Need(k)) + 1 - Words
         /\ \A w \in 1 .. Len(line') : line'[w].is = "insn" => line'[w].refs = refs
         /\ Len(closed') = 1
         /\ \A p \in 1 .. offset : closed'[1][p] = line[p]
         /\ \A p \in 1 .. Words :
              offset < p /\ p <= offset + sp + (totsz + Need(k)) => closed'[1][p].is # "insn"
         /\ \A i \in 1 .. totsz + Need(k) : offset + sp + i <= Words =>
              closed'[1][offset + sp + i]
                = ConstantsOut(buckets \o Pooled(k, totsz, ninsn), iit)[i]
<1> DEFINE tot == totsz + Need(k)
           bks == buckets \o Pooled(k, totsz, ninsn)
           out == Closing(bks, iit, sp, ninsn, refs)
<1>1. tot \in Nat /\ ninsn \in Nat /\ totsz \in Nat /\ offset \in Nat
  BY KindFacts DEF IInv
<1>2. bks \in Seq(BucketSpace) /\ Stacked(bks, tot)
  <2>1. Stacked(buckets, totsz) /\ buckets \in Seq(BucketSpace)
    BY DEF IInv, BucketsStacked, Stacked
  <2> QED
    BY <1>1, <2>1, PooledStacked
<1>3. line' = Rest(out) /\ closed' = Lines(out)
  BY DEF Write, Closing
<1> HIDE DEF bks, tot, out
<1>4. line \in Seq(Word) /\ Len(line) = offset /\ Len(line) < Words
  BY Bounds DEF LinesInv
<1>5. Words <= Len(line) + sp + tot + 1 /\ Len(line) + sp + tot + 1 < Words + Words
  BY <1>4 DEF tot
<1>6. EndsLine(out, bks, iit, sp, tot, refs)
  BY <1>1, <1>2, <1>4, <1>5, ClosedLine DEF out
<1>7. offset' = offset + sp + tot + 1 - Words
  <2>1. offset' = (offset + tot + sp + 1) % Words
    BY DEF tot
  <2> DEFINE e == offset + tot + sp + 1
  <2>2. /\ e \in Nat /\ e >= Words /\ e < Words + Words
        /\ e - Words = offset + sp + tot + 1 - Words
    BY <1>1, <1>4, <1>5, WordsAssumption
  <2> HIDE DEF e
  <2>3. e % Words = e - Words
    BY <2>2, PlaceOnLine
  <2> QED
    BY <2>1, <2>2, <2>3 DEF e
<1> QED
  BY <1>3, <1>4, <1>6, <1>7 DEF EndsLine, tot, bks

(* A line closed by an instruction without constants, or by the last one.  *)
LEMMA ClosesLines ==
  ASSUME TwoWordsCounted, IInv, LinesInv, how # "last", NEW k \in Kinds, NEW last \in BOOLEAN,
         NEW stale \in 1 .. 2, ClosesLine(k, last, stale), ninsn < MaxInsns, ninsn' = ninsn + 1
  PROVE  LinesInv'
<1> DEFINE tot == totsz + Need(k)
           new == Pooled(k, totsz, ninsn)
           bks == buckets \o new
           iit == WillNotFit(k, (offset + 1) % Words, tot, bks, last, stale)
           sp == Space(iit, tot)
<1>1. /\ iit \in {1, 2} /\ buckets' = <<>> /\ how' = (IF last THEN "last" ELSE "plain")
      /\ offset' = (offset + tot + sp + 1) % Words
      /\ Write(NopsOut(sp) \o ConstantsOut(bks, iit) \o <<Insn(ninsn, new)>>)
  BY DEF ClosesLine
<1>2. /\ sp \in Nat
      /\ Words <= offset + sp + tot + 1 /\ offset + sp + tot + 1 < Words + Words
      /\ Need(k) = 0 => offset + sp + tot = Words
  BY <1>1, ClosesEnd
<1>3. /\ Need(k) \in 0 .. 2 /\ totsz \in Nat /\ offset \in Nat /\ ninsn \in Nat
      /\ buckets \in Seq(BucketSpace) /\ Stacked(buckets, totsz)
  BY KindFacts, WordsAssumption DEF IInv, BucketsStacked, Stacked
<1>4. new \in Seq(BucketSpace)
  BY <1>3, PooledType
<1>5. ~last => iit = 1 /\ Need(k) = 0
  <2> DEFINE words == BucketWords(k, bks, stale)
  <2>1. words \in 0 .. 4 /\ (Need(k) > 0 => k.clr > 0) /\ k.clr \in 0 .. 2
    BY WordsCounted, KindFacts DEF IInv
  <2>2. ~last /\ k.clr > 0 => iit = 0 \/ iit = 3 + words
    BY DEF WillNotFit
  <2>3. ~last /\ ~(k.clr > 0) => iit = 0 \/ iit = 1
    BY DEF WillNotFit
  <2> HIDE DEF words, iit
  <2> QED
    BY <1>1, <1>3, <2>1, <2>2, <2>3
<1> HIDE DEF iit, sp
<1>6. /\ line' \in Seq(Word) /\ Len(line') = offset'
      /\ offset' = offset + sp + tot + 1 - Words
      /\ \A w \in 1 .. Len(line') : line'[w].is = "insn" => line'[w].refs = new
      /\ Len(closed') = 1
      /\ \A p \in 1 .. offset : closed'[1][p] = line[p]
      /\ \A p \in 1 .. Words : offset < p /\ p <= offset + sp + tot => closed'[1][p].is # "insn"
      /\ \A i \in 1 .. tot : offset + sp + i <= Words =>
           closed'[1][offset + sp + i] = ConstantsOut(bks, iit)[i]
  BY <1>1, <1>2, <1>4, ClosingStep
<1>7. /\ how' \in {"open", "plain", "last", "moved"}
      /\ ninsn' \in 0 .. MaxInsns
      /\ \A j \in 1 .. Len(buckets') : buckets'[j].of \in 0 .. MaxInsns
  BY <1>1, <1>3, MaxInsnsAssumption
<1>8. CASE last
  <2>1. OpenIndexesHaveBuckets' /\ PlainCloseFindsConstants'
    BY <1>1, <1>8 DEF OpenIndexesHaveBuckets, PlainCloseFindsConstants
  <2> QED
    BY <1>6, <1>7, <2>1 DEF LinesInv
<1>9. CASE ~last
  <2>1. iit = 1 /\ Need(k) = 0 /\ tot = totsz /\ offset + sp + tot = Words
    BY <1>2, <1>3, <1>5, <1>9
  <2>2. new = <<>> /\ bks = buckets
    <3>1. k.first = 0 /\ k.second = 0
      BY <2>1, KindFacts DEF Need
    <3>2. new = <<>>
      BY <3>1 DEF Pooled
    <3> QED
      BY <1>3, <3>2
  <2>3. Len(line') = 1
    BY <1>2, <1>3, <1>6, <2>1, WordsAssumption
  <2>4. OpenIndexesHaveBuckets'
    <3>1. ToSet(<<>>) = {}
      BY DEF ToSet
    <3> QED
      BY <3>1, <1>6, <2>2 DEF OpenIndexesHaveBuckets
  <2>5. FindsConstants(closed'[1])
    <3> DEFINE l == closed'[1]
    <3> SUFFICES ASSUME NEW w \in 1 .. Words, l[w].is = "insn", NEW r \in ToSet(l[w].refs),
                        NEW part \in 1 .. r.size
                 PROVE  l[(r.pos % Words) + part] = Constant(r.of, part)
      BY DEF FindsConstants
    <3>1. w \in 1 .. offset /\ l[w] = line[w]
      BY <1>3, <1>6, <2>1, WordsAssumption
    <3>2. r \in ToSet(buckets)
      BY <3>1 DEF LinesInv, OpenIndexesHaveBuckets
    <3>3. PICK j \in 1 .. Len(buckets) : r = buckets[j]
      BY <1>3, <3>2, ToSetFacts
    <3>4. r \in BucketSpace /\ r.size \in 1 .. 2 /\ r.pos \in Int
      BY <1>3, <3>3, BucketFields
    <3> DEFINE i == r.pos - (Words - tot) + part
    <3>5. i \in 1 .. tot /\ ConstantsOut(bks, iit)[i] = BucketOut(bks, j, iit)[part]
      BY <1>3, <2>1, <2>2, <3>3, ConstantsWritten
    <3>6. r.pos - (Words - tot) + 1 \in 1 .. tot
      <4>1. 1 \in 1 .. r.size
        BY <3>4
      <4> QED
        BY <4>1, <1>3, <2>1, <2>2, <3>3, ConstantsWritten
    <3>7. BucketOut(bks, j, iit)[part] = Constant(r.of, part)
      BY <2>1, <2>2, <3>3 DEF BucketOut, Killed
    <3>8. tot \in Nat /\ r.pos \in Nat /\ r.pos < Words /\ offset + sp + i = r.pos + part
      <4> DEFINE pos == r.pos
                 low == pos - (Words - tot)
      <4>1. /\ tot \in Nat /\ pos \in Int /\ part \in Int /\ sp \in Nat /\ offset \in Nat
            /\ low + 1 \in 1 .. tot /\ i = low + part
        BY <1>2, <1>3, <2>1, <3>4, <3>6
      <4>2. offset + sp + tot = Words /\ low = pos - (Words - tot)
        BY <2>1
      <4> HIDE DEF pos, i, tot, low
      <4>3. low = pos - Words + tot
        BY <4>1, <4>2, WordsAssumption
      <4>4. pos \in Nat /\ pos < Words /\ offset + sp + i = pos + part
        BY <4>1, <4>2, <4>3, WordsAssumption
      <4> QED
        BY <4>1, <4>4 DEF pos
    <3>9. r.pos % Words = r.pos
      BY <3>8, SmallRemainder
    <3>10. offset + sp + i <= Words
      <4> HIDE DEF i, tot
      <4> QED
        BY <1>2, <1>3, <2>1, <3>5, <3>8, WordsAssumption
    <3>11. l[offset + sp + i] = ConstantsOut(bks, iit)[i]
      <4> HIDE DEF i
      <4> QED
        BY <1>6, <3>5, <3>10
    <3> QED
      BY <3>5, <3>7, <3>8, <3>9, <3>11
  <2>6. PlainCloseFindsConstants'
    BY <1>6, <2>3, <2>5 DEF PlainCloseFindsConstants, FindsConstants
  <2> QED
    BY <1>6, <1>7, <2>4, <2>6 DEF LinesInv
<1> QED
  BY <1>8, <1>9

(* A line closed to move an instruction to the next with its constants.    *)
LEMMA MovesLines ==
  ASSUME TwoWordsCounted, MarksCounted, IInv, LinesInv, how # "last", NEW k \in Kinds,
         NEW stale \in 1 .. 2, Moves(k, stale), ninsn < MaxInsns, ninsn' = ninsn + 1
  PROVE  LinesInv'
<1> DEFINE tot == totsz + Need(k)
           bks == buckets \o Pooled(k, totsz, ninsn)
           new == Pooled(k, 0, ninsn)
           iit == WillNotFit(k, (offset + 1) % Words, tot, bks, FALSE, stale)
           sp == Space(iit, tot)
<1>1. /\ iit > 2 /\ buckets' = new /\ how' = "moved"
      /\ offset' = (offset + tot + sp + 1) % Words
      /\ Write(NopsOut(sp) \o ConstantsOut(bks, iit) \o <<Insn(ninsn, new)>>)
  BY DEF Moves
<1>2. sp = 0 /\ Words <= offset + tot + 1 /\ offset + tot + 1 < Words + Words
  BY <1>1, MovesEnd
<1>3. /\ Need(k) \in 0 .. 2 /\ totsz \in Nat /\ offset \in Nat /\ ninsn \in Nat
      /\ buckets \in Seq(BucketSpace)
  BY KindFacts, WordsAssumption DEF IInv
<1>4. new \in Seq(BucketSpace)
  BY <1>3, PooledType
<1>5. \A j \in 1 .. Len(buckets') : buckets'[j].of \in 0 .. MaxInsns
  <2>1. ninsn \in 0 .. MaxInsns /\ Known(buckets)
    BY DEF LinesInv, Known
  <2>2. Known(new)
    BY <1>3, <2>1, PooledKnown
  <2> QED
    BY <1>1, <2>2 DEF Known
<1> HIDE DEF iit, sp, new
<1>6. /\ line' \in Seq(Word) /\ Len(line') = offset'
      /\ \A w \in 1 .. Len(line') : line'[w].is = "insn" => line'[w].refs = new
  <2>1. sp \in Nat /\ Words <= offset + sp + tot + 1 /\ offset + sp + tot + 1 < Words + Words
    BY <1>2, <1>3
  <2> QED
    BY <1>1, <1>4, <2>1, ClosingStep
<1>7. OpenIndexesHaveBuckets' /\ PlainCloseFindsConstants'
  BY <1>1, <1>6 DEF OpenIndexesHaveBuckets, PlainCloseFindsConstants
<1>8. how' \in {"open", "plain", "last", "moved"} /\ ninsn' \in 0 .. MaxInsns
  BY <1>1, <1>3, MaxInsnsAssumption
<1> QED
  BY <1>5, <1>6, <1>7, <1>8 DEF LinesInv

LEMMA LinesStep ==
  ASSUME TwoWordsCounted, MarksCounted, IInv, LinesInv, [Next]_vars
  PROVE  LinesInv'
<1>1. ASSUME NEW k \in Kinds, EvalInstruction(k) PROVE LinesInv'
  <2>1. /\ ninsn < MaxInsns /\ how # "last" /\ ninsn' = ninsn + 1
        /\ \E stale \in 1 .. 2 :
             Fits(k, stale) \/ ClosesLine(k, FALSE, stale) \/ Moves(k, stale)
    BY <1>1 DEF EvalInstruction
  <2>2. PICK stale \in 1 .. 2 :
          Fits(k, stale) \/ ClosesLine(k, FALSE, stale) \/ Moves(k, stale)
    BY <2>1
  <2>3. CASE Fits(k, stale)
    BY <2>1, <2>3, FitsLines
  <2>4. CASE ClosesLine(k, FALSE, stale)
    BY <2>1, <2>4, ClosesLines
  <2>5. CASE Moves(k, stale)
    BY <2>1, <2>5, MovesLines
  <2> QED
    BY <2>2, <2>3, <2>4, <2>5
<1>2. ASSUME NEW k \in Kinds, EvalLastInstruction(k) PROVE LinesInv'
  <2>1. ninsn < MaxInsns /\ how # "last" /\ ninsn' = ninsn + 1 /\ ClosesLine(k, TRUE, 1)
    BY <1>2 DEF EvalLastInstruction
  <2>2. 1 \in 1 .. 2
    OBVIOUS
  <2> QED
    BY <2>1, <2>2, ClosesLines
<1>3. CASE UNCHANGED vars
  BY <1>3 DEF vars, LinesInv, OpenIndexesHaveBuckets, PlainCloseFindsConstants
<1> QED
  BY <1>1, <1>2, <1>3 DEF Next

LEMMA LinesInit == Init => LinesInv
<1> SUFFICES ASSUME Init PROVE LinesInv
  OBVIOUS
<1>1. line = <<>> /\ buckets = <<>> /\ offset = 0 /\ how = "open" /\ ninsn = 0
  BY DEF Init
<1>2. OpenIndexesHaveBuckets /\ PlainCloseFindsConstants
  BY <1>1 DEF OpenIndexesHaveBuckets, PlainCloseFindsConstants
<1> QED
  BY <1>1, <1>2, MaxInsnsAssumption DEF LinesInv

LEMMA LinesInvariant ==
  ASSUME TwoWordsCounted, MarksCounted
  PROVE  Spec => [](IInv /\ LinesInv)
<1>1. Init => LinesInv
  BY LinesInit
<1>2. IInv /\ LinesInv /\ [Next]_vars => LinesInv'
  BY LinesStep
<1> QED
  BY <1>1, <1>2, LineInvariant, PTL DEF Spec

(* Where the marks count the constants of every instruction, an index      *)
(* given to an instruction of the open line is that of a constant still in *)
(* the pool, to be written on the same line.  A store of a label at a      *)
(* label, both small, is outside and does empty the pool too early.        *)
THEOREM IndexesHaveBuckets ==
  ASSUME TwoWordsCounted, MarksCounted
  PROVE  Spec => []OpenIndexesHaveBuckets
<1>1. LinesInv => OpenIndexesHaveBuckets
  BY DEF LinesInv
<1> QED
  BY <1>1, LinesInvariant, PTL

(* Under the same conditions a line closed by an instruction without       *)
(* constants holds at every index in it the constant that was meant: NOPs  *)
(* up to the pool, and the loop over the buckets, newest first, end where  *)
(* that instruction starts.                                                *)
THEOREM PlainLinesFindConstants ==
  ASSUME TwoWordsCounted, MarksCounted
  PROVE  Spec => []PlainCloseFindsConstants
<1>1. LinesInv => PlainCloseFindsConstants
  BY DEF LinesInv
<1> QED
  BY <1>1, LinesInvariant, PTL
=============================================================================
