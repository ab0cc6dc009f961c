----------------------------- MODULE BaseLemmas -----------------------------
(***************************************************************************)
(* Lemmas that several proofs of this project need.                        *)
(*   - Induction over data.  A principle of induction is stated for sets   *)
(*     of numbers, not for predicates: the set of the numbers with a       *)
(*     property is a set like any other, and the provers need not          *)
(*     instantiate an operator.  From it follow the recursive definitions  *)
(*     behind sequences.                                                   *)
(*   - Words as sets of bits (AsmBits): the bits of small numbers, and     *)
(*     values put into pieces of a word, which all three assemblers do.    *)
(***************************************************************************)
EXTENDS AsmBits, Sequences, SequencesExt, WellFoundedInduction, TLAPS

Below == {p \in Nat \X Nat : p[1] < p[2]}

(* There is no infinite descent in the natural numbers.                    *)
LEMMA BelowIsWellFounded == IsWellFoundedOn(Below, Nat)
  BY NatLessThanWellFounded DEF OpToRel, Below

(* A set with 0 that has with each number the next has all of them.        *)
LEMMA SetInduction ==
  ASSUME NEW S, 0 \in S, \A n \in Nat : n \in S => n + 1 \in S
  PROVE  Nat \subseteq S
<1> DEFINE T == Nat \ S
<1> SUFFICES ASSUME T # {} PROVE FALSE
  OBVIOUS
<1>1. PICK x \in T : \A y \in T : ~(<<y, x>> \in Below)
  <2>1. T \subseteq Nat
    OBVIOUS
  <2> HIDE DEF T
  <2> QED
    BY <2>1, BelowIsWellFounded, WFMin
<1>2. x \in Nat /\ x # 0 /\ x \notin S
  OBVIOUS
<1>3. x - 1 \in Nat /\ x - 1 < x /\ (x - 1) + 1 = x
  BY <1>2
<1>4. <<x - 1, x>> \in Below
  BY <1>2, <1>3 DEF Below
<1>5. x - 1 \in S
  BY <1>1, <1>3, <1>4
<1> QED
  BY <1>2, <1>3, <1>5

(* FlattenSeq appends the sequences one after the other.                   *)
LEMMA FlattenSteps ==
  ASSUME NEW seqs, NEW n \in Nat \ {0}, Len(seqs) = n
  PROVE  \E f : /\ FlattenSeq(seqs) = f[n]
                /\ f[1] = seqs[1]
                /\ \A i \in 1 .. n - 1 : f[i + 1] = f[i] \o seqs[i + 1]
<1> DEFINE Flattens(g, m) == g = [i \in 1 .. m |-> IF i = 1 THEN seqs[i] ELSE g[i - 1] \o seqs[i]]
           S == {m \in Nat : \E g : Flattens(g, m)}
<1>1. 0 \in S
  <2>1. Flattens([i \in 1 .. 0 |-> 0], 0)
    OBVIOUS
  <2> QED
    BY <2>1
<1>2. ASSUME NEW m \in Nat, m \in S PROVE m + 1 \in S
  <2>1. PICK g : Flattens(g, m)
    BY <1>2
  <2> DEFINE h == [i \in 1 .. m + 1 |-> IF i = 1 THEN seqs[1]
                                         ELSE IF i = m + 1 THEN g[m] \o seqs[m + 1] ELSE g[i]]
             k == [i \in 1 .. m + 1 |-> IF i = 1 THEN seqs[i] ELSE h[i - 1] \o seqs[i]]
  <2>2. ASSUME NEW i \in 1 .. m PROVE h[i] = g[i]
    BY <2>1
  <2>3. ASSUME NEW i \in 1 .. m + 1 PROVE h[i] = k[i]
    <3>1. CASE i = 1
      BY <3>1
    <3>2. CASE i # 1 /\ i = m + 1
      <4>1. m \in 1 .. m /\ i - 1 = m
        BY <3>2
      <4>2. h[i] = g[m] \o seqs[i]
        BY <3>2
      <4>3. k[i] = h[i - 1] \o seqs[i]
        BY <3>2
      <4> HIDE DEF h, k
      <4>4. h[m] = g[m]
        BY <2>2, <4>1
      <4> QED
        BY <4>1, <4>2, <4>3, <4>4
    <3>3. CASE i # 1 /\ i # m + 1
      <4>1. i - 1 \in 1 .. m /\ i \in 1 .. m
        BY <3>3
      <4>2. h[i] = g[i] /\ h[i - 1] = g[i - 1]
        BY <2>2, <4>1
      <4>3. g[i] = g[i - 1] \o seqs[i]
        BY <2>1, <3>3, <4>1
      <4>4. k[i] = h[i - 1] \o seqs[i]
        BY <3>3
      <4> QED
        BY <4>2, <4>3, <4>4
    <3> QED
      BY <3>1, <3>2, <3>3
  <2>4. h = k
    BY <2>3
  <2>5. Flattens(h, m + 1)
    BY <2>4
  <2> HIDE DEF h, k, Flattens
  <2>6. m + 1 \in Nat /\ \E x : Flattens(x, m + 1)
    BY <2>5
  <2> QED
    BY <2>6
<1>3. \E g : Flattens(g, n)
  <2> HIDE DEF Flattens
  <2>1. Nat \subseteq S
    <3> HIDE DEF S
    <3> QED
      BY <1>1, <1>2, SetInduction
  <2> QED
    BY <2>1
<1> DEFINE f == CHOOSE g : Flattens(g, n)
<1>4. Flattens(f, n)
  <2> HIDE DEF Flattens
  <2> QED
    BY <1>3
<1>5. FlattenSeq(seqs) = f[n]
  BY DEF FlattenSeq
<1> HIDE DEF f
<1>6. f[1] = seqs[1]
  BY <1>4
<1>7. ASSUME NEW i \in 1 .. n - 1 PROVE f[i + 1] = f[i] \o seqs[i + 1]
  <2>1. i + 1 \in 1 .. n /\ i + 1 # 1 /\ (i + 1) - 1 = i
    OBVIOUS
  <2> QED
    BY <1>4, <2>1
<1> QED
  BY <1>5, <1>6, <1>7

(* The bits of a number below 256.                                        *)
LEMMA PowersOfTwo == 2^0 = 1 /\ 2^1 = 2 /\ 2^2 = 4 /\ 2^3 = 8 /\ 2^4 = 16 /\ 2^5 = 32 /\ 2^6 = 64 /\ 2^7 = 128
  OBVIOUS

LEMMA ByteBits ==
  ASSUME NEW k \in Nat
  PROVE  BitsOf(k) = {b \in 0..7 :
           \/ b = 0 /\ k % 2 = 1
           \/ b = 1 /\ (k \div 2) % 2 = 1
           \/ b = 2 /\ (k \div 4) % 2 = 1
           \/ b = 3 /\ (k \div 8) % 2 = 1
           \/ b = 4 /\ (k \div 16) % 2 = 1
           \/ b = 5 /\ (k \div 32) % 2 = 1
           \/ b = 6 /\ (k \div 64) % 2 = 1
           \/ b = 7 /\ (k \div 128) % 2 = 1}
<1> DEFINE bit(b) == (k \div 2^b) % 2 = 1
<1>1. \A b \in 0..7 : b = 0 \/ b = 1 \/ b = 2 \/ b = 3 \/ b = 4 \/ b = 5 \/ b = 6 \/ b = 7
  OBVIOUS
<1>a. k \div 1 = k
  OBVIOUS
<1>2. bit(0) <=> k % 2 = 1
  BY PowersOfTwo, <1>a
<1>3. bit(1) <=> (k \div 2) % 2 = 1
  BY PowersOfTwo
<1>4. bit(2) <=> (k \div 4) % 2 = 1
  BY PowersOfTwo
<1>5. bit(3) <=> (k \div 8) % 2 = 1
  BY PowersOfTwo
<1>6. bit(4) <=> (k \div 16) % 2 = 1
  BY PowersOfTwo
<1>7. bit(5) <=> (k \div 32) % 2 = 1
  BY PowersOfTwo
<1>8. bit(6) <=> (k \div 64) % 2 = 1
  BY PowersOfTwo
<1>9. bit(7) <=> (k \div 128) % 2 = 1
  BY PowersOfTwo
<1>10. BitsOf(k) = {b \in 0..7 : bit(b)}
  BY DEF BitsOf
<1> HIDE DEF bit
<1> QED
  BY <1>1, <1>2, <1>3, <1>4, <1>5, <1>6, <1>7, <1>8, <1>9, <1>10

Layout == Nat \X Nat \X Nat
SpanOf(p) == p[3] .. p[3] + p[2] - 1

(* No bit of the word belongs to two pieces.                               *)
Apart(pieces) ==
  \A p, q \in pieces : p # q => SpanOf(p) \cap SpanOf(q) = {}

(* A bit of the value that a piece carries is at its place in the word.    *)
LEMMA BitOfPiece ==
  ASSUME NEW v, NEW pieces \in SUBSET Layout, Apart(pieces),
         NEW other, other \cap Span(pieces) = {},
         NEW p \in pieces, NEW b \in p[1] .. p[1] + p[2] - 1
  PROVE  b - p[1] + p[3] \in Put(v, pieces) \cup other <=> b \in v
<1> DEFINE at == b - p[1] + p[3]
<1>1. p[1] \in Nat /\ p[2] \in Nat /\ p[3] \in Nat
  BY DEF Layout
<1>2. at \in SpanOf(p) /\ at - p[3] + p[1] = b
  BY <1>1 DEF SpanOf
<1> HIDE DEF at
<1>3. at \notin other
  BY <1>2 DEF Span, SpanOf
<1>4. ASSUME NEW q \in pieces, at \in PutPiece(v, q)
      PROVE  b \in v
  <2>1. at \in SpanOf(q) /\ at - q[3] + q[1] \in v
    BY <1>4 DEF PutPiece, SpanOf
  <2>2. q = p
    BY <2>1, <1>2 DEF Apart
  <2> QED
    BY <2>1, <2>2, <1>2
<1>5. ASSUME b \in v
      PROVE  at \in PutPiece(v, p)
  BY <1>2, <1>5 DEF PutPiece, SpanOf
<1> QED
  BY <1>3, <1>4, <1>5 DEF Put, at

(* An operand whose pieces share no bit of the instruction word, neither   *)
(* with each other nor with what else is written there, is read back bit   *)
(* for bit: the checks of OperandsReadBack need look no further than the   *)
(* overlaps of fields.                                                     *)
THEOREM SeparateFieldsReadBack ==
  ASSUME NEW v, NEW pieces \in SUBSET Layout, Apart(pieces),
         NEW other, other \cap Span(pieces) = {}
  PROVE  Get(Put(v, pieces) \cup other, pieces) = v \cap Carried(pieces)
<1> DEFINE word == Put(v, pieces) \cup other
<1>1. ASSUME NEW p \in pieces, NEW b \in p[1] .. p[1] + p[2] - 1
      PROVE  b - p[1] + p[3] \in word <=> b \in v
  BY <1>1, BitOfPiece
<1> HIDE DEF word
<1>2. \A b : b \in Get(word, pieces) <=>
          \E p \in pieces : b \in p[1] .. p[1] + p[2] - 1 /\ b - p[1] + p[3] \in word
  BY DEF Get
<1>3. \A b : b \in Carried(pieces) <=> \E p \in pieces : b \in p[1] .. p[1] + p[2] - 1
  BY DEF Carried
<1>4. \A b : b \in Get(word, pieces) <=> b \in v \cap Carried(pieces)
  BY <1>1, <1>2, <1>3
<1>5. Get(word, pieces) = v \cap Carried(pieces)
  BY <1>4
<1> QED
  BY <1>5 DEF word

(* A number that passes the range check of a signed field is what a reader *)
(* obtains by extending the field with its top bit; the check is exact, so *)
(* no other number is.                                                     *)
THEOREM SignedRangeIsExact ==
  ASSUME NEW v \in SUBSET (0 .. 63), NEW n \in 1 .. 64
  PROVE  FitsSigned(v, n) <=>
           v = (v \cap Low(n)) \cup (IF n - 1 \in v THEN n - 1 .. 63 ELSE {})
<1>1. ASSUME FitsSigned(v, n)
      PROVE  v = (v \cap Low(n)) \cup (IF n - 1 \in v THEN n - 1 .. 63 ELSE {})
  <2>1. CASE Negative(v)
    <3>1. n - 1 .. 63 \subseteq v
      BY <1>1, <2>1 DEF FitsSigned
    <3>2. n - 1 \in v
      BY <3>1
    <3>3. \A b \in v : b \in 0 .. n - 1 \/ b \in n - 1 .. 63
      OBVIOUS
    <3>4. \A b : b \in v <=> b \in v \cap (0 .. n - 1) \/ b \in n - 1 .. 63
      BY <3>1, <3>3
    <3> QED
      BY <3>2, <3>4 DEF Low
  <2>2. CASE ~Negative(v)
    <3>1. v \subseteq 0 .. n - 2
      BY <1>1, <2>2 DEF FitsSigned
    <3>2. n - 1 \notin v
      BY <3>1
    <3>3. \A b \in v : b \in 0 .. n - 1
      BY <3>1
    <3>4. \A b : b \in v <=> b \in v \cap (0 .. n - 1)
      BY <3>3
    <3> QED
      BY <3>2, <3>4 DEF Low
  <2> QED
    BY <2>1, <2>2
<1>2. ASSUME v = (v \cap Low(n)) \cup (IF n - 1 \in v THEN n - 1 .. 63 ELSE {})
      PROVE  FitsSigned(v, n)
  <2>1. CASE n - 1 \in v
    <3>1. n - 1 .. 63 \subseteq v
      BY <1>2, <2>1
    <3>2. Negative(v)
      BY <3>1 DEF Negative
    <3> QED
      BY <3>1, <3>2 DEF FitsSigned
  <2>2. CASE n - 1 \notin v
    <3>1. v \subseteq 0 .. n - 2
      BY <1>2, <2>2 DEF Low
    <3>2. ~Negative(v)
      BY <3>1 DEF Negative
    <3> QED
      BY <3>1, <3>2 DEF FitsSigned
  <2> QED
    BY <2>1, <2>2
<1> QED
  BY <1>1, <1>2
=============================================================================
