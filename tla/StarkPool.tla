----------------------------- MODULE StarkPool -----------------------------
(***************************************************************************)
(* The constant pool of the Stark assembler back end                       *)
(* (src/software/vasm/cpus/Stark/cpu.c and operands.h).                    *)
(*                                                                         *)
(* Instructions are one word long and fill a cache line upwards.  A        *)
(* constant that is too large for its field is put into value_bucket, to   *)
(* be written at the end of the same line, growing downwards, and the      *)
(* instruction holds the index of its place on the line.  When the next    *)
(* instruction does not fit eval_instruction closes the line: NOPs, then   *)
(* the constants, newest first, then the instruction.                      *)
(*                                                                         *)
(* Lengths are counted in words of four bytes, so that 64 in the code is   *)
(* Words here, 72 is Words + 2 and a 64-bit constant takes 2.              *)
(***************************************************************************)
EXTENDS Integers, Sequences, SequencesExt

CONSTANTS
    Words,      \* words in a cache line: 16 in the code
    Kinds,      \* the instructions that occur, by the constants they pool
    MaxInsns    \* bound on the length of a program

(* first and second are the sizes of the constants that the operands pool  *)
(* (0 for none; only a store immediate has two), clr counts the operands   *)
(* the parser marked OPM_CLR, which is what will_not_fit goes by.          *)
KindSpace == [first : 0..2, second : 0..2, clr : 0..2]

ASSUME WordsAssumption == Words \in Nat /\ Words > 8
ASSUME KindsAssumption == Kinds \subseteq KindSpace
ASSUME MaxInsnsAssumption == MaxInsns \in Nat

VARIABLES
    offset,     \* (pc & 0x3f) / 4, the place of the next instruction
    totsz,      \* words taken by the constants of the open line
    buckets,    \* value_bucket[0 .. value_bucketno - 1]
    line,       \* what has been written of the open line
    closed,     \* the lines completed by the last instruction
    how,        \* why the last instruction closed a line
    ninsn       \* instructions evaluated so far

vars == <<offset, totsz, buckets, line, closed, how, ninsn>>

Nop == [is |-> "nop"]
Constant(n, part) == [is |-> "const", of |-> n, part |-> part]
Insn(n, refs) == [is |-> "insn", of |-> n, refs |-> refs]

Need(k) == k.first + k.second

(***************************************************************************)
(* What the insert functions add to value_bucket when tot words are in use *)
(***************************************************************************)
Bucket(size, pos, n) == [size |-> size, pos |-> pos, of |-> n]

(* Mutant: the second constant of a store placed like the first            *)
SecondLikeFirst(k, tot, n) ==
    LET one == Words - tot - k.first
    IN  (IF k.first > 0 THEN <<Bucket(k.first, one, n)>> ELSE <<>>)
     \o (IF k.second > 0 THEN <<Bucket(k.second, one, n)>> ELSE <<>>)

Pooled(k, tot, n) ==
    LET one == Words - tot - k.first
    IN  (IF k.first > 0 THEN <<Bucket(k.first, one, n)>> ELSE <<>>)
     \o (IF k.second > 0 THEN <<Bucket(k.second, one - k.second, n)>> ELSE <<>>)

(***************************************************************************)
(* will_not_fit.  The sizes of the last clr buckets are added up; below    *)
(* value_bucket[0] lies other memory, read as a size of one or two words.  *)
(* The comparisons are between unsigned numbers.                           *)
(***************************************************************************)
SizeAt(bks, i, stale) == IF i \in DOMAIN bks THEN bks[i].size ELSE stale

BucketWords(k, bks, stale) ==
    (IF k.clr > 0 THEN SizeAt(bks, Len(bks), stale) ELSE 0)
  + (IF k.clr > 1 THEN SizeAt(bks, Len(bks) - 1, stale) ELSE 0)

LessUnsigned(a, b) == b < 0 \/ a < b

WillNotFit(k, at, tot, bks, last, stale) ==
    LET words == BucketWords(k, bks, stale)
    IN  IF last THEN 2
        ELSE IF k.clr > 0
        THEN IF LessUnsigned(at, Words + 2 - words - tot) THEN 0 ELSE 3 + words
        ELSE IF LessUnsigned(at, Words - tot) THEN 0 ELSE 1

(***************************************************************************)
(* What eval_instruction writes when it closes the line                    *)
(***************************************************************************)
Clamp(n) == IF n < 0 THEN 0 ELSE n

Space(iit, tot) ==
    Clamp(Words - tot - offset - (IF iit > 2 THEN iit - 2 ELSE 0))

Killed(iit, j, bks) == iit > 2 /\ j - 1 > Len(bks) - (iit - 3)

BucketOut(bks, j, iit) ==
    [part \in 1..bks[j].size |->
        IF Killed(iit, j, bks) THEN Nop ELSE Constant(bks[j].of, part)]

(* Mutant: constants written oldest first                                  *)
OldestFirst(bks, iit) ==
    FlattenSeq([j \in 1..Len(bks) |-> BucketOut(bks, j, iit)])

ConstantsOut(bks, iit) ==
    FlattenSeq([j \in 1..Len(bks) |-> BucketOut(bks, Len(bks) + 1 - j, iit)])

(* Mutant: the space before the constants not filled with NOPs             *)
NoNops(space) == <<>>

NopsOut(space) == [i \in 1..space |-> Nop]

(* The words written so far, cut into complete lines and the open line     *)
Lines(out) == [i \in 1..(Len(out) \div Words) |->
                  SubSeq(out, (i - 1) * Words + 1, i * Words)]
Rest(out) == SubSeq(out, (Len(out) \div Words) * Words + 1, Len(out))

Write(out) ==
    /\ line' = Rest(line \o out)
    /\ closed' = Lines(line \o out)

Init ==
    /\ offset = 0
    /\ totsz = 0
    /\ buckets = <<>>
    /\ line = <<>>
    /\ closed = <<>>
    /\ how = "open"
    /\ ninsn = 0

(***************************************************************************)
(* eval_instruction for an instruction of kind k.  vasm advances the       *)
(* program counter by the size of the data block that is returned.         *)
(***************************************************************************)
Fits(k, stale) ==
    LET tot == totsz + Need(k)
        new == Pooled(k, totsz, ninsn)
    IN  /\ WillNotFit(k, (offset + 1) % Words, tot, buckets \o new, FALSE, stale) = 0
        /\ totsz' = tot
        /\ buckets' = buckets \o new
        /\ offset' = (offset + 1) % Words
        /\ Write(<<Insn(ninsn, new)>>)
        /\ how' = "open"

(* The line is closed and the instruction keeps the index it was given     *)
ClosesLine(k, last, stale) ==
    LET tot == totsz + Need(k)
        new == Pooled(k, totsz, ninsn)
        bks == buckets \o new
        iit == WillNotFit(k, (offset + 1) % Words, tot, bks, last, stale)
    IN  /\ iit \in {1, 2}
        /\ totsz' = 0
        /\ buckets' = <<>>
        /\ offset' = (offset + tot + Space(iit, tot) + 1) % Words
        /\ Write(NopsOut(Space(iit, tot)) \o ConstantsOut(bks, iit) \o <<Insn(ninsn, new)>>)
        /\ how' = IF last THEN "last" ELSE "plain"

(* Mutant: the pool not emptied before the operands are evaluated again    *)
MovesKeepingPool(k, stale) ==
    LET tot == totsz + Need(k)
        bks == buckets \o Pooled(k, totsz, ninsn)
        iit == WillNotFit(k, (offset + 1) % Words, tot, bks, FALSE, stale)
        new == Pooled(k, 0, ninsn)
    IN  /\ iit > 2
        /\ totsz' = tot
        /\ buckets' = new
        /\ offset' = (offset + tot + Space(iit, tot) + 1) % Words
        /\ Write(NopsOut(Space(iit, tot)) \o ConstantsOut(bks, iit) \o <<Insn(ninsn, new)>>)
        /\ how' = "moved"

(* The line is closed and the operands are evaluated again for the next    *)
Moves(k, stale) ==
    LET tot == totsz + Need(k)
        bks == buckets \o Pooled(k, totsz, ninsn)
        iit == WillNotFit(k, (offset + 1) % Words, tot, bks, FALSE, stale)
        new == Pooled(k, 0, ninsn)
    IN  /\ iit > 2
        /\ totsz' = Need(k)
        /\ buckets' = new
        /\ offset' = (offset + tot + Space(iit, tot) + 1) % Words
        /\ Write(NopsOut(Space(iit, tot)) \o ConstantsOut(bks, iit) \o <<Insn(ninsn, new)>>)
        /\ how' = "moved"

EvalInstruction(k) ==
    /\ ninsn < MaxInsns
    /\ how # "last"
    /\ ninsn' = ninsn + 1
    /\ \E stale \in 1..2 :
        \/ Fits(k, stale)
        \/ ClosesLine(k, FALSE, stale)
        \/ Moves(k, stale)

EvalLastInstruction(k) ==
    /\ ninsn < MaxInsns
    /\ how # "last"
    /\ ninsn' = ninsn + 1
    /\ ClosesLine(k, TRUE, 1)

Next == \E k \in Kinds : EvalInstruction(k) \/ EvalLastInstruction(k)

Spec == Init /\ [][Next]_vars

(***************************************************************************)
(* Properties                                                              *)
(***************************************************************************)
(* Types, and the place of each instruction is what has been written so    *)
(* far: db->size, computed from totsz and space, is the number of bytes    *)
(* that the loops of eval_instruction put into db->data.                   *)
TypeOK ==
    /\ offset \in 0..Words-1
    /\ totsz \in Nat
    /\ buckets \in Seq([size : 1..2, pos : Int, of : 0..MaxInsns])
    /\ how \in {"open", "plain", "last", "moved"}
    /\ ninsn \in 0..MaxInsns
    /\ Len(line) = offset

(* The buckets lie one under the other from the end of the line down to    *)
(* the first constant word, in the order in which they were filled, so     *)
(* that writing them newest first puts each at its pos.                    *)
BucketsStacked ==
    /\ buckets = <<>> => totsz = 0
    /\ buckets # <<>> => buckets[Len(buckets)].pos = Words - totsz
    /\ buckets # <<>> => buckets[1].pos + buckets[1].size = Words
    /\ \A j \in 1..Len(buckets)-1 :
           buckets[j].pos = buckets[j+1].pos + buckets[j+1].size

(* Every index in an instruction of the open line names a bucket that is   *)
(* still going to be written on this line.  The last instruction of the    *)
(* program is left out: its constant was written before it was.  This is   *)
(* so while no instruction has two operands marked and brings no constant, *)
(* as a store of a label at a label does when both are small: will_not_fit *)
(* then takes the buckets of others for its own, and the pool may be       *)
(* emptied in the middle of the line.                                      *)
OpenIndexesHaveBuckets ==
    \A w \in 1..Len(line) :
        how # "last" /\ line[w].is = "insn" =>
            \A r \in ToSet(line[w].refs) : r \in ToSet(buckets)

FindsConstants(l) ==
    \A w \in 1..Words :
        l[w].is = "insn" =>
            \A r \in ToSet(l[w].refs) : \A part \in 1..r.size :
                l[(r.pos % Words) + part] = Constant(r.of, part)

(* A line closed by an instruction that brings no constant of its own      *)
(* holds at every index the constant of the instruction with that index,   *)
(* and ends exactly where that instruction starts.                         *)
PlainCloseFindsConstants ==
    how = "plain" =>
        /\ Len(closed) = 1
        /\ Len(line) = 1
        /\ FindsConstants(closed[1])

(* The comment at cpu.c:1343: an instruction that does not fit is moved to *)
(* the next line and its constant is placed there, so that the lines       *)
(* already written find all their constants.  Also a line that             *)
(* instructions fill to its last word has to hold them: will_not_fit sees  *)
(* the place behind that word as place 0 of a line.                        *)
ConstantsFoundOnTheirLine ==
    \A i \in 1..Len(closed) : how # "last" => FindsConstants(closed[i])

=============================================================================
