# A verification project for the Qupls4 processor and its assemblers

Qupls is a superscalar out-of-order processor written in SystemVerilog. The
repository holds several generations of the core, a system on a chip around
it, ports of the assembler vasm to the instruction sets, and a small kernel.
The version under development is `src/rtl/cpu_v4` (Qupls4). This project is
about two things:

* the **control of the core**: what is kept in which register, who changes it
  at which clock edge, and what has to stay true however the blocks interleave;
* the **assembler back ends** of the current instruction sets (`Stark`,
  `Qupls4`, `Qupls4_copro` in `src/software/vasm/cpus`): how an instruction, its
  long constants and its relocations are laid out, and whether the hardware
  that reads them finds what was written.

Paths of the core are relative to `src/rtl/cpu_v4`, those of the assemblers to
`src/software/vasm/cpus`, unless they start with `src`.

A step of a model of the core is one rising edge of `clk`; all registers change
together from their old values, and when several statements of one `always_ff`
assign the same register the last one wins. What a model does not contain
(operands, other units, the program) is a choice made at each edge. A step of a
model of an assembler evaluates one instruction (`StarkPool`) or one operand of
an instruction (the `Encode` modules).

## 1. Inventory

### The path of an instruction

    source -> parse operand -> size -> emit (opcode, postfixes or pool) -> link
      -> fetch -> extract -> translate -> decode -> rename -> queue (re-order buffer)
      -> dispatch -> reservation station -> unit -> result queue
      -> register file, re-order buffer -> commit

The front end up to rename moves in lock step under `advance_pipeline`, four
instructions (a *group*, `MWIDTH`) per clock. From the re-order buffer on the
order is free until commit.

| component | state it keeps | operations | talks to |
|---|---|---|---|
| Branch checkpoint manager (`checkpoint/Qupls4_checkpoint_manager.sv`) | state (IDLE, ALLOC1, ALLOC2, SET), current index `cndx`, group served, pulses `setcp`, `alloc_chkpt`, `ialloc_chkpt` | scan of the group headers, allocation, writing the index to a header, back-up on a miss | group headers, allocator, alias table, restore flag |
| Checkpoint allocator (`checkpoint/Qupls4_checkpoint_allocator.sv`) | bitmap of available checkpoints, index handed out | hand out, take back, stall | manager |
| Group headers `pgh` (`Qupls4.sv` 6388-6413, 8889-8906) | valid, has_branch, cndx, cndxv per group | written at queueing and by `setcp` | manager, dispatcher |
| Register name supplier (`rename/Qupls4_reg_name_supplier9.sv`) | bitmap of free physical registers, delay line of freed ones, stall | choose four names, pop, push, stall | rename, alias table |
| Register alias table (`rename/Qupls4_rat2.sv`) | current map, history map, saved maps | rename, look up, save, restore, free | supplier, manager, backout machine, commit |
| Backout machine (`miscellaneous/Qupls4_backout_machine.sv`) | position in the buffer | walks back over stomped instructions and writes old maps back | alias table |
| Re-order buffer (`Qupls4.sv`, `miscellaneous/Qupls4_queue_room.sv`, `miscellaneous/Qupls4_commit_count.sv`) | 16 entries, `head`, `tails`, `empty`, `rstcnt` | queue, finish, stomp, commit, move heads and tails | all of the back end |
| Stomp logic (`miscellaneous/Qupls4_stomp.sv`), restore flag (`branch/Qupls4_restore_flag.sv`) | registered masks and pulses | invalidate pipeline stages and entries behind a missed branch | re-order buffer, manager |
| Dispatcher, reservation stations (`scheduler/`) | busy flags, captured operands | assign, capture, issue | re-order buffer, units |
| Result queues, result selection (`writeback/`) | a queue per unit, rotating choice | push, pop, write | register file |
| Load/store queue, scheduler, memory port (`scheduler/Qupls4_mem_sched.sv`, `memory/`) | entries, port state, time-out counter | order, forward, issue, retry | data cache |
| Data cache controller (`cache/dcache_ctrl.sv`) | requests and bus transactions | line fill, write, snoop, cancel | memory port, bus |
| MMU (`mmu/`), interrupt controller (`irq_controller/`), timer (`timer/`) | miss queue, page walker; message queues, pending bits; counters | | bus, core |
| Constant decoder (`decoder/Qupls4_decode_const.sv`) | none | finds the constant of an instruction in its field and the postfixes behind it | Qupls4 assembler |
| Graphics coprocessor (`copro/`) | program counter, registers, drawing state | reads its own instructions, with constants appended | coprocessor assembler |
| Stark back end (`Stark/cpu.c`, `operands.h`, `opcodes.h`) | static pool of constants of the open cache line: `value_bucket`, `value_bucketno`, `value_totsz`; the two small data registers | parse, check the range, pool, encode, close the line, relocate | vasm core, linker |
| Qupls4 back end (`Qupls4/cpu.c`, `opcodes.h`) | sizes of earlier instructions, small data register | parse, size, emit with up to four postfixes, relocate | vasm core, linker, constant decoder |
| Coprocessor back end (`Qupls4_copro/cpu.c`, `opcodes.h`) | small data register | parse, size, emit with one appended constant, relocate | vasm core, linker, coprocessor |
| Fetch, prediction, decode, translation, arithmetic | mostly data paths and tables | | |

The bus arbiter (`src/rtl/soc`), the earlier cores (`src/rtl/cpu`, `cpu_v3`,
`cpu_seq`, `cpu_v5`), the back ends of earlier instruction sets, the kernel and
the tools are listed in `PROJECT.json` with the reason they are left out.

### What is hard

* **Pulses and registered flags.** Nearly every signal between blocks of the
  core is registered, so it is acted on one clock after the state it was
  computed from: the supplier's `stall`, the allocator's index, `restore`,
  `setcp`, the stomp mask.
* **Several writers of one register in one clock.** Queueing, `setcp`,
  finishing, stomping and committing all write the buffer or the headers. What
  remains depends on the order of the statements.
* **Rings without a count.** Heads and tails of the re-order buffer are moved
  by different blocks and nothing counts the entries between them.
* **Limited resources**: entries, checkpoints, physical registers, postfixes,
  the words of a cache line.
* **An instruction evaluated more than once**: to size it, to emit it, and in
  Stark again when it moves to the next line; each evaluation has to come to the
  same size, from state that the one before may have changed.
* **Widths at their limits**: a number is tested against a field in one place,
  cut in another and extended in a third, which may be another program: the
  parser, the insert functions, the relocations, the processor.
* **Fields that share a word**: every operand type puts its bits where a table
  or code says, and a row of the table combines several.

### What makes each component correct

* manager and allocator: a branch may be dispatched only when a checkpoint was
  taken for it; checkpoints in use are not shared; every group is served; a
  miss brings back the index of the branch;
* name supplier: a physical register is free, held by one instruction or on its
  way back, and never two of these; a stall ends;
* re-order buffer: nothing in flight is overwritten; instructions leave in the
  order they came, not behind an oddball; every instruction leaves; room comes
  back;
* constant pool: a line is never promised more than it holds; every index in an
  instruction leads to the constant it was given for;
* encoders: every operand can be read back from the word; what is cut off is
  reported; sizing and emitting agree; relocations name the bits the value went
  into, with the type that was written; the hardware finds the number that was
  in the source and goes forward by as many bytes as were written;
* alias table, memory path, caches, MMU, interrupts (not modelled): after a miss
  the map is that of the branch; a store is performed once and in order; a
  retried access is answered once; every request is answered, every message kept.

`PROJECT.json` lists under `hazards` where in the code each of these could go
wrong.

## 2. The modules, and how they were chosen

| modules | about |
|---|---|
| `CheckpointManager`, `CheckpointManagerProofs`, `MCCheckpointManager` | manager, allocator, headers and the group slots of the re-order buffer they depend on, composed |
| `RegNameSupplier`, `RegNameSupplierProofs`, `MCRegNameSupplier` | supplier, decode group, holders of names |
| `NamePool` | what the supplier promises: an abstract pool of names |
| `ReorderBuffer`, `ReorderBufferProofs`, `MCReorderBuffer` | the ring, entry by entry |
| `InOrderBuffer` | what a re-order buffer promises: an abstract queue of instructions, which groups enter whole (not kept) or with losses on entry (kept) |
| `StarkPool`, `StarkPoolProofs`, `MCStarkPool` | the constant pool of a cache line |
| `StarkOperands` | the Stark operand table, the rows of the instruction table, parser, range check, insert functions, relocations |
| `StarkEncode`, `StarkEncodeProofs`, `MCStarkEncode` | one Stark instruction, operand by operand |
| `Qupls4Rows`, `Qupls4Operands`, `Qupls4Fields`, `Qupls4Constants` | the instruction table; registers and operands; where each format puts them; the constant decoder of the processor |
| `Qupls4Encode`, `Qupls4EncodeProofs`, `MCQupls4Encode` | one Qupls4 instruction through the sizing and the emitting call |
| `CoproOperands`, `CoproEncode`, `CoproEncodeProofs`, `MCCoproEncode` | the coprocessor's table and operands; one instruction through both calls, and its reading by the coprocessor |
| `AsmBits` | words as sets of bits, fields as sets of pieces, for all three assemblers |
| `BaseLemmas` | what the proofs share: induction over numbers and sequences, and facts about bits and pieces |
| `DataItems` | the data directives of the three back ends |
| `QuplsRelocs` | the attributes and relocation types the Qupls4 and coprocessor back ends share |

The core's control came first, most important first: what a branch needs to be
dispatched, what a register needs to be renamed, what an instruction needs to
leave. The assemblers came next because they are the other half of the
interface the decoder and the coprocessor implement, and because most of their
code is reached by no test of the repository.

A proof module extends the module it is about; no `RECURSIVE` operator is used
anywhere, so that every module can be proved about.

Every safety property of the runs is proved (section 5). Still to be done: models
of what section 6 lists.


## 3. The modules and the code

### CheckpointManager

| model | code |
|---|---|
| `state`, `setcp`, `setcp_grp`, `cndx`, `ialloc_chkpt`, `alloc_chkpt` | registers of the manager |
| `avail_chkpts`, `chkptn` | bitmap 0 and output of the allocator, `GROUP_ALLOC = 1` |
| `pgh`, `groupno`, `cndx_ren` | headers, slot of the next group, index current when the group was renamed |
| `occ`, `rob_br`, `rob_cndx`, `ready`, `stomped`, `restore` | the rest of the core: slots in flight, branch bit and `br_cndx` of a slot, clocks since its index is valid, slots without valid instructions, restore pulse |
| `IdleServe`, `IdleWait`, `Alloc1`, `Alloc2`, `SetGroup` | the branches of the state machine |
| `CoreStep` | what the core does in the same clock: queue a group, retire the oldest slot, resolve a missed branch |

A step is an action of the manager, `AllocatorStep`, and a `CoreStep`, all of
the old state. A group may be queued in the clock of a miss, as the code allows
(the test of `branchmiss` at `Qupls4.sv` 6510 guards an empty statement). It
may then be valid or not, because the pulse of the miss and the stomping of the
pipeline stages need not fall together.

`MarksBranches = TRUE` is the manager at its port, given headers that tell
whether a group has a branch; `FALSE` is the core as it is wired, where the
statement that sets that bit is commented out. Only `FALSE` is this repository's
core; with `TRUE` the manager goes through all of its states, which is what
`chk_miss` is for, and `chk_wired` is the core. `Losses` says
in which ways a group may be lost: `"void"`, none of its instructions is valid
when it is queued (behind a predicted branch, for example), and `"miss"`, it is
stomped on.

### RegNameSupplier and NamePool

| model | code |
|---|---|
| `avail`, `stall`, `vtdl` | bitmap per pool, registered stall, delay line of freed names |
| `dec` | pools the four slots of the decode group take names from |
| `holders` | number of instructions that hold a name; rises when a group advances with it and falls when it is freed |
| `aliased`, `short` | history: a clock handed a name to two slots; a group advanced with a slot that found no name |
| `Ffo` .. `Ffo3`, `LowBits` | the four find-first-one circuits, each of which excludes only the choice of the one before, and the truncation of the code for "none" |
| `Clock` | one edge: pop, push, delay, stall |

Once a name has been shared, nothing can be said about where it is, so a
history ends there (`HistoryEnds`), and the properties speak of the time
before.

`NamePool` is the promise to the rename stage: a set of free names and a set of
names that instructions hold. In one clock names are taken that were free, held
names are given back, and names given back earlier become free. The supplier
implements it with the refinement mapping *free* = the names in the bitmap,
*held* = the names with a holder (`IsNamePool`); a name in the delay line is
neither. A clock that gives one name to two slots is still a step of this pool,
which does not know of slots.

### ReorderBuffer and InOrderBuffer

| model | code |
|---|---|
| `st` | `v`, `done` and `stomped` of an entry, as one status |
| `barrier` | oddball bit or `excv`; kept by an entry that becomes invalid |
| `head`, `tail` | `head[0]`, `tails[0]`; the others are these plus a constant |
| `empty` | register of the queue room |
| `rstcnt` | clocks since reset |
| `room`, `NextEmpty` | `Qupls4_queue_room` |
| `Cmt`, `IsCommitCount` | `Qupls4_commit_count` |
| `HeadMove`, `IsLeadingInvalid` | the block that moves the heads; its second assignment wins |
| `Clock` | one edge, in the order of the statements: finishing, then queueing, then committing |

A step chooses whether the pipeline advances, how each instruction of the group
is queued (to be executed, stomped on, or invalid: `Kinds`), which instructions
finish, and which of those written are oddballs or have an exception. The
oddball bit is only read of a finished instruction, so it is chosen when the
instruction finishes. An instruction behind a missed branch is marked done
(`tBranchInvalidate`) and leaves like one that has finished, so it is a member
of `fin`. The hits of the instruction cache, a `sync`, and stalls of the alias
table are in the choice to advance or not.

Left out: the rule about pairs of NaNs in the commit count and the interrupt
bits in the room (both only make the buffer wait), streams (one stream), copy
targets, and what a committed oddball does.

`Mark` writes the oddball and exception bits of the entries of a clock;
`MaxOdd` bounds how many entries have one set at a time.

`InOrderBuffer` is the promise to the rest of the core: a sequence of
instructions, appended to at one end, of which any may finish and finished or
stomped ones leave at the other. The mapping takes the valid entries from the
tails upwards, and the tails for the place of the next group. `Least` says how many
instructions of a group enter at the least. With `Least = MWIDTH`
(`IsInOrderBuffer`) a group enters whole; the code does not keep that (run
`rob_drop`, section 4). With `Least = 0` (`LosesOnlyOnEntry`) instructions may be
missing after the clock in which their group was queued, and in no other clock.

### AsmBits

The assemblers build words of up to 64 bits (`uint64_t`, `thuge`). A word is the
set of its bits that are 1. A field is a set of *pieces* `<<at, n, from>>`: `n`
bits of the value, from bit `from` on, go to bit `at` of the word. `Put` places
a value, `Get` reads it back, `Carried` is the bits of a value that have a
place, `Span` the bits of the word they take. Shifts, negation, sign extension
and the tests of ranges are those of two's complement on 64 bits; `is_nbit` of
the Qupls back ends is translated as it is written.

### StarkPool

| model | code (`Stark/cpu.c`, `operands.h`) |
|---|---|
| `buckets`, `totsz` | `value_bucket[0 .. value_bucketno-1]`, `value_totsz` in words |
| `offset`, `line`, `closed` | `pc & 0x3f` in words, what was written on the open line, the lines the last instruction completed |
| `Pooled` | what the insert functions push, with the position computed from `value_totsz` |
| `WillNotFit` | `will_not_fit`, with its margins of 64 and 72 bytes and unsigned comparisons |
| `Space`, `NopsOut`, `ConstantsOut`, `Killed` | the loops of `eval_instruction` 1296-1345 that close a line |
| `Fits`, `ClosesLine`, `Moves` | the three outcomes of `eval_instruction`; `Moves` evaluates the operands a second time with an empty pool |

An instruction is known by the sizes of the constants it pools and by how many
operands the parser marked `OPM_CLR`. A bucket read below `value_bucket[0]` is
whatever lies there, one word or two.

### StarkOperands, StarkEncode

`powerpc_operands` is the operand table and `Rows` the different operand lists
of the instruction table. `Parsed` is `parse_operand` with the check
of a number against its field and the mark for the pool; `Inserted` the insert
functions; `Errors` the range check; `MakeReloc` and `LiPlaces`, `BranchRelocs`
the relocations; `read_sdreg`, `sdreg`, `sd2reg` the directives `.sdreg` and
`.sd2reg`, which take effect while parsing. One action for each kind of operand
(`EvalOperand`, `EvalMemory`, `EvalFarBranch`, `EvalData`) is one turn of the
loop of `eval_operands`.

### Qupls4Rows .. Qupls4Encode

`mnemonics` is the whole instruction table as the set of its different rows:
format, bits that the row fixes, flags, length and the operands it accepts.
`Qupls4Operands` has registers (numbers, classes, names, groups) and
`parse_operand`; `Qupls4Fields` the pieces of each format for registers,
immediates, branch displacements and memory operands, the choice of the number
of postfixes, and the relocations; `Qupls4Constants` the
reading of field and postfixes by `Qupls4_decode_const.sv`. `encode_reg` puts the
predicate "always" into the word with the first register of some formats
(`Always`), at bit 25, 16 or 54, and replaces it when the operand for the predicate
register comes (`PredicateOperand`; no row of the table has one).
The precision a qualifier or a default or-s into the opcode number is not
modelled: each row has its own number.
One action of `Qupls4Encode` encodes one operand; after the last the same
operands are encoded again for the emitting call (`StartEmitting`), as
`instruction_size` and `eval_instruction` both call `encode_qupls_instruction`.

### CoproOperands, CoproEncode

As for Qupls4, with the escapes 0x4000 and 0x4001 in the field for a constant of
64 or 32 bits that follows the instruction. `Consumed`, `Constant` and
`JumpTarget` are the coprocessor's side (`copro/Qupls4_copro2.sv`,
`Qupls4_copro_next_ip.sv`). A multiplication with an escape goes back to the state
that fetches the constant until its counter is past six, and `next_ip` goes on by
four bytes each time (`MulAgain`). Of the assembler's rows only a multiplication whose
field reads -16384 or -16383 gets there, which section 4 lists; none multiplies
by an appended constant.

### QuplsRelocs, DataItems

`Attribute` is the attribute written behind a symbol (`@got`, `@plt`, ...),
`fix_reloctype` the change of **all** relocations of an instruction when one
operand has the small data register as its base. `DataItems` has the directives
`db` .. `float`, the relocations of their labels, and the byte order (in Stark
integers follow the option, floating point items do not).

## 4. What is checked

| run | instance | shows |
|---|---|---|
| `chk_miss` | 2 groups, 2 checkpoints, groups without valid instructions, misses; **headers marked, as the core never does** | types; every waiting group is served or stomped on, through every path of the manager |
| `chk_wired` | the core as wired: 3 groups, headers unmarked, **violation** | two branches in flight share checkpoint 0 |
| `name_safety` | one pool of 4, delay 2 | a name is in one place; a stall ends; the supplier implements `NamePool` |
| `rob` | 3 groups of 2, window 3, one oddball at a time, 47,000 states | nothing overwritten, commit in order, oddball last; nothing lost after the clock it was queued in; instructions keep leaving, room returns |
| `rob_drop` | the same, valid instructions only, **violation** | a group is lost in the clock it is queued in |
| `stark_pool` | programs of up to 12 instructions, lines of 9 words, two words of constants at most | buckets are stacked; indexes lead to buckets; a line closed by an instruction without a constant is right |
| `stark_moved` | the same, **violation** | a line closed by an instruction that moves has lost a constant |
| `stark_encode` | every row, 490,000 states | operands read back where fields are apart, loss reported, relocations of branches in place |
| `qupls_encode` | every row, 305,000 states | operands read back where fields and predicate are apart, field and postfixes hold the constant as the decoder cuts it, both calls agree on the size, relocations in place and of the type written |
| `qupls_sizes` | the same, **violation** | a branch to a label has another size when it is emitted |
| `qupls_constants` | the same, **violation** | a constant with a postfix does not leave the decoder |
| `copro_encode` | every row, 170,000 states | operands read back, the processor stays in step and finds the constant, before and after linking; relocation types |

What each property leaves out is said at its definition; below, under "What the
code does not keep", is why. The five violation runs are the `findings` of
`PROJECT.json`, with the comments they contradict.

### Bounds, and why they are enough

* `NGRP = 2` of 4 in `chk_miss`: a group in service and an older or a younger one,
  in every rotation of the ring. The types are proved for every number
  (section 5), so that the run is there for the liveness. `chk_wired` has three.
* `NCHECK = 2` of 16: the allocator only ever hands out checkpoint 1
  (theorem `AllocatorHandsOutOne`, for any number).
* `MinExec = 2`: from a valid index to the branch having executed there are at
  least two clocks in the code (`dispatchable` is a register, then the
  instruction is dispatched, then it executes).
* Pool of 4 names: four ports that meet 0, 1, 2, 3 or 4 available names are all
  the cases the circuits distinguish. `MAPPED = 2` of them may stay held.
* Re-order buffer 3 x 2 with a window of 3, for 4 x 4 with 6: as in the code the
  window is one and a half groups and the buffer holds at least two windows.
  `RSTCNT = 4` keeps what matters of 32: it is longer than it takes the heads to
  leave the tails. `MaxDone` bounds how many instructions finish per clock.
* `MaxOdd = 1`: one entry at a time is marked as oddball or with an exception. It
  may stand anywhere, also in an entry that has become invalid, and be the oldest
  or the youngest; a second one would only end a commit that the first has ended,
  or another commit. `rob_drop` needs none.
* `StarkPool`: lines of 9 words for 16, the least that the assumption of the
  module allows: the margin of two words and a store immediate with its constants
  fit on a line with room to spare. `MaxInsns = 12` fills more than one line with
  every mix of kinds. The four properties are proved for every length (section 5).
* The encoders: all rows of the tables are tried with each source operand of
  the MC module: a register of each class, and numbers on both sides of every
  width the code tests or cuts at, positive and negative; labels of the file,
  externals and attributes where the code tells them apart. The branches of the
  code depend on nothing else. The history variables and the choice of one
  operand after the other make the runs finite without a bound.
* `MCSdDirectives` are the operands of the `.sdreg` directives of the source; the
  second is no register number and is ignored.

### Fairness

* Checkpoint manager: `WF(Next)`, the clock never stops.
* Name supplier: `WF(ClockEdge)`, and for each pool `WF(Reclaim)`: while more
  names are held than registers are mapped, some instruction in flight commits
  and frees a name. Commit does not wait for the rename stage, which is all that
  a stalled supplier holds up.
* Re-order buffer: `WF(Next)`, and `WF(HeadFinishes)`: an instruction the head
  waits for finishes some time. This is the promise of the units and is not
  examined here. No fairness is assumed of the pipeline: it may queue as often
  or seldom as it likes.
* The assemblers are sequential programs: they end with the program or the
  instruction (`CHECK_DEADLOCK FALSE` says that), and no liveness is stated.

### What the code does not keep

These were met while modelling. They bound what the properties can say, and each
exception in a property is one of them.

Core (each with the comment that says otherwise):

* The allocator does not take a checkpoint out of its bitmap: the statement
  (`checkpoint/Qupls4_checkpoint_allocator.sv` 118) indexes the wrong dimension,
  so it would hand out checkpoint 1 every time (comment at 74, theorem
  `AllocatorHandsOutOne`).
* A miss outside IDLE does not back the index up (`Qupls4_checkpoint_manager.sv`
  136, comment at 117).
* As wired, headers are never marked (`Qupls4.sv` 8898, commented out), so a
  branch is dispatchable though no checkpoint was taken (manager 60 and 118), and
  all of them share checkpoint 0 (finding `chk_wired`).
* If they were marked, a branch could still be dispatchable without a checkpoint
  of its own. The group the scan serves and the allocation it requests are set by
  different assignments (140-149). The scan reads a header one clock before `setcp`
  updates it, so that a group may be served twice, and the second `setcp` may come
  when another group has its slot. A stomped group is skipped by the head and its
  header overwritten while the manager serves it, so that the late `setcp` gives
  the new group an index no checkpoint was taken for. No run claims otherwise.
* A group may advance with a slot left short of a name: `stall` is a register, so
  the group that found no name leaves in the clock in which `stall` rises
  (`Qupls4_reg_name_supplier9.sv` 94, comment at 67).
  Counterexample: the last names of a pool are popped in one clock, with
  every slot served, so `stall` stays low; the group behind needs a name of that
  pool, finds none, and advances without it in the next clock, while `stall` is
  only then computed from it.
* Ports may choose the same name when fewer than four are left: each find-first
  circuit excludes the choice of the one before only (175, comment at 292).
* Instructions may be cleared in the clock they are queued in. The test for a
  collision of heads and tails is switched off (`Qupls4_commit_count.sv` 112,
  `TRUE ||`), so invalid entries count as committable up to and past the tails, and
  the commit (`Qupls4.sv` 7243) comes after the enqueueing (6529) in one block;
  the comment at 87 says "Do not commit invalid instructions at the tail of the
  queue." (Finding `rob_drop`; `LosesOnlyOnEntry` is what is left.)
  After reset the heads run round the empty buffer for the same reason.
* The data memory port never takes a request (section 6).

Stark:

* A constant that fits 14 bits and is marked gives up the whole word:
  `insert_ui` returns 4 (`operands.h` 133-136). Rows whose operands share bits are
  listed in `SharedRows`. A register list drops its last register (`cpu.c` 399-406).
  `CSRNO` is checked against 14 bits and has 12. A scale is parsed, never encoded.
* A branch target that is no multiple of four loses its low two bits without a
  message (`insert_bd`, `operands.h` 449-459; `insert_li` reports it), and
  `insert_mvrd` and `insert_mvrs` accept numbers up to 224 for fields of seven bits
  (947-963). With `CSRNO` these are the exceptions that `CutSilently` names.
* A constant of an instruction that moves stays on the old line too (finding
  `stark_moved`).
* Whether the space remaining on the line is enough (comment at `cpu.c` 1214) is
  asked of a place that wraps. On a line of 16 words an instruction with a constant
  of one word fits in word 14, by the margin of two words (1254), and the constant is
  promised word 15. The next instruction, without a constant, asks for the place
  behind itself, (15 + 1) mod 16 = 0, which is below 16 - 1: it fits, takes
  word 15, and the constant is written on the next line. That the words promised and
  the place together never exceed a line says nothing here, because the place is 0
  again, so no such property is stated; `ConstantsFoundOnTheirLine` is about such
  lines too.
* Store immediates with three or four words of constants overfill a line. A store
  of a label at a label marks two operands; if both labels are small it brings no
  constant, and `will_not_fit` takes two buckets of other instructions for its own
  and may empty the pool in the middle of a line (TLC shows it when this kind is
  added to `MCStarkPool`; the run leaves it out, and two theorems, `MarksCounted`). The
  pool is not reset between sections. `instruction_size` is always 4.
* `will_not_fit` counts the operands that the parser marked `OPM_CLR` (comment at
  1228), but the parser marks by the flags of the operand and the kind of expression
  (451-466) and the insert functions pool by the value alone. `CSRUI` is always
  pooled and marked only beyond 14 bits; a branch target from 13 bits on is pooled,
  and marked from 14 on; -8192 of a negated immediate (`NSI`) is pooled and not
  marked; an expression of several terms is never marked, and a small symbol is
  marked and not pooled. Then the line is closed too late or too early. No
  property says that marks and pool agree.
* `insert_dbrs` takes the number of the bucket as the index on the line.
* Load-immediate relocations use the pieces of a branch; the third piece of a
  branch is computed and not added; those of a branch replaced by two stay with
  the first word; those on a line always name word 0. `OP_D14` is missing in
  `make_reloc`. An attribute behind a marked symbol is always error 7. A number
  beyond 14 bits as the target of a conditional branch is error 11.
  The test for the small data register is never reached for a symbol, but a
  store immediate of a label relative to it gets the type of the area.
* Labels in data directives have no relocation (`#if 0`, 876-880, against the
  comments at 679 and 1391); floating point data are always big-endian; data
  operands index `powerpc_operands` past its end (451-463); data are cut silently.

Qupls4:

* The constant decoder never uses a postfix: within the one `always_comb` the
  flags are cleared, read by the case on the opcode, and only then set by the
  loop over the postfixes (finding `qupls_constants`). What the two sides mean by
  a postfix is checked apart from that: `PostfixesHoldConstant` puts the
  field and what the loop leaves into the formula of the case.
* `is_nbit` lets one bit too many pass, so a number at the limit changes its sign;
  a second postfix has bit 6 set, for which the decoder does not look. A fifth
  postfix is dropped (3258).
* Rows of length 8, 4, 3, 2 and 64 write six bytes; formats with fields past bit
  47 lose them (`CutFormats`); formats with operands over each other are in
  `SharedFormats`.
* The predicate that `encode_reg` adds to the first register falls on operands: in
  `RII` `PREDI(15)` sets bits 25 to 27 (2178) of the first immediate, which is at bits 23
  to 29 (2953-2956), so `sbx` loses it; in `RIV` `PREDSI(15)` sets bits 16
  to 18 (2198) of the second register, at bits 14 to 20, so `fcmp` and `fdiv`
  with an immediate read another one. Both formats are in `SharedFormats`. In R1,
  BFR3II, RI6, MV, BI and JSCNDX the predicate is at bit 54 and is not written. The
  mask 15 is cut to three bits by the macro (`cpu.h` 305), and `BI` would or
  the complement of its predicate into the word, if a row had a predicate operand.
* A label where a format has no place for one turns the word into 1 (3187).
  Relocations of `B` lie at bit 48, of DIRECT and REGIND at 29 for a field at 28;
  the low seven bits of `RIA` have none. The displacement of a branch to a label
  is taken twice while sizing (finding `qupls_sizes`), that of `BI` halved only
  while emitting, against the comment at 3348.
* `parse_idx` takes -1 for success; three-digit register numbers read as two;
  `J2` with a register encodes nothing; link registers are never encoded; the
  postfix of a displacement is never marked valid (1936); rows of `dbnez` and
  `dbra` take the target as comparand; DIRECT with two immediates drops the
  first; `insn_sizes1` has no bound.
* The precision is or-ed into the opcode number (3987; not modelled, read from the
  table): by default 4 becomes 7 (`ldi`),
  40 becomes 42 (`beqz`), 24 and 28 become 26, 27 or 31 (branches on a loop
  count or a bit), 72 becomes 73, 75 or 76 (loads of the old table). A qualifier
  on other rows changes the instruction.
* `fix_reloctype` retypes all relocations of the instruction, so the immediate of
  a store takes the type of its address, and an attribute on an operand relative
  to the small data register is lost; the base register of an immediate operand
  is read uninitialised. Floating point items write what `malloc` left (4409).

Coprocessor:

* -16384 and -16383 in the field are the escapes 0x4000 and 0x4001 (in `mul` the
  coprocessor then goes on by 36 bytes, fetching the constant seven times); 2^31 ..
  2^32-1 go into 32 signed bits; STOREI extends its four bits with zeros, and a
  wide constant sets bit 31, in its displacement.
* WAIT drops bits 8 and 11 of its operand; the bit map instructions put a register over
  the selector; a jump through a register loses its displacement, `waitgep` its
  third register; opcode 5 is unknown to the coprocessor.
* A number as jump target is not shifted though the coprocessor shifts it;
  relocations of loads, stores, STOREI and WAIT shift though it does not.
* As in all three, `.sdreg` takes effect when parsed, so the last directive of
  the source applies to every instruction.

## 5. What is proved

The proofs are in modules of their own, checked by TLAPS for every value of the
constants that satisfies the named assumptions of the module.

* `CheckpointTypes`, `AllocatorHandsOutOne`: types, and that `chkptn`, the output
  of the allocator, only ever holds 0 or 1, because a checkpoint handed out stays in
  the bitmap. The types need it: without it nothing would keep the code for "no
  checkpoint" out of `cndx`.
* `UnmarkedCoreUsesCheckpointZero`: if headers are never marked, `ALLOC1` and
  `ALLOC2` are never entered, so `cndx` stays 0, and with it the headers, the
  index of the rename stage and that stored with each branch (`ZeroInv`). It is
  why `chk_wired` finds what it finds.
* `SupplierTypes`, `NamesNeverLostOrShared`: `NamesPartition` is inductive
  together with the types. One step moves a name along bitmap -> instruction ->
  first stage -> ... -> last stage -> bitmap; the lemma `ClockMovesName` follows
  one name through a clock, `PoppedAvailable` says that what is popped was
  available although the code for "none" reads as a register.
* `SupplierImplementsPool`: the refinement of `NamePool`, initial states
  (`InitPool`) and steps (`ClockExchanges`), under that invariant.
* `RingSafety`, `QueueingOverwritesNothing`, `CommitIsInOrder`,
  `OddballIsLast`: nothing keeps the heads between the oldest and the youngest
  instruction, and they do overrun the tails. The invariant that holds instead
  (`HeadBeforeOldest`) is that going up from the tails every entry before the
  head is invalid: what the heads pass is invalid, or committed in that clock,
  including what was queued there in that clock. `AfterReset` says that the
  heads have left the tails before the pipeline first advances, so that the room
  does not believe its register any more. The three action properties follow
  from the invariant and the form of the commit count.
* `RingLosesOnlyOnEntry`: the ring implements `InOrderBuffer` with `Least = 0`, initial
  states and steps: the clock in which a group is queued is the only one that loses
  instructions (that it does is the finding `rob_drop`). The mapping takes the instructions between the tails and the heads in ring order
  with the invalid entries left out (`Queued`), a recursive function; the proof
  follows it entry by entry (`SetInduction`) through what a step leaves
  alone, empties and fills.
* `PoolStaysStacked`, `TypesHold` (`StarkPoolProofs`): for every line of more than
  eight words and every program the buckets lie one under the other and the place is
  what was written, also where a line is overfilled: there are then no NOPs and the
  constants run on into the next line. Closing a line empties the pool.
* `IndexesHaveBuckets`, `PlainLinesFindConstants`: the other two properties of
  `stark_pool`, under two conditions the code does not enforce: there are at most two
  words of constants in an instruction and what it pools is marked
  (`TwoWordsCounted`), and an instruction without constants has at most one operand
  marked (`MarksCounted`). Section 4 says where they fail without. The invariant is
  `offset + totsz <= Words` with `totsz <= 2 * offset + 3`, by which the unsigned sums of
  `will_not_fit` never wrap around zero. It is no claim that a promised word stays
  free: where the place wraps to 0 it says nothing of the line before.
* `NoSilentLoss`, `TypesHold`, `FieldsReadBack`,
  `RelocsNameTheirBits` (`StarkEncodeProofs`): all that `stark_encode` checks, for
  every operand of at most 64 bits (`SourcesAssumption`), every address width,
  with and without `-opt-branch`. The argument has two halves. About the operand
  table: what each type of operand puts where (`OperandsPlaced`: within
  `Reach(t)`, pieces apart), what it keeps (`NumbersAccounted`), and that in every row
  outside `SharedRows` the reaches of the operands are apart (`RowsAreApart`).
  About the loop: `ReadInv` says that without errors the word has bits only where the
  operands so far reach, and each of them is in place (`InPlace`), so that the
  next one disturbs none; `TypeInv` that each pooled constant
  belongs to an operand of a type that may bring one, of which no row has three;
  `BranchInv` that relocations name pieces of the target of their own branch.
  The attempt to prove `LossIsReported` showed what the numbers of the run had
  missed: the cuts of `insert_bd`, `insert_mvrd` and `insert_mvrs` that section 4
  lists. The run now has such numbers.
* `Inductive`, `TypeCorrect`, `ReadBack`, `StaysInStep`, `FindsConstant`,
  `LinkedArrives`, `RelocTypesAsWritten` (`CoproEncodeProofs`): all that
  `copro_encode` checks, for every set of operands of at most 64 bits
  (`SourcesAssumption`) and every `.sdreg`. None of the properties is inductive: they
  speak of the finished instruction only. The invariant `IInv` says what it is at
  every point of both calls: the word is what the row fixes and what the operands so
  far put into it, the appended constant is that of the last operand with one,
  size, record of placements and relocations likewise are functions of the row and
  the operands (`WordInv`, `SizeInv`, `HistoryInv`; `DataInv` for the
  directives), and the sizing call counted what the emitting call appends. TLC
  checked it on the run before it was proved, one lemma per action. The properties are then
  statements about that function: every row has one of a few shapes
  (`Shape`), and for each the fetch states, the constant decoder, the linker and
  a reader of the fields are followed through the word bit by bit.
* `SeparateFieldsReadBack`, `SignedRangeIsExact`: a value in pieces no other
  operand shares is read back, whatever the rest of the word holds; a number
  fits a signed field of n bits exactly when extending its low n bits gives it
  back. They are why the encoder runs need only look at overlaps and limits, and
  the base of the proofs about `StarkEncode` and `CoproEncode`.
* `InductiveInvariant`, `TypesCorrect`, `OperandsSafe`, `BlockHasTheSize`,
  `RelocTypesWritten`, `RelocationsSafe`, `ConstantsSafe` (`Qupls4EncodeProofs`): all
  that `qupls_encode` checks, for every set of operands of at most 64
  bits (`SourcesAssumption`). That the block has the size the sizing call returned
  (`SizesAgree`) hangs on the postfixes: each operand that may append one is
  asked twice, in two calls that share no state but the operand. The invariant
  (`SizeInv`) gives for every point of either call the number of postfixes so far as
  a function of the row and the operands before it, and that number is the
  same in both calls outside the rows `SizesAgree` leaves out. It needs that the operands are
  what the row admits (`OperandsInv`), and that every row of the table has one of few
  shapes which fix what its operands may be (`Mnemonics`). A relocation has the type
  of the attribute written (`RelocTypeInv`), for each of the ways an operand makes one.
  That operands are read back (`OperandsSafe`) is an argument about lanes: to each
  operand of a format a range of the word belongs (`Lanes`). Lanes of one format
  are apart, lie behind the opcode and hold no bit that a row of the format fixes
  (`LanesDisjoint`, `LanesFree`); what an operand of an admitted kind is put into lies in its
  lane. The predicate that comes with the first register belongs to no operand; it must
  be apart from all lanes, which is why `RII` and `RIV` are among the formats
  left out. The invariant (`LanesInv`) says that the operands so far are in place and
  the lanes of the later ones still empty, which a step keeps because it changes
  only its own lane and bits that are not written; a branch clears its comparand's lane before.
  What a constant leaves besides (`TailInv`, checked by TLC first) is the rest of it in
  a postfix and, for a label, relocations: in a format with one constant the postfixes are those of
  the constant and no other operand's (`TailOf`), and the relocations list exactly its pieces
  (`PatchesOf`). So a relocation reads back its part of the label from the bytes written,
  across the border of the instruction (`RelocationsSafe`). For `ConstantsSafe` the postfix
  is followed into the decoder: it is one for this constant and for its low quarter
  (`PostfixDecoded`), the loop over one postfix leaves its 39 bits with their sign
  (`OneConstant`), and field and loop together give the number back
  because it fits n + 39 bits (`SignedRangeIsExact`).
* `SetInduction`, `FlattenSteps` (`BaseLemmas`): the library's induction takes a
  predicate as a parameter, which the provers cannot instantiate. Stated for a
  set of numbers instead it follows from the well-foundedness of `<`, and a recursive
  definition is unfolded by taking the set of the numbers for which it
  has the property wanted.

Only model-checked: liveness (`EveryGroupServed`, `StallEnds`,
`InstructionsKeepLeaving`, `RoomReturns`), which is out of the prover's reach.
Every invariant and every action property that a passing run checks is a theorem.

## 6. What is not modelled

What a model of each would need:

* **Register alias table and backout machine** (`rename/Qupls4_rat2.sv`): current,
  history and saved maps, the save under `alloc_chkpt` several clocks after the
  rename it belongs to, restore, and the walk of the backout machine over the
  re-order buffer. As wired only checkpoint 0 is used (`chk_wired`), so that saving and
  restoring under distinct indexes would be a model of code that never runs; the
  walk needs the stomp logic.
* **Stomp logic**: needs the fetch side, whose stages and streams it invalidates.
* **Dispatcher and reservation stations**: registered busy flags, capture of
  operands from a history of the write ports.
* **Result queues and selection** (`writeback/`): as wired there are none. Every
  instance takes the default depth 0, with which the queue passes its input
  through; `NFRQ` and `NREG_WPORTS` are both 6 (`inc/Qupls4_config.sv` 330, 352), so
  the rotating selection is not built; and a write port takes the flag that its queue is empty as the flag that
  it holds a result (`Qupls4.sv` 3788).
* **Load/store queue and data memory port** (`memory/`): as wired the port never
  takes a request. It is taken only if `lsndxv_i`, not stomped on, and neither
  `dram_idv_i` nor `dram_idv2_i` (`Qupls4_set_dram_work.sv` 141), while
  `Qupls4.sv` 5309 makes `dram0_idv` true exactly when the index is valid, not
  stomped on and `dram0_idv2` is false. So ordering, time-outs and retries never
  happen in this code, and properties about them would be about a repaired port.
* **Data cache controller, MMU, interrupt controller, timer, bus arbiter**: a
  model needs the bus packages and interfaces (`wishbone_pkg`, `fta_bus_pkg`,
  `wb_bus_interface`) and FIFO and memory blocks that are not in the repository,
  and bus masters that make requests.
* **The rest of the back ends**: the precision of Qupls4 opcodes (a table to compare
  with a table; section 4 lists where it changes the operation), command line options, the parsing of mnemonics
  and expressions and the output formats of vasm (outside the back ends), vector
  registers (their parser is commented out), code under macros that are not
  defined (`SUPPORT_IBH`), the branch encoders of the coprocessor that no row
  uses.
* **The back ends of earlier instruction sets** (`Qupls5`, `Qupls`, `Qupls1`):
  earlier or parallel versions of the Qupls4 back end, with other tables.

Left out for good: prediction, decoders other than that of constants, micro-op
tables and arithmetic (data paths, for which simulation says more), the earlier
cores, what the coprocessor draws, the kernel (unfinished: it calls routines
that are not defined) and the tools. IP blocks that are not in the repository
(find-first-one circuits, memories) are modelled from their use and marked
external.
