\* Room, order of commit and movement of the heads; the buffer drains
SPECIFICATION Spec
CONSTANTS
  MWIDTH = 2
  NGRP = 3
  WINDOW = 3
  RSTCNT = 4
  Kinds = {"empty", "busy", "stomped"}
  MaxOdd = 1
  MaxDone = 1
INVARIANTS TypeOK
PROPERTIES NothingOverwritten CommitsInOrder OddballCommitsLast LosesOnlyOnEntry InstructionsKeepLeaving RoomReturns
