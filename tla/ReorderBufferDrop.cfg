\* Groups of valid instructions only, against what a queue promises
SPECIFICATION Spec
CONSTANTS
  MWIDTH = 2
  NGRP = 3
  WINDOW = 3
  RSTCNT = 4
  Kinds = {"busy"}
  MaxOdd = 0
  MaxDone = 1
PROPERTIES IsInOrderBuffer
