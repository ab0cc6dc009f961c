\* The manager under branch misses, with headers that mark their branches:
\* its port is made for them, but no part of the core writes the mark
SPECIFICATION Spec
CONSTANTS
  NGRP = 2
  NCHECK = 2
  MinExec = 2
  MarksBranches = TRUE
  Losses = {"miss", "void"}
INVARIANTS TypeOK
PROPERTIES EveryGroupServed
