\* The core as wired, whose headers never mark a branch, against what the
\* manager promises to a branch
SPECIFICATION Spec
CONSTANTS
  NGRP = 3
  NCHECK = 3
  MinExec = 1
  MarksBranches = FALSE
  Losses = {}
INVARIANTS BranchesHaveDistinctCheckpoints
