\* Two commands over the stages of one plan, two seeds, five steps and plans of
\* two or three waypoints.
SPECIFICATION Spec
CONSTANTS
  Procs = {p1, p2}
  Seeds = 2
  Required = 1
  MaxSteps = 5
  MaxWaypoints = 3
INVARIANTS TypeOK ReferenceIsCurrent CountsAreTrue OnceInOrder
PROPERTY KeptUntilComplete
\* Every stage has its report or was given up.
CHECK_DEADLOCK FALSE
