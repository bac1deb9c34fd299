CONSTANT
  Tui = TRUE

SPECIFICATION Spec
INVARIANTS TasksOutliveFailures
PROPERTIES StopIsHeard
