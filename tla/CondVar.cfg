CONSTANTS
  Proc = {p1, p2, p3}
  Victims = {p1, p2}
  Nobody = Nobody
SPECIFICATION FairSpec
INVARIANTS MutexExcludes MutexWaiterInformed NodesInScope
PROPERTY MutexPassedOn
CHECK_DEADLOCK FALSE
