SPECIFICATION Spec
CONSTANTS
  w1 = w1
  w2 = w2
  Workers <- MCWorkers
  Assignments <- MCAssignments
INVARIANTS MeosReady FinalizedOnce CallsFitPlan
