\* Up to four nodes for three threads: a thread may be in the queue twice.
\* Symmetry is sound: the refinement has no liveness.
SPECIFICATION Spec
CONSTANTS
  Threads = {a, b, c}
  Nodes = {n1, n2, n3, n4}
  None = none
SYMMETRY Symmetry
INVARIANTS
  TypeOK
  ListIsHeap
  EndsAtTail
PROPERTIES
  ImplementsQueue
