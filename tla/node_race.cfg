SPECIFICATION Spec
CONSTANTS
  Session = {s1, s2}
  NULL = NULL
  Node = {n1, n2}
  Org = {o1}
  OldOrg = {o1}
  Name = {a}
  Status = {"IDLE", "RUNNING"}
  Time <- NoTime
  MaxDepth = 2
SYMMETRY Symmetry
VIEW WithoutHistory
INVARIANTS IInv PathsDistinct ParentsLive 
PROPERTIES DeletedStaysDeleted
