SPECIFICATION Spec
CONSTANTS
  Session = {s1}
  NULL = NULL
  Node = {n1, n2, n3, n4}
  Org = {o1}
  OldOrg = {}
  Name = {a}
  Status = {"IDLE"}
  Time <- OneTime
  MaxDepth = 3
SYMMETRY Symmetry
VIEW WithoutHistory
INVARIANTS ParentsLive  
