SPECIFICATION Spec
CONSTANTS
  Session = {s1}
  NULL = NULL
  Node = {n1, n2}
  Org = {o1}
  OldOrg = {o1}
  Name = {a}
  Status = {"IDLE"}
  Time <- NoTime
  MaxDepth = 3
SYMMETRY Symmetry
INVARIANT Hierarchy
