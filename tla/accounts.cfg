SPECIFICATION Spec
CONSTANTS
  Session = {s1, s2}
  NULL = NULL
  Role = {admin, r1}
  SystemRole = {admin}
  Permission = {p1, p2}
  User = {u1}
  Password = {w1, w2}
SYMMETRY Symmetry
INVARIANTS IInv PermissionsCurrent SessionsCurrent
