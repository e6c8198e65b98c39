SPECIFICATION PartsSpec
CONSTANTS
  Session = {s1, s2}
  Product = {p1}
  Revision = {r1, r2, r3, r4}
  Name = {a, b}
  NULL = NULL
  UserVersion <- Typed
  Permission = {"work_orders.write"}
SYMMETRY Symmetry
INVARIANTS IInv VersionsDistinct MinorsAreNumbers LogEndsCurrent
PROPERTIES ImplementsCatalogue
