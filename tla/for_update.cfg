SPECIFICATION PartsSpec
CONSTANTS
  Session = {s1}
  Product = {p1}
  Revision = {r1}
  Name = {a}
  NULL = NULL
  UserVersion <- Nine
  Permission = {"work_orders.write"}
PROPERTY DraftsTakeMaterials
