SPECIFICATION Spec
CONSTANTS
  Session = {s1, s2}
  NULL = NULL
  Attachment = {a1}
  Organization = {o1}
  Ticket = {t1}
  Status = {"open", "closed", "resolved"}
  UploadLife = 1
  PutLife = 1
  Expiry = 2
  PublicExpiry = 3
  Buffer = 1
  MaxTime = 3
SYMMETRY Symmetry
INVARIANTS IInv LinksConfirmed LogoUploaded ServedUrlsWork
PROPERTY ObjectsOutliveRows
CHECK_DEADLOCK FALSE
