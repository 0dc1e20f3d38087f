\* Two admins and the stock traffic on one product.  The system stops when the
\* product is deleted and nobody has it open: no other product can be created.
SPECIFICATION Spec
CONSTANTS
  a1 = a1
  a2 = a2
  Products = {p1}
  Details = {d1, d2}
  Admins = {a1, a2}
  MaxStock = 2
  MaxVersion = 4
  NoRow = NoRow
SYMMETRY Symmetry
INVARIANTS TypeOK ConflictMeansNewerVersion
PROPERTIES NoLostUpdate NoBlindOverwrite DeletedStaysDeleted
CHECK_DEADLOCK FALSE
