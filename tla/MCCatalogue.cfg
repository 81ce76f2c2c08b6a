SPECIFICATION CatalogueSpec
CHECK_DEADLOCK FALSE
CONSTANTS
  p1 = p1
  c1 = c1
  c2 = c2
  i1 = i1
  i2 = i2
  Products = {p1}
  Categories = {c1, c2}
  Promos = {}
  Names = {"Dairy", "DAIRY", "Bread"}
  Fold <- MCFold
  Images = {i1, i2}
  NoImage = NoImage
  MaxOpen = 2
CONSTRAINT Focus
SYMMETRY Symmetry
INVARIANTS
  ShownImagesExist
PROPERTIES
  NothingLeftBehind
  FiledStaysFiled
