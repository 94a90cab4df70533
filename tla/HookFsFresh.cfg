SPECIFICATION Spec
CONSTANTS
  Names = {a, b}
  MaxDepth = 2
  FileInos = {f1}
  DirInos = {d1}
  Root = root
  OverrideInos = {}
  FreshRenames = TRUE
  StatFails = FALSE
  MaxLookups = 2
  NoFile = none
SYMMETRY Symmetry
INVARIANTS PathsAccurate OwnFile
