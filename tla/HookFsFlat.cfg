SPECIFICATION SpecNames
CONSTANTS
  Names = {a, b}
  MaxDepth = 1
  FileInos = {f1, f2}
  DirInos = {}
  Root = root
  OverrideInos = {}
  FreshRenames = FALSE
  StatFails = TRUE
  MaxLookups = 2
  NoFile = none
SYMMETRY Symmetry
INVARIANTS PathsDistinct RefCounts
PROPERTY RenameStaleness
