SPECIFICATION SpecNames
CONSTANTS
  Names = {a, b}
  MaxDepth = 2
  FileInos = {f1}
  DirInos = {d1}
  Root = root
  OverrideInos = {}
  FreshRenames = FALSE
  StatFails = FALSE
  MaxLookups = 2
  NoFile = none
SYMMETRY Symmetry

PROPERTY RenameStaleness
