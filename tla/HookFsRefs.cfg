SPECIFICATION SpecNames
CONSTANTS
  Names = {a}
  MaxDepth = 1
  FileInos = {f1, f2}
  DirInos = {}
  Root = root
  OverrideInos = {f2}
  FreshRenames = FALSE
  StatFails = TRUE
  MaxLookups = 3
  NoFile = none
INVARIANT KernelRefsBacked
PROPERTY KeepsContract
