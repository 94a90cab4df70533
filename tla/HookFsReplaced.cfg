SPECIFICATION Spec
CONSTANTS
  Names = {a, b}
  MaxDepth = 1
  FileInos = {f1, f2}
  DirInos = {}
  Root = root
  OverrideInos = {}
  FreshRenames = FALSE
  StatFails = FALSE
  MaxLookups = 2
  NoFile = none
INVARIANT OwnFile
