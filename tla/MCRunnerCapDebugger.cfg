CONSTANTS
  All = all
  Options <- SmallOptions
  Nodes <- SmallNodes
SPECIFICATION CapSpec
INVARIANTS
  DebuggerAlone
