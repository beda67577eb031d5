SPECIFICATION RscSpec
CONSTANTS
  Width = 2
  Poly = 7
  Commands <- MCCommands
  kBlocksize = 2
  MayRead = {1}
INVARIANTS RscTypeOK OutputIsCode
PROPERTY AlwaysExits
\* main exits.
CHECK_DEADLOCK FALSE
