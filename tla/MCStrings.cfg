SPECIFICATION Spec
CONSTANTS
  slash = slash
  a = a
  Nul = Nul
  Junk = Junk
  Char <- MCChar
  Element <- MCElement
  Pushed <- MCPushed
  Delimiter = slash
  MaxLength = 3
  MaxSize = 4
  MaxBelow = 1
INVARIANTS
  TypeOK
  WildExplained
  SplitRight
PROPERTIES
  ImplementsList
CHECK_DEADLOCK FALSE
