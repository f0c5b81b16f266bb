\* The number 6 is negative as an int: as in log(), -2 has two digits to base 2.
SPECIFICATION Spec
CONSTANTS
  t1 = t1
  t2 = t2
  b = b
  ok = ok
  err = err
  Newline = Newline
  Space = Space
  Nul = Nul
  OpenBracket = OpenBracket
  CloseBracket = CloseBracket
  LightGrey = "grey"
  Writer <- MCWriter
  Width = 3
  Height = 2
  U8 = 5
  U32 = 8
  Radix = 2
  MaxSwitches = 3
  Level <- MCLevel
  TagOf <- MCTagOf
  ColorOf <- MCColorOf
  Char <- MCChar
  Calls <- MCCalls
INVARIANTS
  TypeOK
  ShowsText
  CursorFollows
  ColorRestored
  NumberShown
CHECK_DEADLOCK FALSE
