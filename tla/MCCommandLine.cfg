SPECIFICATION Spec
CONSTANTS
  Char <- MCChar
  Lines <- MCLines
  MaxChars = 12
  MaxArgs = 2
INVARIANTS
  TypeOK
  ArgumentsAreWords
  TokensAreParts
CHECK_DEADLOCK FALSE
