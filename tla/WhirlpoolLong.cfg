SPECIFICATION Spec
CONSTANTS
  Strings <- MCStrings
  Chunk = 66
  Stack <- MCStack
INVARIANTS
  HashesTheString
