SPECIFICATION Spec
SYMMETRY Symmetric
CONSTANTS
  Slots = {s1, s2}
  Names = {ann, bob}
  NoName = NoName
  MaxQueries = 3
INVARIANTS
  TypeOK
  RegisteredWhenQuiet
  PasswordIsOnesOwn
  LoginHasAPassword
