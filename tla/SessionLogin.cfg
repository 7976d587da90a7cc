SPECIFICATION Spec
CONSTANTS
  Slots = {s1}
  Names = {ann, bob}
  NoName = NoName
  MaxQueries = 3
INVARIANTS
  LoginIsForTheRegistered
