CONSTANTS
  Classes = {"A", "B", "C"}
  Extends <- Superclass
  NoClass = ""
  Programs <- MCPrograms
  Lax = {}
SPECIFICATION Spec
INVARIANTS
  TypeOK
  WellTyped
  NoAssertionFails
  DispatchesToNearest
