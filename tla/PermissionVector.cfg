SPECIFICATION Spec
CONSTANTS
  MaxOffset = 4
  MinLength = 1
  MaxEntries = 4
INVARIANTS
  TypeOK
  VectorSound
  HasPermissionSound
  GrantCovers
  RevokeClears
  
  RevokeKeepsRest
