SPECIFICATION NamespaceSpec
CONSTANTS
  c1 = c1
  c2 = c2
  f1 = f1
  f2 = f2
  f3 = f3
  Clients = {c1, c2}
  Names = {f1, f2, f3}
  Uses <- MCUses
  Writes = {f1}
  MaxFiles <- MCMaxFiles
  MaxSize = 1
  Nobody = Nobody
CHECK_DEADLOCK FALSE
INVARIANTS
  NamespaceTypeOK
  NoDanglingFile
  

  
  
