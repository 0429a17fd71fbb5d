SPECIFICATION FairSpec

CONSTANTS
  x = x
  y = y
  Thread = {t1, t2}
  Handle = {h1}
  ReadSizes = {1, 4}
  Path <- MCPath
  Names <- MCNames
  Disks <- MCDisks
  MaxChanges = 1

INVARIANTS
  TypeOK
  ReferencesValid
  ScanFaithful
  OnlyScanThrows

PROPERTIES
  ServesOneTree
  RequestsEnd

CHECK_DEADLOCK FALSE
