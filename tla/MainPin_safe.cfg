\* One process of one call, one that lives on and caches its root, both reading
\* as well; a user who moves the primary checkout, and others who commit.
CONSTANTS
  Proc = {p, q}
  LongLived = {p}
  Readers = {p, q}
  MaxWrites = 3
  MaxSwitches = 2
  MaxOutside = 1
  MaxCrashes = 1
  NoProc = NoProc
SPECIFICATION Spec
INVARIANTS TypeOK AckedOnMain RaisesOnlyForOutsiders
PROPERTY MainOnlyGrows
