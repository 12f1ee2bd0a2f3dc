SPECIFICATION Spec
CONSTANTS
  Callbacks = {c1, c2, c3}
  MaxListeners = 4
  MaxChanges = 6
SYMMETRY Symmetry
INVARIANTS
  TypeOK
 MissesFewerThanRemoved
 NoneRepeated
