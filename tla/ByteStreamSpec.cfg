CONSTANTS
  Byte = {a, b}
  Capacity = 3
  MaxWrite = 3
  MaxBytes = 6
SPECIFICATION Spec
INVARIANTS
  TypeOK
  CountersAgree
  FirstInFirstOut
PROPERTIES
  EofIsFinal
